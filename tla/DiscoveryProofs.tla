--------------------------- MODULE DiscoveryProofs ---------------------------
(***************************************************************************)
(* From the types of a module to the theories of its Why3 file, for        *)
(* modules of any number of functions, instructions, clauses and globals,  *)
(* and for every order of the roots, of the vectors and of the theories.   *)
(*                                                                         *)
(* The inductive invariant is DiscoveryInv.  While getTypeInfo walks, all  *)
(* it will find is found already or reached from what is Pending: a root   *)
(* or a part of a type whose call is still open (WalkOK).  A type that is  *)
(* made of itself stays Pending, so the walk of a module that has one does *)
(* not end but with the stack overflow.  That the overflow needs such a    *)
(* type is StackOK: the types of the open calls are a chain in which each  *)
(* is a part of the next, so one that is longer than the number of types   *)
(* has a type twice (OverflowPrintable).                                   *)
(*                                                                         *)
(* Once the walk is over, types is what is to be found and the integer     *)
(* types for pointers (FoundOK, VectorsOK), and what is printed follows    *)
(* the phases (PrintedOK).  A phase that prints the derived theories waits *)
(* for the parts of each; some theory can always go next, for of those     *)
(* that wait the one made of the fewest types waits for none (NoneWaits).  *)
(* Whatever has been printed could be (CheckedOK), so a run that gets to   *)
(* the end is of a Printable module (DonePrintable), and a goal never ends *)
(* the program: the requires clause it prints on top of its function is    *)
(* among the clauses of a function that has been printed (GoalFacts).      *)
(*                                                                         *)
(* That names are imported rests on NamedFound (the types inside operands  *)
(* are among what getTypeInfo finds for those operands), InstructionFacts  *)
(* (all an equation names) and IsNode (what each class of expressions asks *)
(* for, against what it prints).                                           *)
(***************************************************************************)
EXTENDS Discovery, FiniteSetTheorems, SequenceTheorems, WellFoundedInduction, TLAPS

(* Induction over the natural numbers, for a set of them.                  *)
LEMMA Induction ==
  ASSUME NEW S, 0 \in S, \A n \in Nat : n \in S => n + 1 \in S
  PROVE  \A n \in Nat : n \in S
<1>. SUFFICES ASSUME NEW m \in Nat \ S PROVE FALSE
  OBVIOUS
<1>. DEFINE R == {ss \in Nat \X Nat : ss[1] < ss[2]}
            T == Nat \ S
<1>1. IsWellFoundedOn(R, Nat)
  BY NatLessThanWellFounded DEF OpToRel
<1>2. \A j, k \in T : j < k => <<j, k>> \in R
  OBVIOUS
<1>3. T \subseteq Nat /\ T # {}
  OBVIOUS
<1>4. \A n \in T : n # 0 /\ n - 1 \in T /\ n - 1 < n
  <2>. SUFFICES ASSUME NEW n \in T PROVE n # 0 /\ n - 1 \in T /\ n - 1 < n
    OBVIOUS
  <2>1. n - 1 \in Nat /\ (n - 1) + 1 = n
    OBVIOUS
  <2>. QED  BY <2>1
<1>. HIDE DEF R, T
<1>5. PICK k \in T : \A j \in T : ~(<<j, k>> \in R)
  BY <1>1, <1>3, WFMin
<1>. QED  BY <1>2, <1>4, <1>5

(* A set of natural numbers has a least one.                               *)
LEMMA Least ==
  ASSUME NEW S, S \subseteq Nat, S # {}
  PROVE  \E k \in S : \A j \in S : k <= j
<1>. DEFINE R == {ss \in Nat \X Nat : ss[1] < ss[2]}
<1>1. IsWellFoundedOn(R, Nat)
  BY NatLessThanWellFounded DEF OpToRel
<1>2. \A j, k \in S : j < k => <<j, k>> \in R
  OBVIOUS
<1>. HIDE DEF R
<1>3. PICK k \in S : \A j \in S : ~(<<j, k>> \in R)
  BY <1>1, WFMin
<1>4. \A j \in S : ~(j < k) /\ j \in Nat /\ k \in Nat
  BY <1>2, <1>3
<1>. QED  BY <1>4
-----------------------------------------------------------------------------
(* Closure *)

(* One more step from the types in each A[..], and what Closure iterates.  *)
Further(P, A) == [t \in Type |-> UNION {{u} \cup P[u] : u \in A[t]}]
Start == [t \in Type |-> {t}]
IsIterate(P, g, m) ==
  /\ g \in [0..m -> [Type -> SUBSET Type]]
  /\ g[0] = Start
  /\ \A n \in 1..m : g[n] = Further(P, g[n - 1])

LEMMA FurtherTypes ==
  ASSUME NEW P \in [Type -> SUBSET Type], NEW A \in [Type -> SUBSET Type]
  PROVE  Further(P, A) \in [Type -> SUBSET Type]
BY DEF Further

LEMMA IteratesExist ==
  ASSUME NEW P \in [Type -> SUBSET Type]
  PROVE  \A m \in Nat : \E g : IsIterate(P, g, m)
<1>. DEFINE S == {m \in Nat : \E g : IsIterate(P, g, m)}
<1>1. 0 \in S
  <2>1. IsIterate(P, [n \in 0..0 |-> Start], 0)
    BY DEF IsIterate, Start
  <2>. QED  BY <2>1
<1>2. ASSUME NEW m \in Nat, m \in S PROVE m + 1 \in S
  <2>1. PICK g : IsIterate(P, g, m)
    BY <1>2
  <2>. DEFINE h == [n \in 0..(m + 1) |-> IF n = m + 1 THEN Further(P, g[m]) ELSE g[n]]
  <2>2. Further(P, g[m]) \in [Type -> SUBSET Type]
    BY <2>1, FurtherTypes DEF IsIterate
  <2>3. h \in [0..(m + 1) -> [Type -> SUBSET Type]]
    BY <2>1, <2>2 DEF IsIterate
  <2>4. h[0] = Start
    BY <2>1 DEF IsIterate
  <2>5. ASSUME NEW n \in 1..(m + 1) PROVE h[n] = Further(P, h[n - 1])
    <3>1. n - 1 \in 0..m /\ n - 1 # m + 1 /\ h[n - 1] = g[n - 1]
      OBVIOUS
    <3>2. CASE n = m + 1
      BY <3>1, <3>2
    <3>3. CASE n # m + 1
      <4>1. n \in 1..m /\ h[n] = g[n]
        BY <3>3
      <4>. QED  BY <2>1, <3>1, <4>1 DEF IsIterate
    <3>. QED  BY <3>2, <3>3
  <2>6. IsIterate(P, h, m + 1)
    BY <2>3, <2>4, <2>5 DEF IsIterate
  <2>. QED  BY <2>6
<1>. HIDE DEF S
<1>3. \A n \in Nat : n \in S
  BY <1>1, <1>2, Induction
<1>. QED  BY <1>3 DEF S

LEMMA TypesFinite == IsFiniteSet(Type) /\ Cardinality(Type) \in Nat
BY TypeAssumption, FS_CardinalityType DEF TypeAssumption

LEMMA ClosureIterates ==
  ASSUME NEW P \in [Type -> SUBSET Type]
  PROVE  \E g : IsIterate(P, g, Cardinality(Type)) /\ Closure(P) = g[Cardinality(Type)]
<1>. DEFINE N == Cardinality(Type)
            Rec(g) == [n \in 0..N |-> [t \in Type |-> IF n = 0 THEN {t}
                         ELSE UNION {{u} \cup P[u] : u \in g[n - 1][t]}]]
            w == CHOOSE g : g = Rec(g)
<1>1. N \in Nat
  BY TypesFinite
<1>2. PICK g : IsIterate(P, g, N)
  BY <1>1, IteratesExist
<1>3. g = Rec(g)
  <2>1. ASSUME NEW n \in 0..N, n # 0 PROVE g[n] = Rec(g)[n]
    <3>1. n \in 1..N
      BY <1>1, <2>1
    <3>. QED  BY <1>2, <2>1, <3>1 DEF IsIterate, Further
  <2>2. g[0] = Rec(g)[0]
    BY <1>1, <1>2 DEF IsIterate, Start
  <2>3. DOMAIN g = 0..N /\ g = [n \in 0..N |-> g[n]]
    BY <1>2 DEF IsIterate
  <2>. QED  BY <2>1, <2>2, <2>3
<1>4. w = Rec(w)
  BY <1>3
<1>5. Closure(P) = w[N]
  BY DEF Closure
<1>. HIDE DEF w
<1>6. w[0] = Start
  BY <1>1, <1>4 DEF Start
<1>7. ASSUME NEW n \in 1..N PROVE w[n] = Further(P, w[n - 1])
  <2>1. n \in 0..N /\ n # 0
    BY <1>1
  <2>. QED  BY <1>4, <2>1 DEF Further
<1>8. w \in [0..N -> [Type -> SUBSET Type]]
  <2>. DEFINE S == {n \in Nat : n \in 0..N => w[n] \in [Type -> SUBSET Type]}
  <2>1. 0 \in S
    BY <1>6 DEF Start
  <2>2. ASSUME NEW n \in Nat, n \in S PROVE n + 1 \in S
    <3>. SUFFICES ASSUME n + 1 \in 0..N PROVE w[n + 1] \in [Type -> SUBSET Type]
      OBVIOUS
    <3>1. n + 1 \in 1..N /\ n \in 0..N /\ (n + 1) - 1 = n
      BY <1>1
    <3>. QED  BY <1>7, <2>2, <3>1, FurtherTypes
  <2>. HIDE DEF S
  <2>3. \A n \in Nat : n \in S
    BY <2>1, <2>2, Induction
  <2>4. \A n \in 0..N : w[n] \in [Type -> SUBSET Type]
    BY <2>3, <1>1 DEF S
  <2>5. w = [n \in 0..N |-> w[n]]
    BY <1>4
  <2>. QED  BY <2>4, <2>5
<1>. QED  BY <1>5, <1>6, <1>7, <1>8 DEF IsIterate

(* After as many steps as there are types, no step leads further.          *)
LEMMA ClosureFacts ==
  ASSUME NEW P \in [Type -> SUBSET Type]
  PROVE  /\ Closure(P) \in [Type -> SUBSET Type]
         /\ \A t \in Type : t \in Closure(P)[t]
         /\ \A t \in Type : \A u \in Closure(P)[t] : P[u] \subseteq Closure(P)[t]
         /\ \A t \in Type : \A S \in SUBSET Type :
              t \in S /\ (\A u \in S : P[u] \subseteq S) => Closure(P)[t] \subseteq S
<1>. DEFINE N == Cardinality(Type)
            Closed(A) == \A u \in A : P[u] \subseteq A
<1>1. N \in Nat
  BY TypesFinite
<1>2. PICK g : IsIterate(P, g, N) /\ Closure(P) = g[N]
  BY ClosureIterates
<1>3. \A n \in 0..N : g[n] \in [Type -> SUBSET Type]
  BY <1>2 DEF IsIterate
<1>4. \A t \in Type : g[0][t] = {t}
  BY <1>2 DEF IsIterate, Start
<1>5. \A n \in 1..N : \A t \in Type : g[n][t] = UNION {{u} \cup P[u] : u \in g[n - 1][t]}
  BY <1>2 DEF IsIterate, Further
<1>6. ASSUME NEW n \in Nat, n + 1 \in 0..N, NEW t \in Type
      PROVE  g[n + 1][t] = UNION {{u} \cup P[u] : u \in g[n][t]}
  <2>1. n + 1 \in 1..N /\ (n + 1) - 1 = n
    BY <1>1, <1>6
  <2>. QED  BY <1>5, <2>1
<1>. HIDE DEF N
<1>7. ASSUME NEW t \in Type PROVE \A n \in 0..N : t \in g[n][t]
  <2>. DEFINE S == {n \in Nat : n \in 0..N => t \in g[n][t]}
  <2>1. 0 \in S
    BY <1>4
  <2>2. ASSUME NEW n \in Nat, n \in S PROVE n + 1 \in S
    <3>1. ASSUME n + 1 \in 0..N PROVE t \in g[n + 1][t]
      <4>1. n \in 0..N
        BY <1>1, <3>1
      <4>2. t \in g[n][t]
        BY <2>2, <4>1
      <4>. QED  BY <1>6, <3>1, <4>2
    <3>. QED  BY <3>1
  <2>. HIDE DEF S
  <2>3. \A n \in Nat : n \in S
    BY <2>1, <2>2, Induction
  <2>. QED  BY <2>3, <1>1 DEF S
<1>8. ASSUME NEW t \in Type, NEW Q \in SUBSET Type, t \in Q, Closed(Q)
      PROVE  \A n \in 0..N : g[n][t] \subseteq Q
  <2>. DEFINE S == {n \in Nat : n \in 0..N => g[n][t] \subseteq Q}
  <2>1. 0 \in S
    BY <1>4, <1>8
  <2>2. ASSUME NEW n \in Nat, n \in S PROVE n + 1 \in S
    <3>1. ASSUME n + 1 \in 0..N PROVE g[n + 1][t] \subseteq Q
      <4>1. n \in 0..N
        BY <1>1, <3>1
      <4>2. g[n][t] \subseteq Q
        BY <2>2, <4>1
      <4>3. \A u \in g[n][t] : {u} \cup P[u] \subseteq Q
        BY <1>8, <4>2
      <4>. QED  BY <1>6, <3>1, <4>3
    <3>. QED  BY <3>1
  <2>. HIDE DEF S
  <2>3. \A n \in Nat : n \in S
    BY <2>1, <2>2, Induction
  <2>. QED  BY <2>3, <1>1 DEF S
<1>9. ASSUME NEW t \in Type
      PROVE  \A n \in 0..N : Closed(g[n][t]) \/ Cardinality(g[n][t]) >= n + 1
  <2>. DEFINE S == {n \in Nat : n \in 0..N =>
                                  Closed(g[n][t]) \/ Cardinality(g[n][t]) >= n + 1}
  <2>1. 0 \in S
    <3>1. Cardinality(g[0][t]) = 1
      BY <1>4, FS_Singleton
    <3>2. Cardinality(g[0][t]) >= 0 + 1
      BY <3>1
    <3>. QED  BY <3>2
  <2>2. ASSUME NEW n \in Nat, n \in S PROVE n + 1 \in S
    <3>1. ASSUME n + 1 \in 0..N
          PROVE  Closed(g[n + 1][t]) \/ Cardinality(g[n + 1][t]) >= (n + 1) + 1
      <4>. DEFINE A == g[n][t]
                  B == g[n + 1][t]
      <4>1. n \in 0..N
        BY <1>1, <3>1
      <4>2. A \in SUBSET Type /\ B \in SUBSET Type
        BY <1>3, <3>1, <4>1
      <4>3. B = UNION {{u} \cup P[u] : u \in A}
        BY <1>6, <3>1
      <4>4. CASE Closed(A)
        <5>1. B = A
          BY <4>3, <4>4
        <5>. QED  BY <4>4, <5>1
      <4>5. CASE ~Closed(A)
        <5>1. Cardinality(A) >= n + 1
          BY <2>2, <4>1, <4>5
        <5>2. A \subseteq B /\ A # B
          BY <4>3, <4>5
        <5>3. IsFiniteSet(B)
          BY <4>2, TypesFinite, FS_Subset
        <5>4. Cardinality(A) <= Cardinality(B) /\ Cardinality(A) # Cardinality(B) /\ IsFiniteSet(A)
          BY <5>2, <5>3, FS_Subset
        <5>5. Cardinality(A) \in Nat /\ Cardinality(B) \in Nat
          BY <5>3, <5>4, FS_CardinalityType
        <5>. HIDE DEF A, B
        <5>6. Cardinality(B) >= (n + 1) + 1
          BY <5>1, <5>4, <5>5
        <5>. QED  BY <5>6 DEF B
      <4>. QED  BY <4>4, <4>5
    <3>. QED  BY <3>1
  <2>. HIDE DEF S
  <2>3. \A n \in Nat : n \in S
    BY <2>1, <2>2, Induction
  <2>. QED  BY <2>3, <1>1 DEF S
<1>10. N \in 0..N
  BY <1>1
<1>11. ASSUME NEW t \in Type PROVE Closed(g[N][t])
  <2>1. g[N][t] \in SUBSET Type
    BY <1>3, <1>10
  <2>2. Cardinality(g[N][t]) <= N /\ IsFiniteSet(g[N][t])
    BY <2>1, TypesFinite, FS_Subset DEF N
  <2>3. Cardinality(g[N][t]) \in Nat
    BY <2>2, FS_CardinalityType
  <2>4. ~(Cardinality(g[N][t]) >= N + 1)
    BY <1>1, <2>2, <2>3
  <2>. QED  BY <1>9, <1>10, <2>4
<1>. QED  BY <1>2, <1>3, <1>7, <1>8, <1>10, <1>11
-----------------------------------------------------------------------------
(* What types are made of *)

LEMMA PartsTypes ==
  /\ \A t \in Type : In(Parts[t]) \subseteq Type
  /\ \A t \in Type : Kind[t] \notin Derived => In(Parts[t]) = {}
BY TypeAssumption DEF TypeAssumption, In

LEMMA MadeOfFacts ==
  /\ \A t \in Type : MadeOf[t] \subseteq Type /\ t \in MadeOf[t]
  /\ \A t \in Type : \A u \in MadeOf[t] : In(Parts[u]) \subseteq MadeOf[t]
  /\ \A t \in Type : \A S \in SUBSET Type :
       t \in S /\ (\A u \in S : In(Parts[u]) \subseteq S) => MadeOf[t] \subseteq S
<1>. DEFINE P == [t \in Type |-> In(Parts[t])]
<1>1. P \in [Type -> SUBSET Type]
  BY PartsTypes
<1>2. MadeOf = Closure(P)
  BY DEF MadeOf
<1>3. \A t \in Type : P[t] = In(Parts[t])
  OBVIOUS
<1>. HIDE DEF P
<1>. QED  BY <1>1, <1>2, <1>3, ClosureFacts

LEMMA SpelledFacts ==
  /\ \A t \in Type : Spelled[t] \subseteq Type /\ t \in Spelled[t]
  /\ \A t \in Type : \A u \in Spelled[t] :
       Kind[u] # "named" => In(Parts[u]) \subseteq Spelled[t]
  /\ \A t \in Type : \A S \in SUBSET Type :
       t \in S /\ (\A u \in S : Kind[u] # "named" => In(Parts[u]) \subseteq S)
         => Spelled[t] \subseteq S
<1>. DEFINE P == [t \in Type |-> IF Kind[t] = "named" THEN {} ELSE In(Parts[t])]
<1>1. P \in [Type -> SUBSET Type]
  BY PartsTypes
<1>2. Spelled = Closure(P)
  BY DEF Spelled
<1>3. \A t \in Type : P[t] = IF Kind[t] = "named" THEN {} ELSE In(Parts[t])
  OBVIOUS
<1>. HIDE DEF P
<1>. QED  BY <1>1, <1>2, <1>3, ClosureFacts

LEMMA MadeOfGrows ==
  \A t \in Type : \A u \in MadeOf[t] : MadeOf[u] \subseteq MadeOf[t]
BY MadeOfFacts

LEMMA ReachedFacts ==
  ASSUME NEW S \in SUBSET Type
  PROVE  /\ S \subseteq Reached(S) /\ Reached(S) \subseteq Type
         /\ \A t \in Reached(S) : In(Parts[t]) \subseteq Reached(S)
         /\ \A t \in Reached(S) : MadeOf[t] \subseteq Reached(S)
         /\ \A T \in SUBSET Reached(S) : Reached(T) \subseteq Reached(S)
BY MadeOfFacts, MadeOfGrows DEF Reached

(* What a type is made of: the type, and what its parts are made of.       *)
LEMMA MadeOfParts ==
  \A t \in Type : MadeOf[t] = {t} \cup Reached(In(Parts[t]))
<1>. SUFFICES ASSUME NEW t \in Type PROVE MadeOf[t] = {t} \cup Reached(In(Parts[t]))
  OBVIOUS
<1>. DEFINE S == {t} \cup Reached(In(Parts[t]))
<1>1. In(Parts[t]) \in SUBSET Type
  BY PartsTypes
<1>2. S \in SUBSET Type
  BY <1>1, ReachedFacts
<1>3. \A u \in S : In(Parts[u]) \subseteq S
  BY <1>1, ReachedFacts
<1>4. MadeOf[t] \subseteq S
  BY <1>2, <1>3, MadeOfFacts
<1>5. Reached(In(Parts[t])) \subseteq MadeOf[t]
  BY MadeOfFacts, MadeOfGrows DEF Reached
<1>. QED  BY <1>4, <1>5, MadeOfFacts

LEMMA ReachedUnion == \A S, T : Reached(S \cup T) = Reached(S) \cup Reached(T)
BY DEF Reached

LEMMA ReachedMonotone == \A S, T : S \subseteq T => Reached(S) \subseteq Reached(T)
BY DEF Reached

LEMMA ElementsFacts == \A t \in Type : Elements[t] \subseteq MadeOf[t]
<1>. DEFINE P == [t \in Type |-> IF Kind[t] = "ptr" THEN {} ELSE In(Parts[t])]
<1>1. P \in [Type -> SUBSET Type]
  BY PartsTypes
<1>2. Elements = Closure(P)
  BY DEF Elements
<1>3. \A t \in Type : P[t] \subseteq In(Parts[t])
  OBVIOUS
<1>. HIDE DEF P
<1>4. ASSUME NEW t \in Type PROVE Elements[t] \subseteq MadeOf[t]
  <2>1. MadeOf[t] \in SUBSET Type /\ t \in MadeOf[t] /\ \A u \in MadeOf[t] : P[u] \subseteq MadeOf[t]
    BY <1>3, MadeOfFacts
  <2>. QED  BY <1>1, <1>2, <2>1, ClosureFacts
<1>. QED  BY <1>4

(* What instructions name is among what getTypeInfo finds for them.        *)
LEMMA NamedFound ==
  ASSUME NEW R \in SUBSET Type, NEW S \in SUBSET R
  PROVE  /\ Named(S) \subseteq Found(R)
         /\ Named(Pointees(Inside(S))) \subseteq Found(R)
         /\ Named(Pointees(S)) \subseteq Found(R)
<1>1. /\ R \subseteq Reached(R) /\ Reached(R) \subseteq Type
      /\ \A t \in Reached(R) : In(Parts[t]) \subseteq Reached(R)
      /\ \A t \in Reached(R) : MadeOf[t] \subseteq Reached(R)
  BY ReachedFacts
<1>2. ASSUME NEW T \in SUBSET Reached(R)
      PROVE  Inside(T) \subseteq Reached(R) /\ Pointees(T) \subseteq Reached(R)
  <2>1. \A t \in T : Elements[t] \subseteq Reached(R)
    BY <1>1, ElementsFacts
  <2>. QED  BY <1>1, <2>1 DEF Inside, Pointees, OfKind
<1>3. S \in SUBSET Reached(R)
  BY <1>1
<1>4. Inside(S) \in SUBSET Reached(R) /\ Pointees(S) \in SUBSET Reached(R)
  BY <1>2, <1>3
<1>5. Pointees(Inside(S)) \in SUBSET Reached(R)
  BY <1>2, <1>4
<1>6. Inside(Pointees(S)) \subseteq Reached(R) /\ Inside(Pointees(Inside(S))) \subseteq Reached(R)
  BY <1>2, <1>4, <1>5
<1>. QED  BY <1>4, <1>6 DEF Named, Found, OfKind

LEMMA FoundFacts ==
  ASSUME NEW S \in SUBSET Type
  PROVE  /\ Found(S) \subseteq Reached(S)
         /\ OfKind(S, Scalar \cup Derived) \subseteq Found(S)
BY ReachedFacts DEF Found, OfKind

LEMMA PlainTypes ==
  /\ \A t \in Type : Kind[t] \notin Derived => MadeOf[t] = {t} /\ ~Recursive(t)
  /\ \A t \in Type : Kind[t] = "int" => Nameable(t) /\ MadeOf[t] = {t} /\ ~Recursive(t)
<1>1. ASSUME NEW t \in Type, Kind[t] \notin Derived PROVE MadeOf[t] = {t} /\ ~Recursive(t)
  <2>1. In(Parts[t]) = {}
    BY <1>1, PartsTypes
  <2>2. Reached(In(Parts[t])) = {}
    BY <2>1 DEF Reached
  <2>. QED  BY <2>2, MadeOfParts DEF Recursive
<1>2. ASSUME NEW t \in Type, Kind[t] = "int" PROVE Nameable(t) /\ Kind[t] \notin Derived
  <2>1. Kind[t] \notin Derived
    BY <1>2 DEF Derived
  <2>2. In(Parts[t]) = {}
    BY <2>1, PartsTypes
  <2>3. {t} \in SUBSET Type /\ \A u \in {t} : In(Parts[u]) \subseteq {t}
    BY <2>2
  <2>4. Spelled[t] \subseteq {t}
    BY <2>3, SpelledFacts
  <2>. QED  BY <1>2, <2>1, <2>4 DEF Nameable
<1>. QED  BY <1>1, <1>2

(* Pointers to and vectors of integers.                                    *)
LEMMA OfIntegers ==
  ASSUME NEW t \in Type, NEW i \in Type, Kind[t] \in Derived, In(Parts[t]) = {i}, Kind[i] = "int"
  PROVE  Nameable(t) /\ ~Recursive(t) /\ MadeOf[t] = {t, i}
<1>1. t # i
  BY DEF Derived
<1>2. Reached({i}) = {i}
  BY PlainTypes DEF Reached
<1>3. In(Parts[i]) = {}
  BY PartsTypes DEF Derived
<1>4. Spelled[t] \subseteq {t, i}
  <2>1. {t, i} \in SUBSET Type /\ \A u \in {t, i} : In(Parts[u]) \subseteq {t, i}
    BY <1>3
  <2>. QED  BY <2>1, SpelledFacts
<1>5. Nameable(t)
  BY <1>4 DEF Nameable
<1>. QED  BY <1>1, <1>2, <1>5, MadeOfParts DEF Recursive

LEMMA OneElement == \A s, x : s = <<x>> => In(s) = {x}
BY DEF In

PtrIntVecs == {PtrIntVec[v] : v \in DOMAIN PtrIntVec}

(* What is added for pointers can be printed.                              *)
LEMMA ForPointers ==
  /\ PtrInt \in Type /\ Kind[PtrInt] = "int"
  /\ PtrIntVecs \subseteq Type
  /\ \A v \in DOMAIN PtrIntVec :
       /\ v \in Type /\ Kind[v] = "vector" /\ Kind[Parts[v][1]] = "ptr"
       /\ In(Parts[v]) = {Parts[v][1]} /\ Parts[v][1] \in Type
  /\ \A w \in PtrIntVecs :
       /\ Kind[w] = "vector" /\ In(Parts[w]) = {PtrInt} /\ Parts[w][1] = PtrInt
       /\ Nameable(w) /\ ~Recursive(w) /\ MadeOf[w] = {w, PtrInt}
  /\ PtrIntVecs \cap DOMAIN PtrIntVec = {}
  /\ \A v \in Type : Kind[v] = "vector" /\ Kind[Parts[v][1]] = "ptr" => v \in DOMAIN PtrIntVec
  /\ BytePtr \in Type /\ Kind[BytePtr] = "ptr"
  /\ Nameable(BytePtr) /\ ~Recursive(BytePtr)
<1>1. PtrInt \in Type /\ Kind[PtrInt] = "int" /\ BytePtr \in Type /\ Kind[BytePtr] = "ptr"
  BY TypeAssumption DEF TypeAssumption
<1>2. DOMAIN PtrIntVec = {v \in Type : Kind[v] = "vector" /\ Kind[Parts[v][1]] = "ptr"}
      /\ \A v \in DOMAIN PtrIntVec : PtrIntVec[v] \in Type
  BY TypeAssumption DEF TypeAssumption
<1>3. \A t \in Type : Kind[t] \in Derived \ {"struct", "named"} =>
        Parts[t][1] \in Type /\ Parts[t] = <<Parts[t][1]>>
  BY TypeAssumption DEF TypeAssumption
<1>4. ASSUME NEW v \in DOMAIN PtrIntVec
      PROVE  In(Parts[v]) = {Parts[v][1]} /\ Parts[v][1] \in Type
  BY <1>2, <1>3, OneElement DEF Derived
<1>5. ASSUME NEW v \in DOMAIN PtrIntVec
      PROVE  /\ Kind[PtrIntVec[v]] = "vector" /\ In(Parts[PtrIntVec[v]]) = {PtrInt}
             /\ Parts[PtrIntVec[v]][1] = PtrInt
  <2>1. Kind[PtrIntVec[v]] = "vector" /\ Parts[PtrIntVec[v]] = <<PtrInt>>
    BY TypeAssumption DEF TypeAssumption
  <2>. QED  BY <2>1, OneElement
<1>6. ASSUME NEW w \in PtrIntVecs
      PROVE  /\ Kind[w] = "vector" /\ In(Parts[w]) = {PtrInt} /\ Parts[w][1] = PtrInt
             /\ Nameable(w) /\ ~Recursive(w) /\ MadeOf[w] = {w, PtrInt}
  <2>1. w \in Type /\ Kind[w] = "vector" /\ In(Parts[w]) = {PtrInt} /\ Parts[w][1] = PtrInt
    <3>1. PICK v \in DOMAIN PtrIntVec : w = PtrIntVec[v]
      BY DEF PtrIntVecs
    <3>. QED  BY <1>2, <1>5, <3>1
  <2>2. Kind[w] \in Derived
    BY <2>1 DEF Derived
  <2>. QED  BY <1>1, <2>1, <2>2, OfIntegers
<1>7. PtrIntVecs \cap DOMAIN PtrIntVec = {}
  BY <1>1, <1>2, <1>6
<1>8. Nameable(BytePtr) /\ ~Recursive(BytePtr)
  <2>1. Kind[BytePtr] \in Derived \ {"struct", "named"} /\ Kind[Parts[BytePtr][1]] = "int"
    BY <1>1, TypeAssumption DEF TypeAssumption, Derived
  <2>2. In(Parts[BytePtr]) = {Parts[BytePtr][1]} /\ Parts[BytePtr][1] \in Type
    BY <1>1, <1>3, <2>1, OneElement
  <2>. QED  BY <1>1, <2>1, <2>2, OfIntegers
<1>9. PtrIntVecs \subseteq Type
  BY <1>2 DEF PtrIntVecs
<1>. QED  BY <1>1, <1>2, <1>4, <1>6, <1>7, <1>8, <1>9

(* A type with a name is made of types that have a theory, but where a     *)
(* struct's name stands for it.                                            *)
LEMMA NameableParts ==
  ASSUME NEW t \in Type, NEW u \in In(Parts[t]), Nameable(u)
  PROVE  Kind[u] \in {"int", "float"} \cup Derived
BY PartsTypes, SpelledFacts DEF Nameable
-----------------------------------------------------------------------------
(* Clauses and modules *)

NodeTheories == {"Pointer", "Alloc", "BlockAddress", "MemorySet"}
NodeType ==
  [ class : {"other", "cast", "constant"}, finds : SUBSET Type, names : SUBSET (Type \cup NodeTheories),
    importsNeeded : SUBSET {"Pointer", "MemorySet"}, usesAlloc : BOOLEAN, usesBaddr : BOOLEAN ]
IsNode(n) ==
  /\ n.finds \subseteq Type /\ n.names \subseteq Type \cup NodeTheories
  /\ n.importsNeeded \subseteq {"Pointer", "MemorySet"}
  /\ n.names \cap {"Pointer", "MemorySet"} \subseteq n.importsNeeded
  /\ "Alloc" \in n.names => n.usesAlloc
  /\ n.class # "constant" /\ "BlockAddress" \in n.names => n.usesBaddr
  /\ n.class # "cast" =>
       \A t \in n.names \cap Type : Kind[t] \in Scalar \cup Derived => t \in Found(n.finds)

LEMMA TypesAreNoTheories == Type \cap CommonTheories = {}
BY TypeAssumption DEF TypeAssumption

LEMMA FoundSelf == \A t \in Type : Kind[t] \in Scalar \cup Derived => t \in Found({t})
<1>. SUFFICES ASSUME NEW t \in Type, Kind[t] \in Scalar \cup Derived PROVE t \in Found({t})
  OBVIOUS
<1>1. {t} \in SUBSET Type
  OBVIOUS
<1>. QED  BY <1>1, FoundFacts DEF OfKind

LEMMA ConstantsAreNodes ==
  ASSUME NEW t \in Type, NEW baddr \in BOOLEAN, NEW n, n = LogicExpressionLLVMConstant(t, baddr)
  PROVE  IsNode(n) /\ n \in NodeType
<1>1. {t} \in SUBSET Type /\ {t} \in SUBSET {t}
  OBVIOUS
<1>2. Named({t}) \subseteq Found({t}) /\ Found({t}) \subseteq Type
  BY <1>1, NamedFound, ReachedFacts DEF Found, OfKind
<1>. DEFINE names == Named({t}) \cup (IF baddr THEN {"BlockAddress"} ELSE {})
<1>3. n = [ class |-> "constant", finds |-> {t}, names |-> names, importsNeeded |-> {},
            usesAlloc |-> FALSE, usesBaddr |-> FALSE ]
  BY DEF LogicExpressionLLVMConstant, Nothing
<1>4. names \subseteq Type \cup {"BlockAddress"} /\ names \cap Type \subseteq Found({t})
  BY <1>2, TypesAreNoTheories DEF CommonTheories
<1>5. \A x \in {"Pointer", "Alloc", "MemorySet"} : x \notin names
  BY <1>2, TypesAreNoTheories DEF CommonTheories
<1>. HIDE DEF names
<1>. QED  BY <1>3, <1>4, <1>5 DEF IsNode, NodeType, NodeTheories

LEMMA TermsAreNodes == \A n \in Terms : IsNode(n) /\ n \in NodeType
<1>. SUFFICES ASSUME NEW t \in Type, NEW n \in
                { LogicExpressionLLVMOperand(t), LogicTypeLLVM(t),
                   LogicExpressionLLVMConstant(t, FALSE), LogicExpressionLLVMConstant(t, TRUE),
                   LogicExpressionIntToPointer(t, FALSE), LogicExpressionIntToPointer(t, TRUE),
                   LogicExpressionLogicIntToLLVMInt(t), LogicExpressionPointerToPointer(t),
                   LogicExpressionFresh, LogicExpressionBlockAddress }
              PROVE  IsNode(n) /\ n \in NodeType
  BY DEF Terms
<1>1. t \notin NodeTheories /\ PtrInt \notin NodeTheories /\ PtrInt \in Type
  BY TypesAreNoTheories, ForPointers DEF CommonTheories, NodeTheories
<1>2. Kind[t] \in Scalar \cup Derived => t \in Found({t})
  BY FoundSelf
<1>3. Type \cap NodeTheories = {}
  BY TypesAreNoTheories DEF CommonTheories, NodeTheories
<1>4. CASE n = LogicExpressionLLVMConstant(t, FALSE) \/ n = LogicExpressionLLVMConstant(t, TRUE)
  BY <1>4, ConstantsAreNodes
<1>. USE <1>1, <1>3 DEF IsNode, NodeType, Nothing, NodeTheories
<1>5. CASE n = LogicExpressionLLVMOperand(t)
  BY <1>2, <1>5 DEF LogicExpressionLLVMOperand
<1>6. CASE n = LogicTypeLLVM(t)
  BY <1>2, <1>6 DEF LogicTypeLLVM
<1>7. CASE n = LogicExpressionLogicIntToLLVMInt(t)
  BY <1>7 DEF LogicExpressionLogicIntToLLVMInt
<1>8. CASE n = LogicExpressionPointerToPointer(t)
  BY <1>8 DEF LogicExpressionPointerToPointer
<1>9. CASE n = LogicExpressionFresh
  BY <1>9 DEF LogicExpressionFresh
<1>10. CASE n = LogicExpressionBlockAddress
  BY <1>10 DEF LogicExpressionBlockAddress
<1>11. CASE n = LogicExpressionIntToPointer(t, FALSE)
  BY <1>11 DEF LogicExpressionIntToPointer
<1>12. CASE n = LogicExpressionIntToPointer(t, TRUE)
  BY <1>12 DEF LogicExpressionIntToPointer
<1>. QED  BY <1>4, <1>5, <1>6, <1>7, <1>8, <1>9, <1>10, <1>11, <1>12

LEMMA SetsAreNodes == \A n \in Sets : IsNode(n) /\ "MemorySet" \in n.importsNeeded
<1>. SUFFICES ASSUME NEW p \in Terms, NEW t \in Type, NEW n, n = LogicExpressionCreateSet(p, t)
              PROVE  IsNode(n) /\ "MemorySet" \in n.importsNeeded
  BY DEF Sets
<1>1. t \notin NodeTheories /\ Type \cap NodeTheories = {}
  BY TypesAreNoTheories DEF CommonTheories, NodeTheories
<1>2. /\ n.finds = p.finds \cup {t} /\ n.names = p.names \cup {t, "MemorySet"}
      /\ n.importsNeeded = p.importsNeeded \cup {"MemorySet"}
      /\ n.usesAlloc = p.usesAlloc /\ n.usesBaddr = p.usesBaddr /\ n.class = p.class
  BY TermsAreNodes DEF LogicExpressionCreateSet, NodeType
<1>3. IsNode(p)
  BY TermsAreNodes
<1>4. Found(p.finds) \subseteq Found(n.finds) /\ Found({t}) \subseteq Found(n.finds)
  BY <1>2, ReachedMonotone DEF Found, OfKind
<1>5. n.class # "cast" =>
        \A u \in n.names \cap Type : Kind[u] \in Scalar \cup Derived => u \in Found(n.finds)
  BY <1>1, <1>2, <1>3, <1>4, FoundSelf DEF IsNode, NodeTheories
<1>6. /\ n.finds \subseteq Type /\ n.names \subseteq Type \cup NodeTheories
      /\ n.importsNeeded \subseteq {"Pointer", "MemorySet"}
      /\ n.names \cap {"Pointer", "MemorySet"} \subseteq n.importsNeeded
      /\ "Alloc" \in n.names => n.usesAlloc
      /\ n.class # "constant" /\ "BlockAddress" \in n.names => n.usesBaddr
  BY <1>1, <1>2, <1>3 DEF IsNode, NodeTheories
<1>7. IsNode(n)
  BY <1>5, <1>6 DEF IsNode
<1>. QED  BY <1>2, <1>7

(* What LLVM promises of a module, in the terms of the imports.            *)
LEMMA ModuleFacts ==
  ASSUME mod \in Modules
  PROVE  /\ ModuleRoots(mod) \subseteq Type
         /\ TypesOf(mod.globals) \subseteq ModuleRoots(mod)
         /\ \A t \in TypesOf(mod.globals) : Kind[t] = "ptr"
         /\ \A f \in Functions :
              /\ FunctionRoots(f) \subseteq ModuleRoots(mod)
              /\ f.name \notin Type \cup CommonTheories
              /\ \A n \in f.clauses : IsNode(n) /\ n.finds \subseteq FunctionRoots(f)
              /\ CalleeClauses(f) \subseteq Sets
              /\ f.requires \subseteq f.clauses /\ Operands(f) \subseteq Value
              /\ \A k \in Goals(f) : mod.functions[f.body[k].callee] \in Functions
              /\ \A k \in DOMAIN f.body : InstructionRoots(f.body[k]) \subseteq FunctionRoots(f)
              /\ BodyUsesBaddr(f) => BytePtr \in FunctionRoots(f)
              /\ \A k \in Conversions(f) :
                   /\ Conversion(f.body[k]) \subseteq FunctionRoots(f)
                   /\ \E t \in Conversion(f.body[k]) : Kind[t] = "ptr" \/ t \in DOMAIN PtrIntVec
         /\ \A f, g \in Functions : f.name = g.name => f = g
<1>1. /\ mod \in [functions : Seq(FunctionType), globals : Seq(GlobalType)]
      /\ \A j, k \in DOMAIN mod.functions : mod.functions[j].name = mod.functions[k].name => j = k
  BY ModulesAssumption DEF ModulesAssumption
<1>2. \A f \in Functions :
        /\ f.name \notin Type \cup CommonTheories
        /\ f.requires \subseteq f.clauses
        /\ \A v \in Operands(f) : v.kind = "baddr" => v.type = BytePtr
        /\ \A i \in In(f.body) :
             /\ i.op = "call" => i.callee \in DOMAIN mod.functions
             /\ i.op = "indirectbr" => BytePtr \in TypesOf(i.operands)
             /\ i.op = "ptrint" => \E t \in Conversion(i) :
                  Kind[t] = "ptr" \/ t \in DOMAIN PtrIntVec
  BY ModulesAssumption DEF ModulesAssumption, Functions
<1>3. Functions \subseteq FunctionType
  BY <1>1 DEF Functions, In
<1>4. ASSUME NEW k \in DOMAIN mod.globals PROVE mod.globals[k].type \in Type
  <2>1. mod.globals[k] \in GlobalType
    BY <1>1, <1>4
  <2>. QED  BY <2>1 DEF GlobalType
<1>5. TypesOf(mod.globals) \subseteq Type
  BY <1>4 DEF TypesOf
<1>6. ASSUME NEW f \in Functions
      PROVE  /\ f.args \in Seq(Type) /\ f.ret \in Type /\ f.body \in Seq(InstructionType)
             /\ f.clauses \subseteq Terms \cup Sets /\ f.assigns \subseteq Sets
  BY <1>3 DEF FunctionType
<1>7. ASSUME NEW f \in Functions, NEW k \in DOMAIN f.body
      PROVE  /\ f.body[k] \in In(f.body)
             /\ InstructionRoots(f.body[k]) \subseteq Type
             /\ InstructionRoots(f.body[k]) \subseteq FunctionRoots(f)
  <2>1. f.body[k] \in InstructionType
    BY <1>6
  <2>2. f.body[k].type \in Type /\ f.body[k].operands \in Seq(Value)
    BY <2>1 DEF InstructionType
  <2>3. ASSUME NEW j \in DOMAIN f.body[k].operands
        PROVE  f.body[k].operands[j].type \in Type
    <3>1. f.body[k].operands[j] \in Value
      BY <2>2, <2>3
    <3>. QED  BY <3>1 DEF Value
  <2>4. TypesOf(f.body[k].operands) \subseteq Type
    BY <2>3 DEF TypesOf
  <2>5. InstructionRoots(f.body[k]) \subseteq Type
    BY <2>2, <2>4 DEF InstructionRoots
  <2>6. InstructionRoots(f.body[k]) \subseteq FunctionRoots(f)
    BY DEF FunctionRoots
  <2>7. f.body[k] \in In(f.body)
    BY DEF In
  <2>. QED  BY <2>5, <2>6, <2>7
<1>8. ASSUME NEW f \in Functions, NEW n \in f.clauses
      PROVE  IsNode(n) /\ n.finds \subseteq FunctionRoots(f)
  <2>1. n \in Terms \cup Sets
    BY <1>6
  <2>2. IsNode(n)
    BY <2>1, TermsAreNodes, SetsAreNodes
  <2>3. n.finds \subseteq FunctionRoots(f)
    BY DEF FunctionRoots
  <2>. QED  BY <2>2, <2>3
<1>9. ASSUME NEW f \in Functions PROVE FunctionRoots(f) \subseteq Type
  <2>1. {f.ret} \cup In(f.args) \subseteq Type
    BY <1>6 DEF In
  <2>2. \A n \in f.clauses : n.finds \subseteq Type
    BY <1>8 DEF IsNode
  <2>3. UNION {n.finds : n \in f.clauses} \subseteq Type
    BY <2>2
  <2>4. UNION {InstructionRoots(f.body[k]) : k \in DOMAIN f.body} \subseteq Type
    <3>1. \A k \in DOMAIN f.body : InstructionRoots(f.body[k]) \subseteq Type
      BY <1>7
    <3>. QED  BY <3>1
  <2>. QED  BY <2>1, <2>3, <2>4 DEF FunctionRoots
<1>10. ASSUME NEW f \in Functions PROVE FunctionRoots(f) \subseteq ModuleRoots(mod)
  BY DEF ModuleRoots, Functions
<1>11. ASSUME NEW f \in Functions PROVE CalleeClauses(f) \subseteq Sets
  <2>1. \A c \in Callees(f) : mod.functions[c] \in Functions
    BY <1>2, <1>7 DEF Callees, CallsOf, Functions, In
  <2>. QED  BY <1>6, <2>1 DEF CalleeClauses
<1>12. ASSUME NEW f \in Functions, BodyUsesBaddr(f) PROVE BytePtr \in FunctionRoots(f)
  <2>1. CASE "indirectbr" \in Ops(f)
    <3>1. PICK k \in DOMAIN f.body : f.body[k].op = "indirectbr"
      BY <2>1 DEF Ops
    <3>. QED  BY <1>2, <1>7, <3>1 DEF InstructionRoots
  <2>2. CASE \E v \in Operands(f) : v.kind = "baddr"
    <3>1. PICK v \in Operands(f) : v.kind = "baddr"
      BY <2>2
    <3>2. PICK k \in DOMAIN f.body : v \in In(f.body[k].operands)
      BY <3>1 DEF Operands
    <3>3. v.type = BytePtr /\ v.type \in TypesOf(f.body[k].operands)
      BY <1>2, <3>1, <3>2 DEF In, TypesOf
    <3>. QED  BY <1>7, <3>3 DEF InstructionRoots
  <2>. QED  BY <1>12, <2>1, <2>2 DEF BodyUsesBaddr
<1>13. ASSUME NEW f \in Functions, NEW k \in Conversions(f)
       PROVE  /\ Conversion(f.body[k]) \subseteq FunctionRoots(f)
              /\ \E t \in Conversion(f.body[k]) : Kind[t] = "ptr" \/ t \in DOMAIN PtrIntVec
  <2>1. k \in DOMAIN f.body /\ f.body[k].op = "ptrint"
    BY DEF Conversions
  <2>. QED  BY <1>2, <1>7, <2>1 DEF Conversion, InstructionRoots
<1>14. ASSUME NEW f \in Functions, NEW g \in Functions, f.name = g.name PROVE f = g
  <2>1. PICK j \in DOMAIN mod.functions : f = mod.functions[j]
    BY DEF Functions, In
  <2>2. PICK k \in DOMAIN mod.functions : g = mod.functions[k]
    BY DEF Functions, In
  <2>3. j = k
    BY <1>1, <1>14, <2>1, <2>2
  <2>. QED  BY <2>1, <2>2, <2>3
<1>15. ModuleRoots(mod) \subseteq Type
  <2>1. UNION {FunctionRoots(f) : f \in Functions} \subseteq Type
    <3>1. \A f \in Functions : FunctionRoots(f) \subseteq Type
      BY <1>9
    <3>. QED  BY <3>1
  <2>2. ModuleRoots(mod) = (UNION {FunctionRoots(f) : f \in Functions}) \cup TypesOf(mod.globals)
    BY DEF ModuleRoots, Functions
  <2>. QED  BY <1>5, <2>1, <2>2
<1>16. TypesOf(mod.globals) \subseteq ModuleRoots(mod)
  BY DEF ModuleRoots
<1>17. \A t \in TypesOf(mod.globals) : Kind[t] = "ptr"
  <2>1. \A g \in In(mod.globals) : Kind[g.type] = "ptr"
    BY ModulesAssumption DEF ModulesAssumption
  <2>. QED  BY <2>1 DEF TypesOf, In
<1>18. ASSUME NEW f \in Functions PROVE Operands(f) \subseteq Value
  <2>1. \A k \in DOMAIN f.body : f.body[k] \in InstructionType
    BY <1>6
  <2>2. \A k \in DOMAIN f.body : f.body[k].operands \in Seq(Value)
    BY <2>1 DEF InstructionType
  <2>. QED  BY <2>2 DEF Operands, In
<1>19. ASSUME NEW f \in Functions, NEW k \in Goals(f)
       PROVE  mod.functions[f.body[k].callee] \in Functions
  <2>1. k \in DOMAIN f.body /\ f.body[k].op = "call"
    BY DEF Goals, CallsOf
  <2>. QED  BY <1>2, <1>7, <2>1 DEF Functions, In
<1>20. \A f \in Functions : \A k \in DOMAIN f.body :
         InstructionRoots(f.body[k]) \subseteq FunctionRoots(f)
  BY <1>7
<1>. QED  BY <1>2, <1>8, <1>10, <1>11, <1>12, <1>13, <1>14, <1>15, <1>16, <1>17, <1>18, <1>19, <1>20
-----------------------------------------------------------------------------
(* The inductive invariant *)

Phases ==
  {"walk", "vectors", "scalars", "derived", "baddr", "globals", "functions", "goals", "done"}
AfterWalk == Phases \ {"walk"}
AfterScalars == AfterWalk \ {"vectors", "scalars"}
AfterDerived == AfterScalars \ {"derived"}
AfterBaddr == AfterDerived \ {"baddr"}
AfterGlobals == AfterBaddr \ {"globals"}

TypesOK ==
  /\ mod \in Modules /\ pc \in Phases \cup {"crashed"}
  /\ roots \subseteq Type /\ stack \in Seq(Seq(Type)) /\ types \subseteq Type

(* What the walk has yet to visit.                                         *)
Pending == roots \cup (UNION {In(stack[j]) : j \in DOMAIN stack})
AllFound == Found(ModuleRoots(mod))

WalkOK ==
  pc = "walk" =>
    /\ Pending \subseteq AllReached
    /\ AllFound \subseteq types \cup Reached(Pending)
    /\ types \subseteq AllFound
    /\ \A t \in AllReached : Recursive(t) => t \in Reached(Pending)
    /\ printed = {} /\ dangling = {} /\ unimported = {}

(* The types of the open calls, of which each is a part of the next.       *)
IsPath(p, s) ==
  /\ \A j \in 1..(Len(s) - 1) : In(s[j]) \subseteq In(Parts[p[j]])
  /\ \A j, k \in 1..(Len(s) - 1) : j < k => p[j] \in Reached(In(Parts[p[k]]))
StackOK == pc = "walk" => \E p \in [1..(Len(stack) - 1) -> AllReached] : IsPath(p, stack)

FoundOK ==
  pc \in AfterWalk =>
    /\ AllFound \subseteq types
    /\ types \subseteq AllFound \cup {PtrInt} \cup PtrIntVecs
    /\ \A t \in AllReached : ~Recursive(t)
    /\ OfKind(types, {"ptr"}) # {} \/ types # AllFound => PtrInt \in types

VectorsOK ==
  pc \in AfterWalk =>
    /\ vectors \subseteq OfKind(types, {"vector"})
    /\ pc # "vectors" => vectors = {}
    /\ \A v \in types \cap DOMAIN PtrIntVec :
         \/ v \in vectors \/ PtrIntVec[v] \in types
         \/ \E w \in types \cap DOMAIN PtrIntVec : w # v

MemoryTheories == {"CustomTruncate", "Range", "State", "Pointer", "Alloc", "MemorySet"}
PrintedOK ==
  /\ pc \in AfterWalk => MemoryTheories \subseteq printed
  /\ pc \in AfterScalars =>
       /\ OfKind(types, Scalar) \subseteq printed
       /\ {"LLVMInt", "LLVMFloat", "LLVMPtr", "LLVMArray", "LLVMVector"} \subseteq printed
  /\ pc \in AfterDerived => OfKind(types, Derived) \subseteq printed
  /\ pc \in AfterBaddr /\ (\E f \in Functions : UsesBaddr(f)) => "BlockAddress" \in printed
  /\ pc \in AfterGlobals => "Globals" \in printed
  /\ pc \in Phases \ AfterGlobals => printed \subseteq Type \cup CommonTheories

(* What a function names and imports could be printed.                     *)
Checked(f) ==
  /\ \A t \in (FunctionImports(f) \cup FunctionNames(f)) \cap Type : Nameable(t)
  /\ \A t \in FunctionImports(f) \cap Type : ~Recursive(t)
CheckedOK ==
  /\ pc \in AfterGlobals =>
       /\ \A k \in DOMAIN mod.globals : mod.globals[k].init # "none"
       /\ \A t \in Found(TypesOf(mod.globals)) : Nameable(t)
       /\ \A f \in Functions : f.name \in printed => Checked(f)
  /\ pc \in {"goals", "done"} => \A f \in Functions : f.name \in printed

CrashOK == pc = "crashed" => ~Printable

(* What holds of a run at every moment.  ImportsResolve, NamesImported and *)
(* the two halves of CrashesExactly are properties in their own right.     *)
DiscoveryInv ==
  /\ TypesOK /\ WalkOK /\ StackOK /\ FoundOK /\ VectorsOK /\ PrintedOK /\ CheckedOK
  /\ ImportsResolve /\ NamesImported /\ CrashOK
-----------------------------------------------------------------------------
(* The walk *)

LEMMA InitInv == Init => DiscoveryInv
<1>. SUFFICES ASSUME Init PROVE DiscoveryInv
  OBVIOUS
<1>1. ModuleRoots(mod) \subseteq Type
  BY ModuleFacts DEF Init
<1>2. TypesOK
  BY <1>1 DEF Init, TypesOK, Phases
<1>3. Pending = ModuleRoots(mod)
  BY DEF Pending, Init
<1>4. WalkOK
  BY <1>1, <1>3, ReachedFacts, FoundFacts DEF WalkOK, Init, AllReached, AllFound
<1>5. StackOK
  <2>1. Len(stack) = 0
    BY DEF Init
  <2>2. [j \in 1..(Len(stack) - 1) |-> j] \in [1..(Len(stack) - 1) -> AllReached]
    BY <2>1
  <2>3. IsPath([j \in 1..(Len(stack) - 1) |-> j], stack)
    BY <2>1 DEF IsPath
  <2>. QED  BY <2>2, <2>3 DEF StackOK
<1>6. FoundOK /\ VectorsOK /\ PrintedOK /\ CheckedOK /\ CrashOK
  BY DEF Init, FoundOK, VectorsOK, PrintedOK, CheckedOK, CrashOK, AfterWalk, AfterScalars,
     AfterDerived, AfterBaddr, AfterGlobals
<1>7. ImportsResolve /\ NamesImported
  BY DEF Init, ImportsResolve, NamesImported
<1>. QED  BY <1>2, <1>4, <1>5, <1>6, <1>7 DEF DiscoveryInv

LEMMA Concatenation ==
  ASSUME NEW S, NEW a \in Seq(S), NEW b \in Seq(S), Len(a) = 2
  PROVE  /\ a \o b \in Seq(S) /\ Len(a \o b) = Len(b) + 2
         /\ (a \o b)[1] = a[1] /\ (a \o b)[2] = a[2]
         /\ \A k \in 1..Len(b) : (a \o b)[k + 2] = b[k]
<1>1. /\ a \o b \in Seq(S) /\ Len(a \o b) = 2 + Len(b) /\ Len(b) \in Nat
      /\ \A i \in 1..(2 + Len(b)) : (a \o b)[i] = IF i <= 2 THEN a[i] ELSE b[i - 2]
  <2>1. /\ a \o b \in Seq(S) /\ Len(a \o b) = Len(a) + Len(b)
        /\ \A i \in 1..(Len(a) + Len(b)) : (a \o b)[i] = IF i <= Len(a) THEN a[i] ELSE b[i - Len(a)]
    BY ConcatProperties
  <2>2. Len(b) \in Nat
    OBVIOUS
  <2>. QED  BY <2>1, <2>2
<1>2. ASSUME NEW k \in 1..Len(b) PROVE (a \o b)[k + 2] = b[k]
  <2>1. k + 2 \in 1..(2 + Len(b)) /\ ~(k + 2 <= 2) /\ (k + 2) - 2 = k
    BY <1>1
  <2>. QED  BY <1>1, <2>1
<1>3. 1 \in 1..(2 + Len(b)) /\ 2 \in 1..(2 + Len(b))
  BY <1>1
<1>. QED  BY <1>1, <1>2, <1>3

(* The stack after a call for the first type of the top.                   *)
Pushed(s) == <<Parts[Head(Head(s))], Tail(Head(s))>> \o Tail(s)

LEMMA Visited ==
  ASSUME NEW s \in Seq(Seq(Type)), s # <<>>, Head(s) # <<>>, NEW n, n = Pushed(s)
  PROVE  /\ Len(s) \in Nat /\ Len(s) # 0
         /\ Head(Head(s)) \in Type /\ n \in Seq(Seq(Type)) /\ Len(n) = Len(s) + 1
         /\ n[1] = Parts[Head(Head(s))]
         /\ In(s[1]) = {Head(Head(s))} \cup In(n[2])
         /\ \A k \in 2..Len(s) : n[k + 1] = s[k]
<1>1. s[1] \in Seq(Type) /\ s[1] # <<>> /\ Head(s) = s[1] /\ Len(s) \in Nat /\ Len(s) >= 1
  OBVIOUS
<1>2. Head(s[1]) = s[1][1] /\ s[1][1] \in Type /\ Tail(s[1]) \in Seq(Type)
  BY <1>1
<1>3. Parts[s[1][1]] \in Seq(Type)
  BY <1>2, TypeAssumption DEF TypeAssumption
<1>. DEFINE top == <<Parts[s[1][1]], Tail(s[1])>>
<1>4. top \in Seq(Seq(Type)) /\ Len(top) = 2 /\ top[1] = Parts[s[1][1]] /\ top[2] = Tail(s[1])
  BY <1>2, <1>3
<1>5. Tail(s) \in Seq(Seq(Type)) /\ Len(Tail(s)) = Len(s) - 1
  BY <1>1
<1>6. n = top \o Tail(s)
  BY <1>1, <1>2 DEF Pushed
<1>. HIDE DEF top
<1>7. n \in Seq(Seq(Type)) /\ Len(n) = Len(s) + 1 /\ n[1] = top[1] /\ n[2] = top[2]
      /\ \A k \in 1..Len(Tail(s)) : n[k + 2] = Tail(s)[k]
  BY <1>1, <1>4, <1>5, <1>6, Concatenation
<1>8. ASSUME NEW k \in 2..Len(s) PROVE n[k + 1] = s[k]
  <2>1. k - 1 \in 1..Len(Tail(s)) /\ n[k + 1] = Tail(s)[k - 1]
    <3>1. k - 1 \in 1..Len(Tail(s)) /\ (k - 1) + 2 = k + 1
      BY <1>1, <1>5
    <3>. QED  BY <1>7, <3>1
  <2>2. Tail(s)[k - 1] = s[k]
    BY <1>1, <2>1
  <2>. QED  BY <2>1, <2>2
<1>9. In(s[1]) = {s[1][1]} \cup In(Tail(s[1]))
  <2>1. DOMAIN s[1] = 1..Len(s[1]) /\ DOMAIN Tail(s[1]) = 1..(Len(s[1]) - 1) 
        /\ Len(s[1]) \in Nat \ {0}
    BY <1>1
  <2>2. \A k \in 1..(Len(s[1]) - 1) : Tail(s[1])[k] = s[1][k + 1]
    BY <1>1
  <2>3. \A k \in DOMAIN s[1] : k = 1 \/ k - 1 \in DOMAIN Tail(s[1])
    BY <2>1
  <2>4. \A k \in DOMAIN s[1] : k # 1 => s[1][k] = Tail(s[1])[k - 1]
    BY <2>1, <2>2
  <2>5. ASSUME NEW x \in In(s[1]) PROVE x \in {s[1][1]} \cup In(Tail(s[1]))
    <3>1. PICK k \in DOMAIN s[1] : x = s[1][k]
      BY DEF In
    <3>. QED  BY <2>3, <2>4, <3>1 DEF In
  <2>6. \A k \in DOMAIN Tail(s[1]) : k + 1 \in DOMAIN s[1] /\ Tail(s[1])[k] = s[1][k + 1]
    BY <2>1, <2>2
  <2>7. ASSUME NEW x \in In(Tail(s[1])) PROVE x \in In(s[1])
    <3>1. PICK k \in DOMAIN Tail(s[1]) : x = Tail(s[1])[k]
      BY DEF In
    <3>. QED  BY <2>6, <3>1 DEF In
  <2>8. s[1][1] \in In(s[1])
    <3>1. 1 \in DOMAIN s[1]
      BY <2>1
    <3>. QED  BY <3>1 DEF In
  <2>. QED  BY <2>5, <2>7, <2>8
<1>. QED  BY <1>1, <1>2, <1>4, <1>7, <1>8, <1>9

LEMMA Returned ==
  ASSUME NEW s \in Seq(Seq(Type)), s # <<>>
  PROVE  /\ Tail(s) \in Seq(Seq(Type)) /\ Len(Tail(s)) = Len(s) - 1 /\ Len(s) \in Nat \ {0}
         /\ \A k \in 1..(Len(s) - 1) : Tail(s)[k] = s[k + 1]
OBVIOUS

LEMMA PendingVisit ==
  ASSUME TypesOK, Visit
  PROVE  LET t == Head(Head(stack))
         IN  /\ t \in Pending /\ Pending \subseteq {t} \cup Pending'
             /\ In(Parts[t]) \subseteq Pending' /\ Pending' \subseteq Pending \cup In(Parts[t])
<1>. DEFINE t == Head(Head(stack))
<1>1. stack \in Seq(Seq(Type)) /\ stack # <<>> /\ Head(stack) # <<>> /\ roots' = roots
      /\ stack' = Pushed(stack)
  BY DEF TypesOK, Visit, Pushed
<1>2. /\ Len(stack') = Len(stack) + 1 /\ Len(stack) \in Nat /\ Len(stack) # 0
      /\ stack' \in Seq(Seq(Type))
      /\ stack'[1] = Parts[t]
      /\ In(stack[1]) = {t} \cup In(stack'[2])
      /\ \A k \in 2..Len(stack) : stack'[k + 1] = stack[k]
  BY <1>1, Visited
<1>. HIDE DEF t
<1>3. DOMAIN stack = 1..Len(stack) /\ DOMAIN stack' = 1..(Len(stack) + 1)
  BY <1>1, <1>2
<1>4. 1 \in DOMAIN stack /\ 1 \in DOMAIN stack' /\ 2 \in DOMAIN stack'
  BY <1>2, <1>3
<1>. /\ \A j \in DOMAIN stack : In(stack[j]) \subseteq Pending
     /\ \A j \in DOMAIN stack' : In(stack'[j]) \subseteq Pending'
  BY DEF Pending
<1>5. t \in Pending
  BY <1>2, <1>4
<1>6. In(Parts[t]) \subseteq Pending'
  BY <1>2, <1>4
<1>7. ASSUME NEW j \in DOMAIN stack PROVE In(stack[j]) \subseteq {t} \cup Pending'
  <2>1. CASE j = 1
    BY <1>2, <1>4, <2>1
  <2>2. CASE j # 1
    <3>1. j + 1 \in DOMAIN stack' /\ stack'[j + 1] = stack[j]
      BY <1>2, <1>3, <2>2
    <3>. QED  BY <3>1
  <2>. QED  BY <2>1, <2>2
<1>8. ASSUME NEW j \in DOMAIN stack' PROVE In(stack'[j]) \subseteq Pending \cup In(Parts[t])
  <2>1. CASE j = 1
    BY <1>2, <2>1
  <2>2. CASE j = 2
    BY <1>2, <1>4, <2>2
  <2>3. CASE j # 1 /\ j # 2
    <3>1. j - 1 \in 2..Len(stack) /\ (j - 1) + 1 = j /\ j - 1 \in DOMAIN stack
      BY <1>2, <1>3, <2>3
    <3>2. stack'[j] = stack[j - 1]
      BY <1>2, <3>1
    <3>. QED  BY <3>1, <3>2
  <2>. QED  BY <2>1, <2>2, <2>3
<1>9. Pending \subseteq {t} \cup Pending'
  BY <1>1, <1>7 DEF Pending
<1>10. Pending' \subseteq Pending \cup In(Parts[t])
  BY <1>1, <1>8 DEF Pending
<1>. QED  BY <1>5, <1>6, <1>9, <1>10 DEF t

LEMMA PendingNextRoot ==
  ASSUME TypesOK, NextRoot
  PROVE  Pending' = Pending /\ stack' \in Seq(Seq(Type)) /\ Len(stack') = 1
<1>1. PICK t \in roots : stack = <<>> /\ stack' = <<<<t>>>> /\ roots' = roots \ {t} /\ t \in Type
  BY DEF NextRoot, TypesOK
<1>2. Pending = roots
  BY <1>1 DEF Pending
<1>3. DOMAIN stack' = {1} /\ In(stack'[1]) = {t} /\ stack' \in Seq(Seq(Type)) /\ Len(stack') = 1
  BY <1>1, OneElement
<1>4. UNION {In(stack'[j]) : j \in DOMAIN stack'} = {t}
  BY <1>3
<1>. QED  BY <1>1, <1>2, <1>3, <1>4 DEF Pending

LEMMA PendingReturn ==
  ASSUME TypesOK, Return
  PROVE  Pending' = Pending /\ stack' \in Seq(Seq(Type))
<1>1. /\ stack \in Seq(Seq(Type)) /\ stack # <<>> /\ Head(stack) = <<>>
      /\ stack' = Tail(stack) /\ roots' = roots
  BY DEF TypesOK, Return
<1>2. stack' \in Seq(Seq(Type)) /\ Len(stack') = Len(stack) - 1 /\ Len(stack) \in Nat \ {0}
      /\ \A k \in 1..(Len(stack) - 1) : stack'[k] = stack[k + 1]
  BY <1>1, Returned
<1>3. DOMAIN stack = 1..Len(stack) /\ DOMAIN stack' = 1..(Len(stack) - 1) /\ stack[1] = <<>>
  BY <1>1, <1>2
<1>4. In(stack[1]) = {}
  BY <1>3 DEF In
<1>5. ASSUME NEW j \in DOMAIN stack PROVE In(stack[j]) \subseteq Pending'
  <2>1. CASE j = 1
    BY <1>4, <2>1
  <2>2. CASE j # 1
    <3>1. j - 1 \in DOMAIN stack' /\ (j - 1) + 1 = j
      BY <1>2, <1>3, <2>2
    <3>2. stack'[j - 1] = stack[j]
      BY <1>2, <1>3, <3>1
    <3>. QED  BY <3>1, <3>2 DEF Pending
  <2>. QED  BY <2>1, <2>2
<1>6. ASSUME NEW j \in DOMAIN stack' PROVE In(stack'[j]) \subseteq Pending
  <2>1. j + 1 \in DOMAIN stack /\ stack'[j] = stack[j + 1]
    BY <1>2, <1>3
  <2>. QED  BY <2>1 DEF Pending
<1>7. Pending \subseteq Pending' /\ Pending' \subseteq Pending
  BY <1>1, <1>5, <1>6 DEF Pending
<1>. QED  BY <1>2, <1>7

LEMMA AllReachedFacts ==
  ASSUME mod \in Modules
  PROVE  /\ AllReached \subseteq Type /\ AllFound \subseteq AllReached /\ AllFound \subseteq Type
         /\ ModuleRoots(mod) \subseteq AllReached
         /\ \A t \in AllReached : In(Parts[t]) \subseteq AllReached /\ MadeOf[t] \subseteq AllReached
         /\ \A t \in AllReached : t \in AllFound <=> Kind[t] \in Scalar \cup Derived
<1>1. ModuleRoots(mod) \in SUBSET Type
  BY ModuleFacts
<1>. QED  BY <1>1, ReachedFacts DEF AllReached, AllFound, Found, OfKind

LEMMA VisitWalk ==
  ASSUME TypesOK, WalkOK, Visit
  PROVE  WalkOK'
<1>. DEFINE t == Head(Head(stack))
<1>1. pc = "walk" /\ pc' = "walk" /\ mod' = mod /\ output' = output
      /\ types' = types \cup OfKind({t}, Scalar \cup Derived)
  BY DEF Visit
<1>2. /\ t \in Pending /\ Pending \subseteq {t} \cup Pending'
      /\ In(Parts[t]) \subseteq Pending' /\ Pending' \subseteq Pending \cup In(Parts[t])
  BY PendingVisit
<1>. HIDE DEF t
<1>3. AllReached' = AllReached /\ AllFound' = AllFound
  BY <1>1 DEF AllReached, AllFound
<1>4. /\ Pending \subseteq AllReached /\ AllFound \subseteq types \cup Reached(Pending)
      /\ types \subseteq AllFound
      /\ \A u \in AllReached : Recursive(u) => u \in Reached(Pending)
      /\ printed = {} /\ dangling = {} /\ unimported = {}
  BY <1>1 DEF WalkOK
<1>5. t \in AllReached /\ t \in Type /\ In(Parts[t]) \subseteq AllReached
  BY <1>2, <1>4, AllReachedFacts DEF TypesOK
<1>6. MadeOf[t] \subseteq {t} \cup Reached(Pending')
  BY <1>2, <1>5, MadeOfParts, ReachedMonotone
<1>7. Reached(Pending) \subseteq {t} \cup Reached(Pending')
  <2>1. Reached(Pending) \subseteq Reached({t}) \cup Reached(Pending')
    <3>1. Reached(Pending) \subseteq Reached({t} \cup Pending')
      BY <1>2, ReachedMonotone
    <3>2. Reached({t} \cup Pending') = Reached({t}) \cup Reached(Pending')
      BY ReachedUnion
    <3>. QED  BY <3>1, <3>2
  <2>2. Reached({t}) = MadeOf[t]
    BY DEF Reached
  <2>. QED  BY <1>6, <2>1, <2>2
<1>8. Pending' \subseteq AllReached
  BY <1>2, <1>4, <1>5
<1>9. AllFound \subseteq types' \cup Reached(Pending')
  <2>1. \A u \in AllFound : Kind[u] \in Scalar \cup Derived
    BY DEF AllFound, Found, OfKind
  <2>. QED  BY <1>1, <1>4, <1>7, <2>1 DEF OfKind
<1>10. types' \subseteq AllFound
  BY <1>1, <1>4, <1>5, AllReachedFacts DEF OfKind, TypesOK
<1>11. ASSUME NEW u \in AllReached, Recursive(u) PROVE u \in Reached(Pending')
  <2>1. u \in {t} \cup Reached(Pending')
    BY <1>4, <1>7, <1>11
  <2>2. CASE u = t
    BY <1>2, <1>11, <2>2, ReachedMonotone DEF Recursive
  <2>. QED  BY <2>1, <2>2
<1>12. printed' = {} /\ dangling' = {} /\ unimported' = {}
  BY <1>1, <1>4 DEF output
<1>. QED  BY <1>3, <1>8, <1>9, <1>10, <1>11, <1>12 DEF WalkOK

LEMMA OtherWalk ==
  ASSUME WalkOK, pc = "walk", pc' = "walk", mod' = mod, types' = types, output' = output,
         Pending' = Pending
  PROVE  WalkOK'
<1>1. AllReached' = AllReached /\ AllFound' = AllFound
  BY DEF AllReached, AllFound
<1>. QED  BY <1>1 DEF WalkOK, output

LEMMA OtherStack ==
  ASSUME TypesOK, WalkOK, StackOK, NextRoot \/ Return
  PROVE  StackOK'
<1>1. pc = "walk" /\ mod' = mod
  BY DEF NextRoot, Return
<1>2. AllReached' = AllReached
  BY <1>1 DEF AllReached
<1>3. CASE NextRoot
  <2>1. Len(stack') = 1
    BY <1>3, PendingNextRoot
  <2>2. /\ [j \in 1..(Len(stack') - 1) |-> j] \in [1..(Len(stack') - 1) -> AllReached]
        /\ IsPath([j \in 1..(Len(stack') - 1) |-> j], stack')
    BY <2>1 DEF IsPath
  <2>. QED  BY <1>2, <2>2 DEF StackOK
<1>4. CASE Return
  <2>1. PICK p \in [1..(Len(stack) - 1) -> AllReached] : IsPath(p, stack)
    BY <1>1 DEF StackOK
  <2>2. Len(stack') = Len(stack) - 1 /\ Len(stack) \in Nat \ {0}
        /\ \A k \in 1..(Len(stack) - 1) : stack'[k] = stack[k + 1]
    <3>1. stack \in Seq(Seq(Type)) /\ stack # <<>> /\ stack' = Tail(stack)
      BY <1>4 DEF TypesOK, Return
    <3>. QED  BY <3>1, Returned
  <2>. DEFINE q == [j \in 1..(Len(stack) - 2) |-> p[j + 1]]
  <2>3. \A j \in 1..(Len(stack) - 2) :
          j + 1 \in 1..(Len(stack) - 1) /\ j \in 1..(Len(stack) - 1) /\ q[j] = p[j + 1]
    BY <2>2
  <2>4. q \in [1..(Len(stack) - 2) -> AllReached]
    BY <2>1, <2>3
  <2>. HIDE DEF q
  <2>5. Len(stack') - 1 = Len(stack) - 2
    BY <2>2
  <2>6. ASSUME NEW j \in 1..(Len(stack) - 2) PROVE In(stack'[j]) \subseteq In(Parts[q[j]])
    BY <2>1, <2>2, <2>3 DEF IsPath
  <2>7. ASSUME NEW j \in 1..(Len(stack) - 2), NEW k \in 1..(Len(stack) - 2), j < k
        PROVE  q[j] \in Reached(In(Parts[q[k]]))
    <3>1. j + 1 < k + 1
      BY <2>7
    <3>. QED  BY <2>1, <2>3, <3>1 DEF IsPath
  <2>8. IsPath(q, stack')
    BY <2>5, <2>6, <2>7 DEF IsPath
  <2>. QED  BY <1>2, <2>4, <2>5, <2>8 DEF StackOK
<1>. QED  BY <1>3, <1>4

LEMMA VisitStack ==
  ASSUME TypesOK, WalkOK, StackOK, Visit
  PROVE  StackOK'
<1>. DEFINE t == Head(Head(stack))
            L == Len(stack)
<1>1. stack \in Seq(Seq(Type)) /\ stack # <<>> /\ Head(stack) # <<>> /\ stack' = Pushed(stack)
      /\ pc = "walk" /\ mod' = mod
  BY DEF TypesOK, Visit, Pushed
<1>2. /\ L \in Nat /\ L # 0 /\ Len(stack') = L + 1
      /\ stack'[1] = Parts[t]
      /\ In(stack[1]) = {t} \cup In(stack'[2])
      /\ \A k \in 2..L : stack'[k + 1] = stack[k]
  BY <1>1, Visited
<1>3. AllReached' = AllReached
  BY <1>1 DEF AllReached
<1>4. t \in AllReached
  BY <1>1, PendingVisit DEF WalkOK
<1>. HIDE DEF t
<1>5. PICK p \in [1..(L - 1) -> AllReached] : IsPath(p, stack)
  BY <1>1 DEF StackOK
<1>6. /\ \A j \in 1..(L - 1) : In(stack[j]) \subseteq In(Parts[p[j]])
      /\ \A j, k \in 1..(L - 1) : j < k => p[j] \in Reached(In(Parts[p[k]]))
      /\ \A j \in 1..(L - 1) : p[j] \in AllReached /\ p[j] \in Type
  BY <1>5, AllReachedFacts DEF IsPath, TypesOK
<1>. DEFINE q == [j \in 1..L |-> IF j = 1 THEN t ELSE p[j - 1]]
<1>7. q[1] = t /\ \A j \in 2..L : q[j] = p[j - 1] /\ j - 1 \in 1..(L - 1)
  BY <1>2
<1>8. q \in [1..L -> AllReached]
  BY <1>2, <1>4, <1>6
<1>. HIDE DEF q, L
<1>9. ASSUME NEW j \in 1..L PROVE In(stack'[j]) \subseteq In(Parts[q[j]])
  <2>1. CASE j = 1
    BY <1>2, <1>7, <2>1
  <2>2. CASE j = 2
    <3>1. j \in 2..L /\ j - 1 = 1
      BY <1>2, <2>2
    <3>2. In(stack[1]) \subseteq In(Parts[q[j]])
      BY <1>6, <1>7, <3>1
    <3>. QED  BY <1>2, <2>2, <3>2
  <2>3. CASE j > 2
    <3>1. j \in 2..L /\ j - 1 \in 2..L /\ (j - 1) + 1 = j
      BY <1>2, <2>3
    <3>2. stack'[j] = stack[j - 1] /\ q[j] = p[j - 1] /\ j - 1 \in 1..(L - 1)
      BY <1>2, <1>7, <3>1
    <3>. QED  BY <1>6, <3>2
  <2>4. j = 1 \/ j = 2 \/ j > 2
    BY <1>2
  <2>. QED  BY <2>1, <2>2, <2>3, <2>4
<1>10. ASSUME NEW j \in 1..L, NEW k \in 1..L, j < k PROVE q[j] \in Reached(In(Parts[q[k]]))
  <2>1. k \in 2..L /\ q[k] = p[k - 1] /\ k - 1 \in 1..(L - 1)
    BY <1>2, <1>7, <1>10
  <2>2. In(Parts[p[k - 1]]) \in SUBSET Type
    BY <1>6, <2>1, PartsTypes
  <2>3. CASE j # 1
    <3>1. j \in 2..L /\ q[j] = p[j - 1] /\ j - 1 \in 1..(L - 1) /\ j - 1 < k - 1
      BY <1>2, <1>7, <1>10, <2>1, <2>3
    <3>. QED  BY <1>6, <2>1, <3>1
  <2>4. CASE j = 1
    <3>1. 1 \in 1..(L - 1) /\ t \in In(Parts[p[1]])
      <4>1. 1 \in 1..(L - 1)
        BY <1>2, <2>1
      <4>. QED  BY <1>2, <1>6, <4>1
    <3>2. CASE k = 2
      BY <1>7, <2>1, <2>2, <2>4, <3>1, <3>2, ReachedFacts
    <3>3. CASE k # 2
      <4>1. 1 < k - 1
        BY <1>2, <2>1, <3>3
      <4>2. p[1] \in Reached(In(Parts[p[k - 1]]))
        BY <1>6, <2>1, <3>1, <4>1
      <4>3. In(Parts[p[1]]) \subseteq Reached(In(Parts[p[k - 1]]))
        BY <2>2, <4>2, ReachedFacts
      <4>. QED  BY <1>7, <2>1, <2>4, <3>1, <4>3
    <3>. QED  BY <3>2, <3>3
  <2>. QED  BY <2>3, <2>4
<1>11. Len(stack') - 1 = L
  BY <1>2
<1>12. IsPath(q, stack')
  BY <1>9, <1>10, <1>11 DEF IsPath
<1>. QED  BY <1>3, <1>8, <1>11, <1>12 DEF StackOK

(* A type that is part of itself, or a name that is missing, in anything   *)
(* that the module mentions, is enough for the module not to be printable. *)
LEMMA NotPrintable ==
  ASSUME NEW t \in AllReached, Recursive(t) \/ (Kind[t] \in Scalar \cup Derived /\ ~Nameable(t))
  PROVE  ~Printable
<1>1. AllReached \subseteq Reached(ModuleRoots(mod) \cup (UNION {n.finds : n \in Clauses}))
  BY ReachedMonotone DEF AllReached
<1>. QED  BY <1>1 DEF Printable

(* A stack without room has a type on it twice.                            *)
LEMMA OverflowPrintable ==
  ASSUME TypesOK, WalkOK, StackOK, StackOverflow
  PROVE  ~Printable
<1>. DEFINE L == Len(stack)
<1>1. pc = "walk" /\ L > MaxDepth /\ stack \in Seq(Seq(Type)) /\ MaxDepth \in Nat /\ L \in Nat
  BY StackAssumption DEF StackOverflow, TypesOK, StackAssumption
<1>2. MaxDepth # 0
  <2>1. PtrInt \in Type /\ MadeOf[PtrInt] = {PtrInt} /\ ~Recursive(PtrInt)
    BY ForPointers, PlainTypes
  <2>2. Cardinality(MadeOf[PtrInt]) < MaxDepth
    BY <2>1, StackAssumption DEF StackAssumption
  <2>3. Cardinality(MadeOf[PtrInt]) = 1
    BY <2>1, FS_Singleton
  <2>. QED  BY <2>2, <2>3
<1>3. PICK p \in [1..(L - 1) -> AllReached] : IsPath(p, stack)
  BY <1>1 DEF StackOK
<1>4. \A j, k \in 1..(L - 1) : j < k => p[j] \in Reached(In(Parts[p[k]]))
  BY <1>3 DEF IsPath
<1>. HIDE DEF L
<1>5. L - 1 \in 1..(L - 1) /\ MaxDepth <= L - 1
  BY <1>1, <1>2
<1>6. \A j \in 1..(L - 1) : p[j] \in AllReached /\ p[j] \in Type
  BY <1>3, AllReachedFacts DEF TypesOK
<1>. DEFINE T == MadeOf[p[L - 1]]
<1>7. T \subseteq Type /\ T \subseteq AllReached /\ p[L - 1] \in T
  BY <1>5, <1>6, AllReachedFacts, MadeOfFacts DEF TypesOK
<1>8. ASSUME \A u \in T : ~Recursive(u) PROVE FALSE
  <2>1. Cardinality(T) < MaxDepth
    BY <1>5, <1>6, <1>8, StackAssumption DEF StackAssumption
  <2>2. IsFiniteSet(T) /\ Cardinality(T) \in Nat
    BY <1>7, TypesFinite, FS_Subset, FS_CardinalityType
  <2>3. IsFiniteSet(1..(L - 1)) /\ Cardinality(1..(L - 1)) = L - 1
    <3>1. 1 \in Int /\ L - 1 \in Int /\ ~(1 > L - 1) /\ (L - 1) - 1 + 1 = L - 1
      BY <1>1, <1>5
    <3>. QED  BY <3>1, FS_Interval
  <2>4. ASSUME NEW j \in 1..(L - 1) PROVE p[j] \in T
    <3>1. CASE j = L - 1
      BY <1>7, <3>1
    <3>2. CASE j # L - 1
      <4>1. j < L - 1
        BY <1>1, <3>2
      <4>2. p[j] \in Reached(In(Parts[p[L - 1]]))
        BY <1>4, <1>5, <4>1
      <4>. QED  BY <1>5, <1>6, <4>2, MadeOfParts
    <3>. QED  BY <3>1, <3>2
  <2>5. p \in [1..(L - 1) -> T]
    BY <1>3, <2>4
  <2>. HIDE DEF T
  <2>6. Cardinality(T) < Cardinality(1..(L - 1))
    BY <1>1, <1>5, <2>1, <2>2, <2>3
  <2>7. PICK x \in 1..(L - 1), y \in 1..(L - 1) : x # y /\ p[x] = p[y]
    BY <2>2, <2>3, <2>5, <2>6, FS_PigeonHole
  <2>8. Recursive(p[x])
    <3>1. x < y \/ y < x
      BY <2>7
    <3>. QED  BY <1>4, <2>7, <3>1 DEF Recursive
  <2>. QED  BY <1>8, <2>4, <2>8
<1>. QED  BY <1>7, <1>8, NotPrintable
-----------------------------------------------------------------------------
(* The types that are found *)

LEMMA PhaseFacts ==
  /\ AfterWalk = {"vectors", "scalars", "derived", "baddr", "globals", "functions", "goals", "done"}
  /\ AfterScalars = {"derived", "baddr", "globals", "functions", "goals", "done"}
  /\ AfterDerived = {"baddr", "globals", "functions", "goals", "done"}
  /\ AfterBaddr = {"globals", "functions", "goals", "done"}
  /\ AfterGlobals = {"functions", "goals", "done"}
  /\ Phases = {"walk", "vectors", "scalars", "derived", "baddr", "globals", "functions", "goals", "done"}
BY DEF Phases, AfterWalk, AfterScalars, AfterDerived, AfterBaddr, AfterGlobals

(* No type has itself as a part, and with a type goes what it is made of.  *)
LEMMA FoundTypes ==
  ASSUME TypesOK, FoundOK, pc \in AfterWalk
  PROVE  /\ \A t \in types : ~Recursive(t)
         /\ \A t \in types : \A u \in In(Parts[t]) : Kind[u] \in Scalar \cup Derived => u \in types
         /\ \A t \in types : Kind[t] # "vector" \/ t \in DOMAIN PtrIntVec => t \in AllFound \cup {PtrInt}
<1>1. /\ AllFound \subseteq types
      /\ types \subseteq AllFound \cup {PtrInt} \cup PtrIntVecs
      /\ \A t \in AllReached : ~Recursive(t)
      /\ OfKind(types, {"ptr"}) # {} \/ types # AllFound => PtrInt \in types
  BY DEF FoundOK
<1>2. /\ AllReached \subseteq Type /\ AllFound \subseteq AllReached
      /\ \A t \in AllReached : In(Parts[t]) \subseteq AllReached
      /\ \A t \in AllReached : t \in AllFound <=> Kind[t] \in Scalar \cup Derived
  BY AllReachedFacts DEF TypesOK
<1>3. PtrInt \in Type /\ ~Recursive(PtrInt) /\ In(Parts[PtrInt]) = {}
  BY ForPointers, PlainTypes, PartsTypes DEF Derived
<1>4. \A t \in PtrIntVecs : ~Recursive(t) /\ In(Parts[t]) = {PtrInt} /\ Kind[t] = "vector"
  BY ForPointers
<1>5. ASSUME NEW t \in types, NEW u \in In(Parts[t]), Kind[u] \in Scalar \cup Derived
      PROVE  u \in types
  <2>1. CASE t \in AllFound
    BY <1>1, <1>2, <1>5, <2>1
  <2>2. CASE t \notin AllFound
    BY <1>1, <1>3, <1>4, <1>5, <2>2
  <2>. QED  BY <2>1, <2>2
<1>6. \A t \in types : ~Recursive(t)
  BY <1>1, <1>2, <1>3, <1>4
<1>7. PtrIntVecs \cap DOMAIN PtrIntVec = {}
  BY ForPointers
<1>. QED  BY <1>1, <1>4, <1>5, <1>6, <1>7

LEMMA EndWalk ==
  ASSUME TypesOK, WalkOK, AddPtrInt
  PROVE  TypesOK' /\ FoundOK' /\ VectorsOK'
<1>1. /\ pc = "walk" /\ pc' = "vectors" /\ mod' = mod /\ roots' = roots /\ stack' = stack
      /\ stack = <<>> /\ roots = {}
      /\ types' = types \cup (IF OfKind(types, {"ptr"}) = {} THEN {} ELSE {PtrInt})
      /\ vectors' = OfKind(types, {"vector"})
  BY DEF AddPtrInt
<1>2. Reached(Pending) = {}
  BY <1>1 DEF Pending, Reached
<1>3. types = AllFound /\ \A t \in AllReached : ~Recursive(t)
  BY <1>1, <1>2 DEF WalkOK
<1>4. AllReached' = AllReached /\ AllFound' = AllFound
  BY <1>1 DEF AllReached, AllFound
<1>5. PtrInt \in Type /\ Kind[PtrInt] = "int"
  BY ForPointers
<1>6. TypesOK'
  BY <1>1, <1>5 DEF TypesOK, Phases
<1>7. FoundOK'
  <2>1. OfKind(types', {"ptr"}) # {} \/ types' # AllFound => PtrInt \in types'
    BY <1>1, <1>3, <1>5 DEF OfKind
  <2>. QED  BY <1>1, <1>3, <1>4, <2>1 DEF FoundOK
<1>8. VectorsOK'
  <2>1. \A v \in types' \cap DOMAIN PtrIntVec : v \in vectors'
    BY <1>1, <1>5, ForPointers DEF OfKind
  <2>2. vectors' \subseteq OfKind(types', {"vector"})
    BY <1>1 DEF OfKind
  <2>. QED  BY <1>1, <2>1, <2>2 DEF VectorsOK
<1>. QED  BY <1>6, <1>7, <1>8

LEMMA AddVector ==
  ASSUME TypesOK, FoundOK, VectorsOK, AddPtrIntVector
  PROVE  TypesOK' /\ FoundOK' /\ VectorsOK'
<1>1. pc = "vectors" /\ pc' = "vectors" /\ mod' = mod /\ roots' = roots /\ stack' = stack
  BY DEF AddPtrIntVector
<1>2. PICK v \in vectors :
       IF Kind[Parts[v][1]] = "ptr"
       THEN /\ types' = types \cup {PtrIntVec[v]}
            /\ \/ vectors' = vectors \ {v}
               \/ PtrIntVec[v] \notin types /\ vectors' \in SUBSET (vectors \ {v})
       ELSE vectors' = vectors \ {v} /\ UNCHANGED types
  BY DEF AddPtrIntVector
<1>3. AllReached' = AllReached /\ AllFound' = AllFound
  BY <1>1 DEF AllReached, AllFound
<1>4. pc \in AfterWalk
  BY <1>1 DEF AfterWalk, Phases
<1>5. /\ AllFound \subseteq types
      /\ types \subseteq AllFound \cup {PtrInt} \cup PtrIntVecs
      /\ \A t \in AllReached : ~Recursive(t)
      /\ OfKind(types, {"ptr"}) # {} \/ types # AllFound => PtrInt \in types
  BY <1>4 DEF FoundOK
<1>6. /\ vectors \subseteq OfKind(types, {"vector"})
      /\ \A u \in types \cap DOMAIN PtrIntVec :
           \/ u \in vectors \/ PtrIntVec[u] \in types
           \/ \E w \in types \cap DOMAIN PtrIntVec : w # u
  BY <1>4 DEF VectorsOK
<1>7. v \in types /\ v \in Type /\ Kind[v] = "vector"
  BY <1>6 DEF OfKind, TypesOK
<1>8. CASE Kind[Parts[v][1]] = "ptr"
  <2>1. v \in DOMAIN PtrIntVec
    BY <1>7, <1>8, ForPointers
  <2>. DEFINE w == PtrIntVec[v]
  <2>2. w \in PtrIntVecs /\ w \in Type /\ Kind[w] = "vector" /\ w \notin DOMAIN PtrIntVec
    BY <2>1, ForPointers DEF PtrIntVecs
  <2>3. /\ types' = types \cup {w}
        /\ vectors' \subseteq vectors \ {v}
        /\ vectors' = vectors \ {v} \/ w \notin types
    BY <1>2, <1>8
  <2>4. PtrInt \in types
    <3>1. Parts[v][1] \in types
      <4>1. Parts[v][1] \in In(Parts[v])
        BY <2>1, ForPointers
      <4>2. Kind[Parts[v][1]] \in Derived
        BY <1>8 DEF Derived
      <4>. QED  BY <1>4, <1>7, <4>1, <4>2, FoundTypes
    <3>2. Parts[v][1] \in OfKind(types, {"ptr"})
      BY <1>8, <3>1 DEF OfKind
    <3>. QED  BY <1>5, <3>2
  <2>. HIDE DEF w
  <2>5. TypesOK'
    BY <1>1, <2>2, <2>3 DEF TypesOK, Phases
  <2>6. FoundOK'
    BY <1>3, <1>5, <2>2, <2>3, <2>4 DEF FoundOK
  <2>7. vectors' \subseteq OfKind(types', {"vector"})
    BY <1>6, <2>3 DEF OfKind
  <2>8. ASSUME NEW u \in types' \cap DOMAIN PtrIntVec
        PROVE  \/ u \in vectors' \/ PtrIntVec[u] \in types'
               \/ \E x \in types' \cap DOMAIN PtrIntVec : x # u
    <3>1. CASE u = v
      BY <2>3, <3>1 DEF w
    <3>2. CASE u # v
      BY <1>7, <2>1, <2>3, <3>2
    <3>. QED  BY <3>1, <3>2
  <2>. QED  BY <1>1, <2>5, <2>6, <2>7, <2>8 DEF VectorsOK
<1>9. CASE Kind[Parts[v][1]] # "ptr"
  <2>1. types' = types /\ vectors' = vectors \ {v}
    BY <1>2, <1>9
  <2>2. TypesOK'
    BY <1>1, <2>1 DEF TypesOK, Phases
  <2>3. FoundOK'
    BY <1>3, <1>5, <2>1 DEF FoundOK
  <2>4. v \notin DOMAIN PtrIntVec
    BY <1>9, ForPointers
  <2>5. VectorsOK'
    BY <1>1, <1>6, <2>1, <2>4 DEF VectorsOK
  <2>. QED  BY <2>2, <2>3, <2>5
<1>. QED  BY <1>8, <1>9

(* As long as a type waits, one waits whose parts do not: one that is made *)
(* of the fewest types.                                                    *)
LEMMA NoneWaits ==
  ASSUME TypesOK, FoundOK, pc \in AfterWalk, \A t \in Waiting : In(Parts[t]) \cap Waiting # {}
  PROVE  Waiting = {}
<1>. SUFFICES ASSUME Waiting # {} PROVE FALSE
  OBVIOUS
<1>1. Waiting \subseteq types /\ types \subseteq Type
  BY DEF Waiting, OfKind, TypesOK
<1>2. ASSUME NEW t \in Type PROVE IsFiniteSet(MadeOf[t]) /\ Cardinality(MadeOf[t]) \in Nat
  BY MadeOfFacts, TypesFinite, FS_Subset, FS_CardinalityType
<1>. DEFINE S == {Cardinality(MadeOf[t]) : t \in Waiting}
<1>3. S \subseteq Nat /\ S # {}
  BY <1>1, <1>2
<1>4. PICK k \in S : \A j \in S : k <= j
  <2>. HIDE DEF S
  <2>. QED  BY <1>3, Least
<1>5. PICK t \in Waiting : k = Cardinality(MadeOf[t])
  OBVIOUS
<1>6. PICK u \in Waiting : u \in In(Parts[t])
  OBVIOUS
<1>7. t \in Type /\ u \in Type /\ ~Recursive(t)
  BY <1>1, FoundTypes
<1>8. MadeOf[u] \subseteq Reached(In(Parts[t]))
  BY <1>6 DEF Reached
<1>9. MadeOf[u] \subseteq MadeOf[t] /\ MadeOf[u] # MadeOf[t]
  BY <1>7, <1>8, MadeOfParts, MadeOfFacts DEF Recursive
<1>10. Cardinality(MadeOf[u]) <= Cardinality(MadeOf[t])
       /\ Cardinality(MadeOf[u]) # Cardinality(MadeOf[t])
  BY <1>2, <1>7, <1>9, FS_Subset
<1>11. Cardinality(MadeOf[t]) <= Cardinality(MadeOf[u])
  BY <1>4, <1>5, <1>6
<1>12. Cardinality(MadeOf[t]) \in Nat /\ Cardinality(MadeOf[u]) \in Nat
  BY <1>2, <1>7
<1>. QED  BY <1>10, <1>11, <1>12
-----------------------------------------------------------------------------
(* The file *)

(* The causes ImportsResolve and NamesImported list.                       *)
ImportExcused(d) ==
  \/ \E f \in Functions : d[1] \in TheoriesOf(f) /\ d[2] \in NodeImports(CalleeClauses(f))
  \/ d = <<"BlockAddress", BytePtr>> /\ \A f \in Functions : ~BodyUsesBaddr(f)
  \/ /\ \E f \in Functions : d[1] \in TheoriesOf(f)
     /\ \E v, w \in DOMAIN PtrIntVec : v # w /\ d[2] = PtrIntVec[v] /\ {v, w} \subseteq types
NameExcused(u) ==
  \/ \E f \in Functions :
       /\ u[1] \in TheoriesOf(f)
       /\ \/ \E n \in f.clauses \cup CalleeClauses(f) : u[2] \in Missed(n)
          \/ u[2] = "BlockAddress" /\ \E v \in Operands(f) : v.kind = "nested"
          \/ u[2] = PtrInt /\ \E k \in Conversions(f) :
               Narrow(f.body[k]) /\ Conversion(f.body[k]) \cap DOMAIN PtrIntVec # {}
  \/ \E f \in Functions : \E k \in Goals(f) :
       /\ u[1] = f.body[k].goal
       /\ u[2] \in NodeNames(mod.functions[f.body[k].callee].requires)
  \/ u = <<"Globals", "BlockAddress">>

LEMMA Excused ==
  /\ ImportsResolve <=> \A d \in dangling : ImportExcused(d)
  /\ NamesImported <=> \A u \in unimported : NameExcused(u)
BY DEF ImportsResolve, NamesImported, ImportExcused, NameExcused

(* What does not change when the module and the types do not.              *)
LEMMA ModuleStays ==
  ASSUME mod' = mod
  PROVE  /\ Functions' = Functions /\ AllReached' = AllReached /\ AllFound' = AllFound
         /\ \A f : Checked(f)' <=> Checked(f)
         /\ \A f : TheoriesOf(f)' = TheoriesOf(f)
         /\ Printable' <=> Printable
         /\ \A u : NameExcused(u)' <=> NameExcused(u)
<1>1. Functions' = Functions /\ AllReached' = AllReached /\ AllFound' = AllFound
  BY DEF Functions, AllReached, AllFound
<1>2. \A f : CalleeClauses(f)' = CalleeClauses(f)
  BY DEF CalleeClauses
<1>3. \A f : FunctionImports(f)' = FunctionImports(f) /\ FunctionNames(f)' = FunctionNames(f)
  BY <1>2 DEF FunctionImports, FunctionNames
<1>4. \A f : Checked(f)' <=> Checked(f)
  BY <1>3 DEF Checked
<1>5. Clauses' = Clauses
  BY <1>1, <1>2 DEF Clauses
<1>6. Printable' <=> Printable
  BY <1>5 DEF Printable
<1>7. \A f : Goals(f)' = Goals(f)
  BY DEF Goals
<1>8. \A f : TheoriesOf(f)' = TheoriesOf(f)
  BY <1>7 DEF TheoriesOf
<1>9. \A u : NameExcused(u)' <=> NameExcused(u)
  BY <1>1, <1>2, <1>7, <1>8 DEF NameExcused
<1>. QED  BY <1>1, <1>4, <1>6, <1>8, <1>9

LEMMA ExcusesStay ==
  ASSUME mod' = mod, types \subseteq types'
  PROVE  \A d : ImportExcused(d) => ImportExcused(d)'
<1>1. Functions' = Functions /\ \A f : TheoriesOf(f)' = TheoriesOf(f)
  BY ModuleStays
<1>2. \A f : CalleeClauses(f)' = CalleeClauses(f)
  BY DEF CalleeClauses
<1>. QED  BY <1>1, <1>2 DEF ImportExcused

(* All that is reported has a cause if what this step adds has one.        *)
LEMMA ReportsStay ==
  ASSUME ImportsResolve, NamesImported, mod' = mod, types \subseteq types',
         \A d \in dangling' : d \in dangling \/ ImportExcused(d),
         \A u \in unimported' : u \in unimported \/ NameExcused(u)
  PROVE  ImportsResolve' /\ NamesImported'
<1>1. \A d : ImportExcused(d) => ImportExcused(d)'
  BY ExcusesStay
<1>2. \A u : NameExcused(u)' <=> NameExcused(u)
  BY ModuleStays
<1>3. (\A d \in dangling : ImportExcused(d)) /\ (\A u \in unimported : NameExcused(u))
  BY Excused
<1>4. (\A d \in dangling' : ImportExcused(d)') /\ (\A u \in unimported' : NameExcused(u)')
  BY <1>1, <1>2, <1>3
<1>5. ImportsResolve' <=> \A d \in dangling' : ImportExcused(d)'
  BY DEF ImportsResolve, ImportExcused
<1>6. NamesImported' <=> \A u \in unimported' : NameExcused(u)'
  BY DEF NamesImported, NameExcused
<1>. QED  BY <1>4, <1>5, <1>6

TypesStay ==
  /\ pc \in AfterWalk /\ pc' \in (AfterWalk \ {"vectors"}) \cup {"crashed"}
  /\ pc = "vectors" => vectors = {}
  /\ mod' = mod /\ roots' = roots /\ stack' = stack /\ types' = types /\ vectors' = vectors

LEMMA TypesStayOK ==
  ASSUME DiscoveryInv, TypesStay
  PROVE  TypesOK' /\ WalkOK' /\ StackOK' /\ FoundOK' /\ VectorsOK'
<1>1. TypesOK'
  BY DEF TypesStay, DiscoveryInv, TypesOK, AfterWalk
<1>2. WalkOK' /\ StackOK'
  BY PhaseFacts DEF TypesStay, WalkOK, StackOK
<1>3. FoundOK'
  BY ModuleStays DEF DiscoveryInv, FoundOK, TypesStay
<1>4. VectorsOK'
  BY DEF DiscoveryInv, VectorsOK, TypesStay
<1>. QED  BY <1>1, <1>2, <1>3, <1>4

(* A crash is not wrong where the module is not printable.                 *)
LEMMA CrashStep ==
  ASSUME DiscoveryInv, TypesStay, pc' = "crashed", output' = output, ~Printable
  PROVE  DiscoveryInv'
<1>1. mod' = mod /\ types' = types
  BY DEF TypesStay
<1>2. TypesOK' /\ WalkOK' /\ StackOK' /\ FoundOK' /\ VectorsOK'
  BY TypesStayOK
<1>3. PrintedOK' /\ CheckedOK'
  BY PhaseFacts DEF PrintedOK, CheckedOK
<1>4. CrashOK'
  BY <1>1, ModuleStays DEF CrashOK
<1>5. ImportsResolve' /\ NamesImported'
  BY <1>1, ReportsStay DEF output, DiscoveryInv
<1>. QED  BY <1>2, <1>3, <1>4, <1>5 DEF DiscoveryInv

(* The types have theories, and after the derived ones all of them do.     *)
LEMMA TypeKinds ==
  ASSUME TypesOK, FoundOK, pc \in AfterWalk
  PROVE  \A t \in types : Kind[t] \in Scalar \cup Derived
<1>1. Kind[PtrInt] \in Scalar /\ \A t \in PtrIntVecs : Kind[t] \in Derived
  BY ForPointers DEF Scalar, Derived
<1>2. \A t \in AllFound : Kind[t] \in Scalar \cup Derived
  BY DEF AllFound, Found, OfKind
<1>. QED  BY <1>1, <1>2 DEF FoundOK

LEMMA TypesPrinted ==
  ASSUME TypesOK, FoundOK, PrintedOK, pc \in AfterDerived
  PROVE  types \subseteq printed
<1>1. pc \in AfterWalk /\ pc \in AfterScalars
  BY PhaseFacts
<1>. QED  BY <1>1, TypeKinds DEF PrintedOK, OfKind
-----------------------------------------------------------------------------
(* One step *)

LEMMA WalkSteps ==
  ASSUME DiscoveryInv, NextRoot \/ Visit \/ Return
  PROVE  DiscoveryInv'
<1>1. pc = "walk" /\ pc' = "walk" /\ mod' = mod /\ output' = output
  BY DEF NextRoot, Visit, Return
<1>2. TypesOK /\ WalkOK /\ StackOK
  BY DEF DiscoveryInv
<1>3. /\ stack' \in Seq(Seq(Type)) /\ WalkOK' /\ StackOK'
      /\ roots' \subseteq roots /\ types' \subseteq Type
  <2>1. CASE NextRoot
    <3>1. types' = types /\ roots' \subseteq roots
      BY <2>1 DEF NextRoot
    <3>. QED  BY <1>1, <1>2, <2>1, <3>1, PendingNextRoot, OtherWalk, OtherStack DEF TypesOK
  <2>2. CASE Return
    <3>1. types' = types /\ roots' \subseteq roots
      BY <2>2 DEF Return
    <3>. QED  BY <1>1, <1>2, <2>2, <3>1, PendingReturn, OtherWalk, OtherStack DEF TypesOK
  <2>3. CASE Visit
    <3>1. /\ stack \in Seq(Seq(Type)) /\ stack # <<>> /\ Head(stack) # <<>>
          /\ stack' = Pushed(stack) /\ roots' = roots
          /\ types' = types \cup OfKind({Head(Head(stack))}, Scalar \cup Derived)
      BY <1>2, <2>3 DEF Visit, Pushed, TypesOK
    <3>2. stack' \in Seq(Seq(Type)) /\ Head(Head(stack)) \in Type
      BY <3>1, Visited
    <3>3. types' \subseteq Type
      BY <1>2, <3>1, <3>2 DEF OfKind, TypesOK
    <3>. QED  BY <1>2, <2>3, <3>1, <3>2, <3>3, VisitWalk, VisitStack
  <2>. QED  BY <2>1, <2>2, <2>3
<1>4. TypesOK'
  BY <1>1, <1>2, <1>3 DEF TypesOK
<1>5. printed' = {} /\ dangling' = {} /\ unimported' = {}
  BY <1>1, <1>3 DEF WalkOK
<1>6. FoundOK' /\ VectorsOK' /\ PrintedOK' /\ CheckedOK' /\ CrashOK'
  BY <1>1, <1>5, PhaseFacts DEF FoundOK, VectorsOK, PrintedOK, CheckedOK, CrashOK
<1>7. ImportsResolve' /\ NamesImported'
  BY <1>5 DEF ImportsResolve, NamesImported
<1>. QED  BY <1>3, <1>4, <1>6, <1>7 DEF DiscoveryInv

LEMMA OverflowStep ==
  ASSUME DiscoveryInv, StackOverflow
  PROVE  DiscoveryInv'
<1>1. pc = "walk" /\ pc' = "crashed" /\ mod' = mod /\ output' = output /\ types' = types
      /\ roots' = roots /\ stack' = stack
  BY DEF StackOverflow
<1>2. ~Printable
  BY OverflowPrintable DEF DiscoveryInv
<1>3. TypesOK'
  BY <1>1 DEF TypesOK, DiscoveryInv
<1>4. WalkOK' /\ StackOK' /\ FoundOK' /\ VectorsOK' /\ PrintedOK' /\ CheckedOK'
  BY <1>1, PhaseFacts DEF WalkOK, StackOK, FoundOK, VectorsOK, PrintedOK, CheckedOK
<1>5. CrashOK'
  BY <1>1, <1>2, ModuleStays DEF CrashOK
<1>6. ImportsResolve' /\ NamesImported'
  BY <1>1, ReportsStay DEF DiscoveryInv, output
<1>. QED  BY <1>3, <1>4, <1>5, <1>6 DEF DiscoveryInv

LEMMA AddPtrIntStep ==
  ASSUME DiscoveryInv, AddPtrInt
  PROVE  DiscoveryInv'
<1>1. /\ pc = "walk" /\ pc' = "vectors" /\ mod' = mod
      /\ printed' = printed \cup MemoryTheories /\ dangling' = dangling /\ unimported' = unimported
  BY DEF AddPtrInt, MemoryTheories
<1>2. TypesOK' /\ FoundOK' /\ VectorsOK'
  BY EndWalk DEF DiscoveryInv
<1>3. printed = {} /\ dangling = {} /\ unimported = {}
  BY <1>1 DEF DiscoveryInv, WalkOK
<1>4. WalkOK' /\ StackOK' /\ CheckedOK' /\ CrashOK'
  BY <1>1, PhaseFacts DEF WalkOK, StackOK, CheckedOK, CrashOK
<1>5. PrintedOK'
  BY <1>1, <1>3, PhaseFacts DEF PrintedOK, MemoryTheories, CommonTheories
<1>6. ImportsResolve' /\ NamesImported'
  BY <1>1, <1>3 DEF ImportsResolve, NamesImported
<1>. QED  BY <1>2, <1>4, <1>5, <1>6 DEF DiscoveryInv

LEMMA AddPtrIntVectorStep ==
  ASSUME DiscoveryInv, AddPtrIntVector
  PROVE  DiscoveryInv'
<1>1. pc = "vectors" /\ pc' = "vectors" /\ mod' = mod /\ output' = output /\ types \subseteq types'
  BY DEF AddPtrIntVector
<1>2. TypesOK' /\ FoundOK' /\ VectorsOK'
  BY AddVector DEF DiscoveryInv
<1>3. WalkOK' /\ StackOK' /\ CheckedOK' /\ CrashOK'
  BY <1>1, PhaseFacts DEF WalkOK, StackOK, CheckedOK, CrashOK
<1>4. PrintedOK'
  BY <1>1, PhaseFacts DEF PrintedOK, DiscoveryInv, output
<1>5. ImportsResolve' /\ NamesImported'
  BY <1>1, ReportsStay DEF DiscoveryInv, output
<1>. QED  BY <1>2, <1>3, <1>4, <1>5 DEF DiscoveryInv

LEMMA EndVectorsStep ==
  ASSUME DiscoveryInv, EndVectors
  PROVE  DiscoveryInv'
<1>1. pc = "vectors" /\ pc' = "scalars" /\ mod' = mod /\ output' = output /\ types' = types
  BY DEF EndVectors
<1>2. TypesStay
  BY PhaseFacts DEF EndVectors, TypesStay
<1>3. TypesOK' /\ WalkOK' /\ StackOK' /\ FoundOK' /\ VectorsOK'
  BY <1>2, TypesStayOK
<1>4. CheckedOK' /\ CrashOK'
  BY <1>1, PhaseFacts DEF CheckedOK, CrashOK
<1>5. PrintedOK'
  BY <1>1, PhaseFacts DEF PrintedOK, DiscoveryInv, output
<1>6. ImportsResolve' /\ NamesImported'
  BY <1>1, ReportsStay DEF DiscoveryInv, output
<1>. QED  BY <1>3, <1>4, <1>5, <1>6 DEF DiscoveryInv

LEMMA AddScalarTypesStep ==
  ASSUME DiscoveryInv, AddScalarTypes
  PROVE  DiscoveryInv'
<1>1. pc = "scalars" /\ mod' = mod /\ types' = types /\ roots' = roots /\ stack' = stack
      /\ vectors' = vectors /\ pc \in AfterWalk
  BY PhaseFacts DEF AddScalarTypes
<1>2. TypesOK /\ FoundOK
  BY DEF DiscoveryInv
<1>3. CASE OfKind(types, {"oddfloat"}) # {}
  <2>1. pc' = "crashed" /\ output' = output
    BY <1>3 DEF AddScalarTypes
  <2>2. PICK t \in types : Kind[t] = "oddfloat"
    BY <1>3 DEF OfKind
  <2>3. t \in AllFound
    BY <1>1, <1>2, <2>2, FoundTypes, ForPointers
  <2>4. t \in AllReached /\ t \in Type
    BY <1>2, <2>3, AllReachedFacts DEF TypesOK
  <2>5. ~Nameable(t) /\ Kind[t] \in Scalar
    BY <2>2, <2>4, SpelledFacts DEF Nameable, Derived, Scalar
  <2>6. ~Printable
    BY <2>4, <2>5, NotPrintable
  <2>7. TypesStay
    BY <1>1, <2>1 DEF TypesStay
  <2>. QED  BY <2>1, <2>6, <2>7, CrashStep
<1>4. CASE OfKind(types, {"oddfloat"}) = {}
  <2>1. /\ pc' = "derived"
        /\ printed' = printed \cup OfKind(types, Scalar)
             \cup {"LLVMInt", "LLVMFloat", "LLVMPtr", "LLVMArray", "LLVMVector"}
        /\ dangling' = dangling \cup
             (IF OfKind(types, {"ptr"}) = {} THEN {} ELSE {<<"LLVMPtr", t>> : t \in {PtrInt} \ types})
        /\ unimported' = unimported
    BY <1>4 DEF AddScalarTypes
  <2>2. TypesStay
    BY <1>1, <2>1, PhaseFacts DEF TypesStay
  <2>3. TypesOK' /\ WalkOK' /\ StackOK' /\ FoundOK' /\ VectorsOK'
    BY <2>2, TypesStayOK
  <2>4. CheckedOK' /\ CrashOK'
    BY <2>1, PhaseFacts DEF CheckedOK, CrashOK
  <2>5. PrintedOK'
    <3>1. MemoryTheories \subseteq printed' /\ OfKind(types', Scalar) \subseteq printed'
      BY <1>1, <2>1 DEF DiscoveryInv, PrintedOK
    <3>2. printed' \subseteq Type \cup CommonTheories
      <4>1. printed \subseteq Type \cup CommonTheories
        BY <1>1, PhaseFacts DEF DiscoveryInv, PrintedOK
      <4>2. OfKind(types, Scalar) \subseteq Type
        BY <1>2 DEF OfKind, TypesOK
      <4>. QED  BY <2>1, <4>1, <4>2 DEF CommonTheories
    <3>. QED  BY <2>1, <3>1, <3>2, PhaseFacts DEF PrintedOK
  <2>6. dangling' = dangling
    BY <1>1, <1>2, <2>1 DEF FoundOK
  <2>7. ImportsResolve' /\ NamesImported'
    BY <1>1, <2>1, <2>6, ReportsStay DEF DiscoveryInv
  <2>. QED  BY <2>3, <2>4, <2>5, <2>7 DEF DiscoveryInv
<1>. QED  BY <1>3, <1>4

LEMMA CommonTheoryFacts ==
  \A t \in Type : CommonTheory(t) \subseteq {"LLVMPtr", "Pointer", "LLVMArray", "LLVMVector"}
BY DEF CommonTheory

LEMMA AddDerivedTypeStep ==
  ASSUME DiscoveryInv, AddDerivedType
  PROVE  DiscoveryInv'
<1>1. pc = "derived" /\ mod' = mod /\ types' = types /\ roots' = roots /\ stack' = stack
      /\ vectors' = vectors /\ pc \in AfterWalk /\ pc \in AfterScalars
  BY PhaseFacts DEF AddDerivedType
<1>2. TypesOK /\ FoundOK /\ PrintedOK
  BY DEF DiscoveryInv
<1>3. PICK t \in Waiting : In(Parts[t]) \cap Waiting = {}
                           /\ Emit(t, In(Parts[t]) \cup CommonTheory(t), {}, pc)
  BY DEF AddDerivedType
<1>4. t \in types /\ t \in Type /\ Kind[t] \in Derived
  BY <1>2, <1>3 DEF Waiting, OfKind, TypesOK
<1>5. In(Parts[t]) \subseteq Type
  BY <1>4, PartsTypes
<1>. DEFINE imports == In(Parts[t]) \cup CommonTheory(t)
<1>6. imports \cap Type = In(Parts[t])
  BY <1>4, <1>5, CommonTheoryFacts, TypesAreNoTheories DEF CommonTheories
<1>7. CASE \/ \E u \in (imports \cup {}) \cap Type : ~Nameable(u)
           \/ \E u \in imports \cap Type : Recursive(u)
  <2>1. pc' = "crashed" /\ output' = output
    BY <1>3, <1>7 DEF Emit
  <2>2. PICK u \in In(Parts[t]) : ~Nameable(u) \/ Recursive(u)
    BY <1>6, <1>7
  <2>3. u \in Type
    BY <1>5
  <2>4. t \in AllFound
    <3>1. CASE t \in PtrIntVecs
      BY <2>2, <3>1, ForPointers, PlainTypes
    <3>2. CASE t \notin PtrIntVecs
      BY <1>1, <1>2, <1>4, <3>2, ForPointers DEF FoundOK, Derived
    <3>. QED  BY <3>1, <3>2
  <2>5. t \in AllReached /\ u \in AllReached
    BY <1>2, <2>2, <2>4, AllReachedFacts DEF TypesOK
  <2>6. ~Printable
    <3>1. CASE Recursive(u) \/ Kind[u] \in Scalar \cup Derived
      BY <2>2, <2>5, <3>1, NotPrintable
    <3>2. CASE Kind[u] \notin Scalar \cup Derived
      <4>1. Kind[t] = "ptr"
        BY <1>4, <2>2, <3>2, TypeAssumption DEF TypeAssumption
      <4>2. u \in Spelled[t]
        BY <1>4, <2>2, <4>1, SpelledFacts
      <4>3. ~Nameable(t)
        BY <3>2, <4>2 DEF Nameable, Scalar
      <4>. QED  BY <1>4, <2>5, <4>3, NotPrintable
    <3>. QED  BY <3>1, <3>2
  <2>7. TypesStay
    BY <1>1, <2>1 DEF TypesStay
  <2>. QED  BY <2>1, <2>6, <2>7, CrashStep
<1>8. CASE ~(\/ \E u \in (imports \cup {}) \cap Type : ~Nameable(u)
             \/ \E u \in imports \cap Type : Recursive(u))
  <2>1. /\ pc' = "derived" /\ printed' = printed \cup {t}
        /\ dangling' = dangling \cup {<<t, i>> : i \in imports \ printed}
        /\ unimported' = unimported \cup {<<t, n>> : n \in {} \ imports}
    BY <1>1, <1>3, <1>8 DEF Emit
  <2>2. TypesStay
    BY <1>1, <2>1, PhaseFacts DEF TypesStay
  <2>3. TypesOK' /\ WalkOK' /\ StackOK' /\ FoundOK' /\ VectorsOK'
    BY <2>2, TypesStayOK
  <2>4. CheckedOK' /\ CrashOK'
    BY <2>1, PhaseFacts DEF CheckedOK, CrashOK
  <2>5. PrintedOK'
    BY <1>1, <1>2, <1>4, <2>1, PhaseFacts DEF PrintedOK
  <2>6. ASSUME NEW u \in In(Parts[t]) PROVE u \in printed
    <3>1. Nameable(u)
      BY <1>6, <1>8
    <3>2. Kind[u] \in {"int", "float"} \cup Derived
      BY <1>4, <3>1, NameableParts
    <3>3. u \in types
      BY <1>1, <1>2, <1>4, <3>2, FoundTypes DEF Scalar
    <3>4. CASE Kind[u] \in Derived
      BY <1>3, <3>3, <3>4 DEF Waiting, OfKind
    <3>5. CASE Kind[u] \in Scalar
      BY <1>1, <1>2, <3>3, <3>5 DEF PrintedOK, OfKind
    <3>. QED  BY <3>2, <3>4, <3>5 DEF Scalar
  <2>7. CommonTheory(t) \subseteq printed
    BY <1>1, <1>2, <1>4, CommonTheoryFacts DEF PrintedOK, MemoryTheories
  <2>8. dangling' = dangling /\ unimported' = unimported
    BY <2>1, <2>6, <2>7
  <2>9. ImportsResolve' /\ NamesImported'
    BY <1>1, <2>8, ReportsStay DEF DiscoveryInv
  <2>. QED  BY <2>3, <2>4, <2>5, <2>9 DEF DiscoveryInv
<1>. QED  BY <1>7, <1>8

LEMMA EndDerivedTypesStep ==
  ASSUME DiscoveryInv, EndDerivedTypes
  PROVE  DiscoveryInv'
<1>1. pc = "derived" /\ pc' = "baddr" /\ mod' = mod /\ types' = types /\ output' = output
      /\ pc \in AfterWalk
  BY PhaseFacts DEF EndDerivedTypes
<1>2. TypesStay
  BY PhaseFacts DEF EndDerivedTypes, TypesStay
<1>3. TypesOK' /\ WalkOK' /\ StackOK' /\ FoundOK' /\ VectorsOK'
  BY <1>2, TypesStayOK
<1>4. CheckedOK' /\ CrashOK'
  BY <1>1, PhaseFacts DEF CheckedOK, CrashOK
<1>5. OfKind(types, Derived) \subseteq printed
  <2>1. Waiting = {}
    BY <1>1, NoneWaits DEF DiscoveryInv, EndDerivedTypes
  <2>. QED  BY <2>1 DEF Waiting
<1>6. PrintedOK'
  BY <1>1, <1>5, PhaseFacts DEF PrintedOK, DiscoveryInv, output
<1>7. ImportsResolve' /\ NamesImported'
  BY <1>1, ReportsStay DEF DiscoveryInv, output
<1>. QED  BY <1>3, <1>4, <1>6, <1>7 DEF DiscoveryInv

LEMMA addBlockAddressTypeStep ==
  ASSUME DiscoveryInv, addBlockAddressType
  PROVE  DiscoveryInv'
<1>1. pc = "baddr" /\ mod' = mod /\ types' = types /\ roots' = roots /\ stack' = stack
      /\ vectors' = vectors /\ pc \in AfterWalk /\ pc \in AfterDerived
  BY PhaseFacts DEF addBlockAddressType
<1>2. TypesOK /\ FoundOK /\ PrintedOK
  BY DEF DiscoveryInv
<1>3. BytePtr \in Type /\ Nameable(BytePtr) /\ ~Recursive(BytePtr) /\ Kind[BytePtr] = "ptr"
  BY ForPointers
<1>4. (\E k \in DOMAIN mod.functions : UsesBaddr(mod.functions[k])) <=> \E f \in Functions : UsesBaddr(f)
  BY DEF Functions, In
<1>5. printed \subseteq Type \cup CommonTheories
  BY <1>1, <1>2, PhaseFacts DEF PrintedOK
<1>6. pc' = "globals" /\ unimported' = unimported
      /\ printed \subseteq printed' /\ printed' \subseteq printed \cup {"BlockAddress"}
      /\ ((\E f \in Functions : UsesBaddr(f)) => "BlockAddress" \in printed')
      /\ dangling' \subseteq dangling \cup {<<"BlockAddress", i>> : i \in {BytePtr} \ printed}
  <2>1. CASE \E f \in Functions : UsesBaddr(f)
    <3>1. Emit("BlockAddress", {BytePtr}, {BytePtr}, "globals")
      BY <1>4, <2>1 DEF addBlockAddressType
    <3>2. /\ ~(\E t \in ({BytePtr} \cup {BytePtr}) \cap Type : ~Nameable(t))
          /\ ~(\E t \in {BytePtr} \cap Type : Recursive(t))
      BY <1>3
    <3>3. /\ pc' = "globals" /\ printed' = printed \cup {"BlockAddress"}
          /\ dangling' = dangling \cup {<<"BlockAddress", i>> : i \in {BytePtr} \ printed}
          /\ unimported' = unimported \cup {<<"BlockAddress", n>> : n \in {BytePtr} \ {BytePtr}}
      BY <3>1, <3>2 DEF Emit
    <3>4. unimported' = unimported
      BY <3>3
    <3>. QED  BY <3>3, <3>4
  <2>2. CASE ~(\E f \in Functions : UsesBaddr(f))
    BY <1>4, <2>2 DEF addBlockAddressType, output
  <2>. QED  BY <2>1, <2>2
<1>7. TypesStay
  BY <1>1, <1>6, PhaseFacts DEF TypesStay
<1>8. TypesOK' /\ WalkOK' /\ StackOK' /\ FoundOK' /\ VectorsOK'
  BY <1>7, TypesStayOK
<1>9. CheckedOK' /\ CrashOK'
  BY <1>6, PhaseFacts DEF CheckedOK, CrashOK
<1>10. PrintedOK'
  <2>1. Functions' = Functions
    BY <1>1, ModuleStays
  <2>. QED  BY <1>1, <1>2, <1>5, <1>6, <2>1, PhaseFacts DEF PrintedOK, CommonTheories
<1>11. ASSUME NEW f \in Functions, BodyUsesBaddr(f) PROVE BytePtr \in printed
  <2>1. BytePtr \in ModuleRoots(mod)
    BY <1>2, <1>11, ModuleFacts DEF TypesOK
  <2>2. BytePtr \in AllFound
    BY <1>2, <1>3, <2>1, AllReachedFacts DEF TypesOK, Derived
  <2>. QED  BY <1>1, <1>2, <2>2, TypesPrinted DEF FoundOK
<1>12. \A d \in dangling' : d \in dangling \/ ImportExcused(d)
  <2>1. SUFFICES ASSUME NEW d, d = <<"BlockAddress", BytePtr>>, BytePtr \notin printed
                 PROVE  ImportExcused(d)
    BY <1>6
  <2>. QED  BY <1>11, <2>1 DEF ImportExcused
<1>13. ImportsResolve' /\ NamesImported'
  BY <1>1, <1>6, <1>12, ReportsStay DEF DiscoveryInv
<1>. QED  BY <1>8, <1>9, <1>10, <1>13 DEF DiscoveryInv

LEMMA addGlobalsStep ==
  ASSUME DiscoveryInv, addGlobals
  PROVE  DiscoveryInv'
<1>. DEFINE found == Found(TypesOf(mod.globals))
            inits == {mod.globals[k].init : k \in DOMAIN mod.globals}
            imports == {"State", "Pointer", "Alloc"} \cup found
            addresses == TypesOf(mod.globals)
            names == addresses \cup Named(Pointees(addresses)) \cup {"Alloc"}
                       \cup (IF "baddr" \in inits THEN {"BlockAddress"} ELSE {})
<1>1. pc = "globals" /\ mod' = mod /\ types' = types /\ roots' = roots /\ stack' = stack
      /\ vectors' = vectors /\ pc \in AfterWalk /\ pc \in AfterDerived
  BY PhaseFacts DEF addGlobals
<1>2. TypesOK /\ FoundOK /\ PrintedOK
  BY DEF DiscoveryInv
<1>3. found \subseteq AllFound /\ found \subseteq AllReached /\ found \subseteq Type
  <2>1. TypesOf(mod.globals) \subseteq ModuleRoots(mod)
    BY <1>2, ModuleFacts DEF TypesOK
  <2>2. found \subseteq AllFound
    BY <2>1, ReachedMonotone DEF Found, OfKind, AllFound
  <2>. QED  BY <1>2, <2>2, AllReachedFacts DEF TypesOK
<1>4. \A t \in found : Kind[t] \in Scalar \cup Derived
  BY DEF Found, OfKind
<1>5. /\ addresses \subseteq found /\ Named(Pointees(addresses)) \subseteq found
      /\ imports \cap Type = found /\ names \cap Type \subseteq found
  <2>1. addresses \in SUBSET Type /\ addresses \in SUBSET addresses
    BY <1>2, ModuleFacts DEF TypesOK
  <2>2. Named(Pointees(addresses)) \subseteq found
    BY <2>1, NamedFound
  <2>3. addresses \subseteq found
    BY <1>2, <2>1, ModuleFacts, FoundFacts DEF TypesOK, OfKind, Derived
  <2>. QED  BY <1>3, <2>2, <2>3, TypesAreNoTheories DEF CommonTheories
<1>6. imports \subseteq printed
  <2>1. found \subseteq printed
    BY <1>1, <1>2, <1>3, TypesPrinted DEF FoundOK
  <2>. QED  BY <1>1, <1>2, <2>1 DEF PrintedOK, MemoryTheories
<1>7. printed \subseteq Type \cup CommonTheories
  BY <1>1, <1>2, PhaseFacts DEF PrintedOK
<1>8. names \ imports \subseteq {"BlockAddress"}
  BY <1>5
<1>9. "none" \notin inits => Emit("Globals", imports, names, "functions")
  BY DEF addGlobals
<1>10. "none" \in inits => pc' = "crashed" /\ output' = output /\ ~Printable
  BY DEF addGlobals, output, Printable
<1>11. "none" \notin inits => \A k \in DOMAIN mod.globals : mod.globals[k].init # "none"
  OBVIOUS
<1>. HIDE DEF imports, names, inits
<1>12. CASE "none" \in inits
  <2>1. TypesStay
    BY <1>1, <1>10, <1>12 DEF TypesStay
  <2>. QED  BY <1>10, <1>12, <2>1, CrashStep
<1>13. CASE "none" \notin inits /\ ~(/\ \A t \in (imports \cup names) \cap Type : Nameable(t)
                                     /\ \A t \in imports \cap Type : ~Recursive(t))
  <2>1. pc' = "crashed" /\ output' = output
    BY <1>9, <1>13 DEF Emit
  <2>2. PICK t \in found : ~Nameable(t) \/ Recursive(t)
    BY <1>5, <1>13
  <2>3. ~Printable
    BY <1>3, <1>4, <2>2, NotPrintable
  <2>4. TypesStay
    BY <1>1, <2>1 DEF TypesStay
  <2>. QED  BY <2>1, <2>3, <2>4, CrashStep
<1>14. CASE /\ "none" \notin inits
            /\ \A t \in (imports \cup names) \cap Type : Nameable(t)
            /\ \A t \in imports \cap Type : ~Recursive(t)
  <2>1. /\ pc' = "functions" /\ printed' = printed \cup {"Globals"}
        /\ dangling' = dangling \cup {<<"Globals", i>> : i \in imports \ printed}
        /\ unimported' = unimported \cup {<<"Globals", n>> : n \in names \ imports}
    BY <1>9, <1>14 DEF Emit
  <2>2. TypesStay
    BY <1>1, <2>1, PhaseFacts DEF TypesStay
  <2>3. TypesOK' /\ WalkOK' /\ StackOK' /\ FoundOK' /\ VectorsOK'
    BY <2>2, TypesStayOK
  <2>4. CrashOK'
    BY <2>1 DEF CrashOK
  <2>5. Functions' = Functions /\ mod.globals' = mod.globals /\ TypesOf(mod.globals)' = TypesOf(mod.globals)
    BY <1>1, ModuleStays
  <2>6. PrintedOK'
    BY <1>1, <1>2, <2>1, <2>5, PhaseFacts DEF PrintedOK
  <2>7. CheckedOK'
    <3>1. \A t \in found : Nameable(t)
      BY <1>5, <1>14
    <3>2. \A f \in Functions : f.name \notin printed'
      BY <1>2, <1>7, <2>1, ModuleFacts DEF TypesOK, CommonTheories
    <3>. QED  BY <1>1, <1>11, <1>14, <2>1, <2>5, <3>1, <3>2 DEF CheckedOK
  <2>8. dangling' = dangling
    BY <1>6, <2>1
  <2>9. \A u \in unimported' : u \in unimported \/ NameExcused(u)
    BY <1>8, <2>1 DEF NameExcused
  <2>10. ImportsResolve' /\ NamesImported'
    BY <1>1, <2>8, <2>9, ReportsStay DEF DiscoveryInv
  <2>. QED  BY <2>3, <2>4, <2>6, <2>7, <2>10 DEF DiscoveryInv
<1>. QED  BY <1>12, <1>13, <1>14

(* What the nodes of clauses import and name.                              *)
LEMMA NodeFacts ==
  ASSUME NEW nodes, \A n \in nodes : IsNode(n)
  PROVE  /\ NodeImports(nodes) \cap Type = Found(UNION {n.finds : n \in nodes})
         /\ NodeImports(nodes) \subseteq Type \cup NodeTheories
         /\ "BlockAddress" \in NodeImports(nodes) => \E n \in nodes : n.usesBaddr
         /\ NodeNames(nodes) \subseteq Type \cup NodeTheories
         /\ \A x \in NodeNames(nodes) \ NodeImports(nodes) :
              (x \in Type => Nameable(x)) => \E n \in nodes : x \in Missed(n)
<1>. DEFINE finds == UNION {n.finds : n \in nodes}
            needed == UNION {n.importsNeeded : n \in nodes}
            alloc == IF \E n \in nodes : n.usesAlloc THEN {"Alloc"} ELSE {}
            baddr == IF \E n \in nodes : n.usesBaddr THEN {"BlockAddress"} ELSE {}
<1>1. NodeImports(nodes) = Found(finds) \cup alloc \cup baddr \cup needed
  BY DEF NodeImports
<1>2. finds \subseteq Type /\ needed \subseteq {"Pointer", "MemorySet"}
  BY DEF IsNode
<1>3. Found(finds) \subseteq Type
  BY <1>2, ReachedFacts DEF Found, OfKind
<1>4. Type \cap NodeTheories = {}
  BY TypesAreNoTheories DEF NodeTheories, CommonTheories
<1>5. NodeNames(nodes) \subseteq Type \cup NodeTheories
  BY DEF NodeNames, IsNode
<1>6. ASSUME NEW x \in NodeNames(nodes), x \notin NodeImports(nodes), x \in Type => Nameable(x)
      PROVE  \E n \in nodes : x \in Missed(n)
  <2>1. PICK n \in nodes : x \in n.names
    BY DEF NodeNames
  <2>2. IsNode(n)
    OBVIOUS
  <2>3. n.usesAlloc => "Alloc" \in NodeImports(nodes)
    BY <1>1
  <2>4. n.usesBaddr => "BlockAddress" \in NodeImports(nodes)
    BY <1>1
  <2>5. n.importsNeeded \subseteq NodeImports(nodes)
    BY <1>1
  <2>6. x \in Type \/ (x = "BlockAddress" /\ n.class = "constant")
    <3>1. x \in Type \/ x = "Alloc" \/ x = "BlockAddress" \/ x \in {"Pointer", "MemorySet"}
      BY <1>5 DEF NodeTheories
    <3>2. x # "Alloc"
      BY <1>6, <2>1, <2>2, <2>3 DEF IsNode
    <3>3. x \notin {"Pointer", "MemorySet"}
      BY <1>6, <2>1, <2>2, <2>5 DEF IsNode
    <3>4. ASSUME x = "BlockAddress", n.class # "constant" PROVE FALSE
      <4>1. "BlockAddress" \in n.names /\ "BlockAddress" \notin NodeImports(nodes)
        BY <1>6, <2>1, <3>4
      <4>2. n.usesBaddr
        BY <2>2, <3>4, <4>1 DEF IsNode
      <4>. QED  BY <2>4, <4>1, <4>2
    <3>. QED  BY <3>1, <3>2, <3>3, <3>4
  <2>7. CASE x \in Type
    <3>1. Kind[x] \in Scalar \cup Derived
      BY <1>6, <2>7, SpelledFacts DEF Nameable, Scalar
    <3>2. Found(n.finds) \subseteq Found(finds)
      BY ReachedMonotone DEF Found, OfKind
    <3>3. x \notin Found(n.finds)
      BY <1>1, <1>6, <3>2
    <3>4. n.class = "cast"
      BY <2>1, <2>2, <2>7, <3>1, <3>3 DEF IsNode
    <3>. QED  BY <2>1, <2>7, <3>3, <3>4 DEF Missed
  <2>8. CASE x = "BlockAddress" /\ n.class = "constant"
    BY <2>8 DEF Missed
  <2>. QED  BY <2>6, <2>7, <2>8
<1>7. alloc \subseteq {"Alloc"} /\ baddr \subseteq {"BlockAddress"}
      /\ ("BlockAddress" \in baddr => \E n \in nodes : n.usesBaddr)
  OBVIOUS
<1>. HIDE DEF finds, needed, alloc, baddr
<1>8. NodeImports(nodes) \cap Type = Found(finds)
  BY <1>1, <1>2, <1>3, <1>4, <1>7 DEF NodeTheories
<1>9. "BlockAddress" \in NodeImports(nodes) => \E n \in nodes : n.usesBaddr
  BY <1>1, <1>2, <1>3, <1>4, <1>7 DEF NodeTheories
<1>10. NodeImports(nodes) \subseteq Type \cup NodeTheories
  BY <1>1, <1>2, <1>3, <1>7 DEF NodeTheories
<1>. QED  BY <1>5, <1>6, <1>8, <1>9, <1>10 DEF finds

LEMMA EndFunctionsStep ==
  ASSUME DiscoveryInv, EndFunctions
  PROVE  DiscoveryInv'
<1>1. pc = "functions" /\ pc' \in {"goals", "done"} /\ mod' = mod /\ types' = types /\ output' = output
      /\ \A k \in DOMAIN mod.functions : mod.functions[k].name \in printed
  BY DEF EndFunctions
<1>2. TypesStay
  BY PhaseFacts DEF EndFunctions, TypesStay
<1>3. TypesOK' /\ WalkOK' /\ StackOK' /\ FoundOK' /\ VectorsOK'
  BY <1>2, TypesStayOK
<1>4. CrashOK'
  BY <1>1 DEF CrashOK
<1>5. Functions' = Functions /\ (\A f : Checked(f)' <=> Checked(f))
  BY <1>1, ModuleStays
<1>6. PrintedOK'
  BY <1>1, <1>5, PhaseFacts DEF PrintedOK, DiscoveryInv, output
<1>7. CheckedOK'
  <2>1. \A f \in Functions : f.name \in printed
    BY <1>1 DEF Functions, In
  <2>2. TypesOf(mod.globals)' = TypesOf(mod.globals)
    BY <1>1
  <2>. QED  BY <1>1, <1>5, <2>1, <2>2, PhaseFacts DEF CheckedOK, DiscoveryInv, output
<1>8. ImportsResolve' /\ NamesImported'
  BY <1>1, ReportsStay DEF DiscoveryInv, output
<1>. QED  BY <1>3, <1>4, <1>6, <1>7, <1>8 DEF DiscoveryInv

(* The clauses at hand when a function is printed.                         *)
LEMMA ClauseFacts ==
  ASSUME mod \in Modules, NEW f \in Functions
  PROVE  /\ \A n \in f.clauses \cup CalleeClauses(f) : IsNode(n) /\ n \in Clauses
         /\ \A n \in CalleeClauses(f) : "MemorySet" \in n.importsNeeded
         /\ CalleeClauses(f) # {} => "MemorySet" \in NodeImports(CalleeClauses(f))
<1>1. (\A n \in f.clauses : IsNode(n)) /\ CalleeClauses(f) \subseteq Sets
  BY ModuleFacts
<1>2. \A n \in CalleeClauses(f) : IsNode(n) /\ "MemorySet" \in n.importsNeeded
  BY <1>1, SetsAreNodes
<1>3. CalleeClauses(f) # {} => "MemorySet" \in NodeImports(CalleeClauses(f))
  BY <1>2 DEF NodeImports
<1>4. \A n \in f.clauses \cup CalleeClauses(f) : n \in Clauses
  BY DEF Clauses
<1>. QED  BY <1>1, <1>2, <1>3, <1>4

LEMMA ConversionFacts ==
  ASSUME NEW i
  PROVE  /\ \A x \in ConversionImports(i) :
              x = PtrInt \/ \E v \in Conversion(i) \cap DOMAIN PtrIntVec : x = PtrIntVec[v]
         /\ ConversionImports(i) \subseteq {PtrInt} \cup PtrIntVecs
         /\ Conversion(i) \cap DOMAIN PtrIntVec = {} => ConversionImports(i) = {PtrInt}
         /\ PtrInt \in ConversionImports(i) => Conversion(i) \cap DOMAIN PtrIntVec = {}
<1>1. PtrInt \notin PtrIntVecs
  BY ForPointers
<1>. QED  BY <1>1 DEF ConversionImports, PtrIntVecs

(* What an instruction names: what is found for its function, what that    *)
(* imports for opcodes, the integers for pointers, and the block addresses *)
(* that getTypeInfo does not look for.                                     *)
LEMMA InstructionFacts ==
  ASSUME mod \in Modules, NEW f \in Functions, NEW k \in DOMAIN f.body,
         NEW x \in InstructionNames(f.body[k])
  PROVE  \/ x \in Found(FunctionRoots(f))
         \/ x \in {"Pointer", "Alloc", "BlockAddress"} /\ x \in FunctionImports(f)
         \/ x = "BlockAddress" /\ \E v \in Operands(f) : v.kind = "nested"
         \/ k \in Conversions(f) /\ x \in ConversionNames(f.body[k])
<1>. DEFINE i == f.body[k]
<1>1. /\ FunctionRoots(f) \in SUBSET Type /\ InstructionRoots(i) \in SUBSET FunctionRoots(f)
      /\ Operands(f) \subseteq Value
  BY ModuleFacts
<1>2. i.op \in Ops(f) /\ In(i.operands) \subseteq Operands(f)
  BY DEF Ops, Operands
<1>3. TypesOf(i.operands) \in SUBSET FunctionRoots(f)
  BY <1>1 DEF InstructionRoots
<1>4. CASE x \in Named(InstructionRoots(i)) \/ x \in Named(Pointees(Inside(TypesOf(i.operands))))
  BY <1>1, <1>3, <1>4, NamedFound
<1>5. CASE x = "Pointer" /\ i.op \in {"cast", "gep"}
  BY <1>2, <1>5 DEF FunctionImports
<1>6. CASE x = "Alloc" /\ i.op = "alloca"
  BY <1>2, <1>6 DEF FunctionImports
<1>7. CASE x = "BlockAddress" /\ i.op = "indirectbr"
  BY <1>2, <1>7 DEF FunctionImports, BodyUsesBaddr
<1>8. CASE x = "BlockAddress" /\ \E v \in In(i.operands) : v.kind # "plain"
  <2>1. PICK v \in Operands(f) : v.kind # "plain"
    BY <1>2, <1>8
  <2>2. v.kind = "baddr" \/ v.kind = "nested"
    BY <1>1, <2>1 DEF Value
  <2>3. CASE v.kind = "baddr"
    <3>1. BodyUsesBaddr(f)
      BY <2>3 DEF BodyUsesBaddr
    <3>. QED  BY <1>8, <3>1 DEF FunctionImports
  <2>. QED  BY <1>8, <2>2, <2>3
<1>9. CASE i.op = "ptrint" /\ x \in ConversionNames(i)
  BY <1>9 DEF Conversions
<1>10. \/ x \in Named(InstructionRoots(i)) \/ x \in Named(Pointees(Inside(TypesOf(i.operands))))
       \/ x = "Pointer" /\ i.op \in {"cast", "gep"}
       \/ x = "Alloc" /\ i.op = "alloca"
       \/ x = "BlockAddress" /\ (i.op = "indirectbr" \/ \E v \in In(i.operands) : v.kind # "plain")
       \/ i.op = "ptrint" /\ x \in ConversionNames(i)
  BY DEF InstructionNames
<1>. QED  BY <1>4, <1>5, <1>6, <1>7, <1>8, <1>9, <1>10

(* What a function names but for instructions.                             *)
LEMMA SignatureFacts ==
  ASSUME mod \in Modules, NEW f \in Functions
  PROVE  Named({f.ret} \cup In(f.args)) \subseteq Found(FunctionRoots(f))
<1>1. FunctionRoots(f) \in SUBSET Type
  BY ModuleFacts
<1>2. {f.ret} \cup In(f.args) \in SUBSET FunctionRoots(f)
  BY DEF FunctionRoots
<1>. QED  BY <1>1, <1>2, NamedFound

LEMMA PrintableFunction ==
  ASSUME mod \in Modules, Printable, NEW f \in Functions
  PROVE  Checked(f)
<1>. DEFINE R == ModuleRoots(mod) \cup (UNION {n.finds : n \in Clauses})
            nodes == f.clauses \cup CalleeClauses(f)
            Good(t) == Nameable(t) /\ ~Recursive(t)
<1>1. /\ \A t \in Reached(R) : ~Recursive(t) /\ (Kind[t] \in Scalar \cup Derived => Nameable(t))
      /\ \A n \in Clauses : \A t \in n.names \cap Type : Nameable(t)
  BY DEF Printable
<1>2. \A S \in SUBSET R : \A t \in Found(S) : Good(t)
  BY <1>1, ReachedMonotone DEF Found, OfKind
<1>3. \A n \in nodes : IsNode(n) /\ n \in Clauses
  BY ClauseFacts
<1>4. \A t \in Found(FunctionRoots(f)) : Good(t)
  BY <1>2, ModuleFacts
<1>5. ASSUME NEW N \in SUBSET nodes
      PROVE  /\ \A t \in NodeImports(N) \cap Type : Good(t)
             /\ \A t \in NodeNames(N) \cap Type : Nameable(t)
  <2>1. UNION {n.finds : n \in N} \in SUBSET R
    BY <1>3, <1>5
  <2>2. NodeImports(N) \cap Type = Found(UNION {n.finds : n \in N})
    BY <1>3, <1>5, NodeFacts
  <2>3. \A t \in NodeNames(N) \cap Type : Nameable(t)
    BY <1>1, <1>3, <1>5 DEF NodeNames
  <2>. HIDE DEF R
  <2>. QED  BY <1>2, <2>1, <2>2, <2>3
<1>6. Good(PtrInt) /\ \A w \in PtrIntVecs : Good(w)
  BY ForPointers, PlainTypes
<1>7. \A k \in Conversions(f) : \A t \in ConversionImports(f.body[k]) : Good(t)
  BY <1>6, ConversionFacts
<1>8. \A k \in Conversions(f) : \A t \in ConversionNames(f.body[k]) : Good(t)
  BY <1>6 DEF ConversionNames
<1>. HIDE DEF R, Good
<1>9. f.clauses \in SUBSET nodes /\ CalleeClauses(f) \in SUBSET nodes
  OBVIOUS
<1>10. Type \cap {"State", "Globals", "Alloc", "BlockAddress", "Pointer", "MemorySet"} = {}
  BY TypesAreNoTheories DEF CommonTheories
<1>11. ASSUME NEW t \in FunctionImports(f) \cap Type PROVE Good(t)
  BY <1>4, <1>5, <1>7, <1>9, <1>10, <1>11 DEF FunctionImports
<1>12. ASSUME NEW t \in FunctionNames(f) \cap Type PROVE Nameable(t)
  <2>1. \A u : Good(u) => Nameable(u)
    BY DEF Good
  <2>2. ASSUME NEW k \in DOMAIN f.body, t \in InstructionNames(f.body[k]) PROVE Good(t)
    BY <1>4, <1>8, <1>10, <1>12, <2>2, InstructionFacts
  <2>3. Named({f.ret} \cup In(f.args)) \subseteq Found(FunctionRoots(f))
    BY SignatureFacts
  <2>4. \/ t \in Named({f.ret} \cup In(f.args))
        \/ \E k \in DOMAIN f.body : t \in InstructionNames(f.body[k])
        \/ t \in NodeNames(f.clauses) \/ t \in NodeNames(CalleeClauses(f))
    BY <1>10, <1>12 DEF FunctionNames
  <2>. QED  BY <1>4, <1>5, <1>9, <1>12, <2>1, <2>2, <2>3, <2>4
<1>. QED  BY <1>11, <1>12 DEF Checked, Good

LEMMA FunctionImportsExcused ==
  ASSUME DiscoveryInv, pc \in {"functions", "goals"}, NEW f \in Functions,
         NEW th \in TheoriesOf(f), NEW i \in FunctionImports(f), i \notin printed
  PROVE  ImportExcused(<<th, i>>)
<1>1. TypesOK /\ FoundOK /\ VectorsOK /\ PrintedOK /\ mod \in Modules
      /\ pc \in AfterWalk /\ pc \in AfterDerived /\ pc \in AfterBaddr /\ pc \in AfterGlobals
  BY PhaseFacts DEF DiscoveryInv, TypesOK
<1>2. types \subseteq printed /\ AllFound \subseteq types
  BY <1>1, TypesPrinted DEF FoundOK
<1>3. MemoryTheories \cup {"Globals"} \subseteq printed
  BY <1>1 DEF PrintedOK
<1>4. UsesBaddr(f) => "BlockAddress" \in printed
  BY <1>1 DEF PrintedOK
<1>5. ModuleRoots(mod) \subseteq Type /\ FunctionRoots(f) \subseteq ModuleRoots(mod)
  BY <1>1, ModuleFacts
<1>6. \A S \in SUBSET FunctionRoots(f) : Found(S) \subseteq printed
  <2>1. \A S \in SUBSET FunctionRoots(f) : Found(S) \subseteq AllFound
    BY <1>5, ReachedMonotone DEF Found, OfKind, AllFound
  <2>. QED  BY <1>2, <2>1
<1>7. i \notin NodeImports(f.clauses)
  <2>1. \A n \in f.clauses : IsNode(n) /\ n.finds \subseteq FunctionRoots(f)
    BY <1>1, ModuleFacts
  <2>2. UNION {n.finds : n \in f.clauses} \in SUBSET FunctionRoots(f)
    BY <2>1
  <2>3. NodeImports(f.clauses) \cap Type \subseteq printed
    BY <1>6, <2>1, <2>2, NodeFacts
  <2>4. "BlockAddress" \in NodeImports(f.clauses) => "BlockAddress" \in printed
    BY <1>4, <2>1, NodeFacts DEF UsesBaddr
  <2>5. NodeImports(f.clauses) \subseteq Type \cup NodeTheories
    BY <2>1, NodeFacts
  <2>. QED  BY <1>3, <2>3, <2>4, <2>5 DEF NodeTheories, MemoryTheories
<1>8. CASE i \in NodeImports(CalleeClauses(f))
  BY <1>8 DEF ImportExcused
<1>9. ASSUME NEW k \in Conversions(f), i \in ConversionImports(f.body[k])
      PROVE  ImportExcused(<<th, i>>)
  <2>1. /\ Conversion(f.body[k]) \subseteq FunctionRoots(f)
        /\ \E t \in Conversion(f.body[k]) : Kind[t] = "ptr" \/ t \in DOMAIN PtrIntVec
    BY <1>1, ModuleFacts
  <2>2. ASSUME NEW t \in Conversion(f.body[k]), Kind[t] \in Derived PROVE t \in types
    BY <1>1, <1>2, <1>5, <2>1, <2>2, AllReachedFacts
  <2>3. CASE i = PtrInt
    <3>1. PICK t \in Conversion(f.body[k]) : Kind[t] = "ptr"
      BY <1>9, <2>1, <2>3, ConversionFacts
    <3>2. t \in types
      BY <2>2, <3>1 DEF Derived
    <3>3. PtrInt \in types
      BY <1>1, <3>1, <3>2 DEF FoundOK, OfKind
    <3>. QED  BY <1>2, <2>3, <3>3
  <2>4. CASE \E v \in Conversion(f.body[k]) \cap DOMAIN PtrIntVec : i = PtrIntVec[v]
    <3>1. PICK v \in Conversion(f.body[k]) \cap DOMAIN PtrIntVec : i = PtrIntVec[v]
      BY <2>4
    <3>2. v \in types
      BY <2>2, <3>1, ForPointers DEF Derived
    <3>3. i \notin types /\ vectors = {}
      BY <1>1, <1>2 DEF VectorsOK
    <3>4. PICK w \in types \cap DOMAIN PtrIntVec : w # v
      BY <1>1, <3>1, <3>2, <3>3 DEF VectorsOK
    <3>. QED  BY <3>1, <3>2, <3>4 DEF ImportExcused
  <2>. QED  BY <1>9, <2>3, <2>4, ConversionFacts
<1>10. CASE i \in {"State", "Globals", "Alloc", "Pointer"}
  BY <1>3, <1>10 DEF MemoryTheories
<1>11. CASE i \in Found(FunctionRoots(f))
  BY <1>6, <1>11
<1>12. CASE BodyUsesBaddr(f) /\ i = "BlockAddress"
  BY <1>4, <1>12 DEF UsesBaddr
<1>13. \/ i \in {"State", "Globals", "Alloc", "Pointer"} \/ i \in Found(FunctionRoots(f))
       \/ BodyUsesBaddr(f) /\ i = "BlockAddress"
       \/ i \in NodeImports(CalleeClauses(f))
       \/ \E k \in Conversions(f) : i \in ConversionImports(f.body[k])
  BY <1>7 DEF FunctionImports
<1>. QED  BY <1>8, <1>9, <1>10, <1>11, <1>12, <1>13

LEMMA FunctionNamesExcused ==
  ASSUME mod \in Modules, NEW f \in Functions, Checked(f), NEW th \in TheoriesOf(f),
         NEW x \in FunctionNames(f), x \notin FunctionImports(f)
  PROVE  NameExcused(<<th, x>>)
<1>. DEFINE nodes == f.clauses \cup CalleeClauses(f)
<1>1. \A n \in nodes : IsNode(n)
  BY ClauseFacts
<1>2. NodeImports(f.clauses) \cup NodeImports(CalleeClauses(f)) \subseteq FunctionImports(f)
  BY DEF FunctionImports
<1>3. x \in Type => Nameable(x)
  BY DEF Checked
<1>4. ASSUME NEW N, N = f.clauses \/ N = CalleeClauses(f), x \in NodeNames(N)
      PROVE  NameExcused(<<th, x>>)
  <2>1. \A n \in N : IsNode(n)
    BY <1>1, <1>4
  <2>2. x \in NodeNames(N) \ NodeImports(N)
    BY <1>2, <1>4
  <2>3. PICK n \in N : x \in Missed(n)
    BY <1>3, <2>1, <2>2, NodeFacts
  <2>4. n \in nodes
    BY <1>4
  <2>. QED  BY <2>3, <2>4 DEF NameExcused
<1>5. ASSUME NEW k \in DOMAIN f.body, x \in InstructionNames(f.body[k])
      PROVE  NameExcused(<<th, x>>)
  <2>1. x \notin Found(FunctionRoots(f))
    BY DEF FunctionImports
  <2>2. CASE x = "BlockAddress" /\ \E v \in Operands(f) : v.kind = "nested"
    BY <2>2 DEF NameExcused
  <2>3. CASE k \in Conversions(f) /\ x \in ConversionNames(f.body[k])
    <3>1. Narrow(f.body[k]) /\ x = PtrInt
      BY <2>3 DEF ConversionNames
    <3>2. ConversionImports(f.body[k]) \subseteq FunctionImports(f)
      BY <2>3 DEF FunctionImports
    <3>3. Conversion(f.body[k]) \cap DOMAIN PtrIntVec # {}
      BY <3>1, <3>2, ConversionFacts
    <3>. QED  BY <2>3, <3>1, <3>3 DEF NameExcused
  <2>. QED  BY <1>5, <2>1, <2>2, <2>3, InstructionFacts
<1>6. x # "MemorySet" \/ CalleeClauses(f) = {}
  BY <1>2, ClauseFacts
<1>7. x \notin Named({f.ret} \cup In(f.args))
  BY SignatureFacts DEF FunctionImports
<1>8. x # "State"
  BY DEF FunctionImports
<1>9. x \in NodeNames(f.clauses) \/ x \in NodeNames(CalleeClauses(f))
      \/ \E k \in DOMAIN f.body : x \in InstructionNames(f.body[k])
  BY <1>6, <1>7, <1>8 DEF FunctionNames
<1>. QED  BY <1>4, <1>5, <1>9

LEMMA addFunctionStep ==
  ASSUME DiscoveryInv, addFunction
  PROVE  DiscoveryInv'
<1>1. pc = "functions" /\ mod' = mod /\ types' = types /\ roots' = roots /\ stack' = stack
      /\ vectors' = vectors /\ pc \in AfterWalk
  BY PhaseFacts DEF addFunction
<1>2. TypesOK /\ FoundOK /\ PrintedOK /\ CheckedOK /\ mod \in Modules
  BY DEF DiscoveryInv, TypesOK
<1>3. PICK f \in Functions : /\ f.name \notin printed
                             /\ Emit(f.name, FunctionImports(f), FunctionNames(f), pc)
  BY DEF addFunction, Functions, In
<1>4. CASE ~Checked(f)
  <2>1. pc' = "crashed" /\ output' = output
    BY <1>3, <1>4 DEF Emit, Checked
  <2>2. ~Printable
    BY <1>2, <1>4, PrintableFunction
  <2>3. TypesStay
    BY <1>1, <2>1 DEF TypesStay
  <2>. QED  BY <2>1, <2>2, <2>3, CrashStep
<1>5. CASE Checked(f)
  <2>1. /\ pc' = "functions" /\ printed' = printed \cup {f.name}
        /\ dangling' = dangling \cup {<<f.name, i>> : i \in FunctionImports(f) \ printed}
        /\ unimported' = unimported \cup
             {<<f.name, n>> : n \in FunctionNames(f) \ FunctionImports(f)}
    BY <1>1, <1>3, <1>5 DEF Emit, Checked
  <2>2. TypesStay
    BY <1>1, <2>1, PhaseFacts DEF TypesStay
  <2>3. TypesOK' /\ WalkOK' /\ StackOK' /\ FoundOK' /\ VectorsOK'
    BY <2>2, TypesStayOK
  <2>4. CrashOK'
    BY <2>1 DEF CrashOK
  <2>5. Functions' = Functions /\ (\A g : Checked(g)' <=> Checked(g))
    BY <1>1, ModuleStays
  <2>6. PrintedOK'
    BY <1>1, <1>2, <2>1, <2>5, PhaseFacts DEF PrintedOK
  <2>7. CheckedOK'
    <3>1. \A g \in Functions : g.name \in printed' => Checked(g)
      <4>1. \A g \in Functions : g.name \in printed => Checked(g)
        BY <1>1, <1>2, PhaseFacts DEF CheckedOK
      <4>2. \A g \in Functions : g.name = f.name => g = f
        BY <1>2, ModuleFacts
      <4>. QED  BY <1>5, <2>1, <4>1, <4>2
    <3>2. TypesOf(mod.globals)' = TypesOf(mod.globals)
      BY <1>1
    <3>. QED  BY <1>1, <1>2, <2>1, <2>5, <3>1, <3>2, PhaseFacts DEF CheckedOK
  <2>8. \A d \in dangling' : d \in dangling \/ ImportExcused(d)
    <3>1. f.name \in TheoriesOf(f)
      BY DEF TheoriesOf
    <3>. QED  BY <1>1, <2>1, <3>1, FunctionImportsExcused
  <2>9. \A u \in unimported' : u \in unimported \/ NameExcused(u)
    <3>1. f.name \in TheoriesOf(f)
      BY DEF TheoriesOf
    <3>. QED  BY <1>2, <1>5, <2>1, <3>1, FunctionNamesExcused
  <2>10. ImportsResolve' /\ NamesImported'
    BY <1>1, <2>8, <2>9, ReportsStay DEF DiscoveryInv
  <2>. QED  BY <2>3, <2>4, <2>6, <2>7, <2>10 DEF DiscoveryInv
<1>. QED  BY <1>4, <1>5

(* A goal names what its function does and what the requires clause of the *)
(* function called does, which is among the clauses of that function.      *)
LEMMA GoalFacts ==
  ASSUME mod \in Modules, \A g \in Functions : Checked(g), NEW f \in Functions, NEW k \in Goals(f)
  PROVE  /\ \A t \in (FunctionImports(f) \cup GoalNames(f, k)) \cap Type : Nameable(t)
         /\ \A t \in FunctionImports(f) \cap Type : ~Recursive(t)
<1>. DEFINE g == mod.functions[f.body[k].callee]
<1>1. g \in Functions /\ g.requires \subseteq g.clauses
  BY ModuleFacts
<1>2. NodeNames(g.requires) \subseteq FunctionNames(g)
  <2>1. NodeNames(g.requires) \subseteq NodeNames(g.clauses)
    BY <1>1 DEF NodeNames
  <2>. QED  BY <2>1 DEF FunctionNames
<1>3. Checked(f) /\ Checked(g)
  BY <1>1
<1>. QED  BY <1>2, <1>3 DEF GoalNames, Checked

LEMMA addGoalsStep ==
  ASSUME DiscoveryInv, addGoals
  PROVE  DiscoveryInv'
<1>1. pc = "goals" /\ mod' = mod /\ types' = types /\ roots' = roots /\ stack' = stack
      /\ vectors' = vectors /\ pc \in AfterWalk /\ pc \in AfterGlobals
  BY PhaseFacts DEF addGoals
<1>2. TypesOK /\ FoundOK /\ PrintedOK /\ CheckedOK /\ mod \in Modules
  BY DEF DiscoveryInv, TypesOK
<1>3. PICK f \in Functions : \E k \in Goals(f) :
        Emit(f.body[k].goal, FunctionImports(f), GoalNames(f, k), pc)
  BY DEF addGoals, Functions, In
<1>. PICK k \in Goals(f) : Emit(f.body[k].goal, FunctionImports(f), GoalNames(f, k), pc)
  BY <1>3
<1>4. (\A g \in Functions : g.name \in printed) /\ \A g \in Functions : Checked(g)
  BY <1>1, <1>2 DEF CheckedOK
<1>5. /\ pc' = "goals" /\ printed' = printed \cup {f.body[k].goal}
      /\ dangling' = dangling \cup {<<f.body[k].goal, i>> : i \in FunctionImports(f) \ printed}
      /\ unimported' = unimported \cup
           {<<f.body[k].goal, n>> : n \in GoalNames(f, k) \ FunctionImports(f)}
  <2>1. ~(\/ \E t \in (FunctionImports(f) \cup GoalNames(f, k)) \cap Type : ~Nameable(t)
          \/ \E t \in FunctionImports(f) \cap Type : Recursive(t))
    BY <1>2, <1>4, GoalFacts
  <2>. QED  BY <1>1, <1>3, <2>1 DEF Emit
<1>6. TypesStay
  BY <1>1, <1>5, PhaseFacts DEF TypesStay
<1>7. TypesOK' /\ WalkOK' /\ StackOK' /\ FoundOK' /\ VectorsOK'
  BY <1>6, TypesStayOK
<1>8. CrashOK'
  BY <1>5 DEF CrashOK
<1>9. Functions' = Functions /\ (\A g : Checked(g)' <=> Checked(g))
  BY <1>1, ModuleStays
<1>10. PrintedOK'
  BY <1>1, <1>2, <1>5, <1>9, PhaseFacts DEF PrintedOK
<1>11. CheckedOK'
  <2>1. TypesOf(mod.globals)' = TypesOf(mod.globals)
    BY <1>1
  <2>. QED  BY <1>1, <1>2, <1>4, <1>5, <1>9, <2>1, PhaseFacts DEF CheckedOK
<1>12. f.body[k].goal \in TheoriesOf(f)
  BY DEF TheoriesOf
<1>13. \A d \in dangling' : d \in dangling \/ ImportExcused(d)
  BY <1>1, <1>5, <1>12, FunctionImportsExcused
<1>14. ASSUME NEW x \in GoalNames(f, k), x \notin FunctionImports(f)
       PROVE  NameExcused(<<f.body[k].goal, x>>)
  <2>1. CASE x \in FunctionNames(f)
    BY <1>2, <1>4, <1>12, <1>14, <2>1, FunctionNamesExcused
  <2>2. CASE x \in NodeNames(mod.functions[f.body[k].callee].requires)
    BY <2>2 DEF NameExcused
  <2>. QED  BY <2>1, <2>2 DEF GoalNames
<1>15. \A u \in unimported' : u \in unimported \/ NameExcused(u)
  BY <1>5, <1>14
<1>16. ImportsResolve' /\ NamesImported'
  BY <1>1, <1>13, <1>15, ReportsStay DEF DiscoveryInv
<1>. QED  BY <1>7, <1>8, <1>10, <1>11, <1>16 DEF DiscoveryInv

LEMMA EndGoalsStep ==
  ASSUME DiscoveryInv, EndGoals
  PROVE  DiscoveryInv'
<1>1. pc = "goals" /\ pc' = "done" /\ mod' = mod /\ types' = types /\ output' = output
  BY DEF EndGoals
<1>2. TypesStay
  BY PhaseFacts DEF EndGoals, TypesStay
<1>3. TypesOK' /\ WalkOK' /\ StackOK' /\ FoundOK' /\ VectorsOK'
  BY <1>2, TypesStayOK
<1>4. CrashOK'
  BY <1>1 DEF CrashOK
<1>5. Functions' = Functions /\ (\A f : Checked(f)' <=> Checked(f))
  BY <1>1, ModuleStays
<1>6. PrintedOK'
  BY <1>1, <1>5, PhaseFacts DEF PrintedOK, DiscoveryInv, output
<1>7. CheckedOK'
  <2>1. TypesOf(mod.globals)' = TypesOf(mod.globals)
    BY <1>1
  <2>. QED  BY <1>1, <1>5, <2>1, PhaseFacts DEF CheckedOK, DiscoveryInv, output
<1>8. ImportsResolve' /\ NamesImported'
  BY <1>1, ReportsStay DEF DiscoveryInv, output
<1>. QED  BY <1>3, <1>4, <1>6, <1>7, <1>8 DEF DiscoveryInv

(* After done, everything that has been found could be printed.            *)
LEMMA DonePrintable ==
  ASSUME DiscoveryInv, pc = "done"
  PROVE  Printable
<1>1. TypesOK /\ FoundOK /\ mod \in Modules /\ pc \in AfterWalk /\ pc \in AfterGlobals
  BY PhaseFacts DEF DiscoveryInv, TypesOK
<1>2. /\ \A k \in DOMAIN mod.globals : mod.globals[k].init # "none"
      /\ \A t \in Found(TypesOf(mod.globals)) : Nameable(t)
      /\ \A f \in Functions : Checked(f)
  BY <1>1 DEF CheckedOK, DiscoveryInv
<1>3. ASSUME NEW f \in Functions, NEW n \in f.clauses \cup CalleeClauses(f)
      PROVE  /\ \A t \in Reached(n.finds) :
                  ~Recursive(t) /\ (Kind[t] \in Scalar \cup Derived => Nameable(t))
             /\ \A t \in n.names \cap Type : Nameable(t)
  <2>1. PICK N \in {f.clauses, CalleeClauses(f)} : n \in N
    OBVIOUS
  <2>2. NodeImports(N) \subseteq FunctionImports(f) /\ NodeNames(N) \subseteq FunctionNames(f)
    BY DEF FunctionImports, FunctionNames
  <2>3. IsNode(n)
    BY <1>1, ClauseFacts
  <2>4. Found(n.finds) \subseteq NodeImports(N)
    <3>1. n.finds \subseteq UNION {m.finds : m \in N}
      BY <2>1
    <3>2. Found(n.finds) \subseteq Found(UNION {m.finds : m \in N})
      BY <3>1, ReachedMonotone DEF Found, OfKind
    <3>. QED  BY <3>2 DEF NodeImports
  <2>5. Reached(n.finds) \subseteq Type
    BY <2>3, ReachedFacts DEF IsNode
  <2>6. ASSUME NEW t \in Reached(n.finds)
        PROVE  ~Recursive(t) /\ (Kind[t] \in Scalar \cup Derived => Nameable(t))
    <3>1. CASE Kind[t] \in Scalar \cup Derived
      BY <1>2, <2>2, <2>4, <2>5, <3>1 DEF Found, OfKind, Checked
    <3>2. CASE Kind[t] \notin Scalar \cup Derived
      BY <2>5, <3>2, PlainTypes
    <3>. QED  BY <3>1, <3>2
  <2>7. n.names \subseteq FunctionNames(f)
    BY <2>1, <2>2 DEF NodeNames
  <2>. QED  BY <1>2, <2>6, <2>7 DEF Checked
<1>4. ASSUME NEW t \in AllReached
      PROVE  ~Recursive(t) /\ (Kind[t] \in Scalar \cup Derived => Nameable(t))
  <2>1. ~Recursive(t)
    BY <1>1 DEF FoundOK
  <2>2. ASSUME Kind[t] \in Scalar \cup Derived PROVE Nameable(t)
    <3>1. PICK r \in ModuleRoots(mod) : t \in MadeOf[r]
      BY DEF AllReached, Reached
    <3>2. CASE r \in TypesOf(mod.globals)
      BY <1>2, <2>2, <3>1, <3>2 DEF Found, OfKind, Reached
    <3>3. CASE r \notin TypesOf(mod.globals)
      <4>1. PICK f \in Functions : r \in FunctionRoots(f)
        BY <3>1, <3>3 DEF ModuleRoots, Functions
      <4>2. t \in Found(FunctionRoots(f))
        BY <2>2, <3>1, <4>1 DEF Found, OfKind, Reached
      <4>3. t \in FunctionImports(f) /\ t \in Type
        BY <1>1, <4>2, AllReachedFacts DEF FunctionImports
      <4>. QED  BY <1>2, <4>3 DEF Checked
    <3>. QED  BY <3>2, <3>3
  <2>. QED  BY <2>1, <2>2
<1>5. ASSUME NEW t \in Reached(ModuleRoots(mod) \cup (UNION {n.finds : n \in Clauses}))
      PROVE  ~Recursive(t) /\ (Kind[t] \in Scalar \cup Derived => Nameable(t))
  <2>1. PICK r \in ModuleRoots(mod) \cup (UNION {n.finds : n \in Clauses}) : t \in MadeOf[r]
    BY DEF Reached
  <2>2. CASE r \in ModuleRoots(mod)
    BY <1>4, <2>1, <2>2 DEF AllReached, Reached
  <2>3. CASE r \in UNION {n.finds : n \in Clauses}
    <3>1. PICK n \in Clauses : r \in n.finds
      BY <2>3
    <3>2. PICK f \in Functions : n \in f.clauses \cup CalleeClauses(f)
      BY DEF Clauses
    <3>3. t \in Reached(n.finds)
      BY <2>1, <3>1 DEF Reached
    <3>. QED  BY <1>3, <3>2, <3>3
  <2>. QED  BY <2>1, <2>2, <2>3
<1>6. ASSUME NEW n \in Clauses PROVE \A t \in n.names \cap Type : Nameable(t)
  <2>1. PICK f \in Functions : n \in f.clauses \cup CalleeClauses(f)
    BY DEF Clauses
  <2>. QED  BY <1>3, <2>1
<1>. QED  BY <1>2, <1>5, <1>6 DEF Printable
-----------------------------------------------------------------------------
(* The theorems *)

(* Whatever the order of roots, vectors and theories, a run of getTypeInfo *)
(* and generateWhy3 keeps to the inductive invariant.                      *)
THEOREM DiscoveryInvariance == Spec => []DiscoveryInv
<1>1. Init => DiscoveryInv
  BY InitInv
<1>2. DiscoveryInv /\ [Next]_vars => DiscoveryInv'
  <2>. SUFFICES ASSUME DiscoveryInv, [Next]_vars PROVE DiscoveryInv'
    OBVIOUS
  <2>1. CASE NextRoot \/ Visit \/ Return
    BY <2>1, WalkSteps
  <2>2. CASE StackOverflow
    BY <2>2, OverflowStep
  <2>3. CASE AddPtrInt
    BY <2>3, AddPtrIntStep
  <2>4. CASE AddPtrIntVector
    BY <2>4, AddPtrIntVectorStep
  <2>5. CASE EndVectors
    BY <2>5, EndVectorsStep
  <2>6. CASE AddScalarTypes
    BY <2>6, AddScalarTypesStep
  <2>7. CASE AddDerivedType
    BY <2>7, AddDerivedTypeStep
  <2>8. CASE EndDerivedTypes
    BY <2>8, EndDerivedTypesStep
  <2>9. CASE addBlockAddressType
    BY <2>9, addBlockAddressTypeStep
  <2>10. CASE addGlobals
    BY <2>10, addGlobalsStep
  <2>11. CASE addFunction
    BY <2>11, addFunctionStep
  <2>12. CASE EndFunctions
    BY <2>12, EndFunctionsStep
  <2>13. CASE addGoals
    BY <2>13, addGoalsStep
  <2>14. CASE EndGoals
    BY <2>14, EndGoalsStep
  <2>15. CASE UNCHANGED vars
    <3>1. /\ mod' = mod /\ pc' = pc /\ roots' = roots /\ stack' = stack /\ types' = types
          /\ vectors' = vectors /\ printed' = printed /\ dangling' = dangling
          /\ unimported' = unimported
      BY <2>15 DEF vars
    <3>2. /\ Functions' = Functions /\ AllReached' = AllReached /\ AllFound' = AllFound
          /\ (\A f : Checked(f)' <=> Checked(f)) /\ (Printable' <=> Printable)
      BY <3>1, ModuleStays
    <3>3. Pending' = Pending
      BY <3>1 DEF Pending
    <3>4. TypesOK' /\ WalkOK' /\ StackOK' /\ FoundOK' /\ VectorsOK'
      BY <3>1, <3>2, <3>3 DEF DiscoveryInv, TypesOK, WalkOK, StackOK, FoundOK, VectorsOK
    <3>5. PrintedOK' /\ CrashOK'
      BY <3>1, <3>2 DEF DiscoveryInv, PrintedOK, CrashOK
    <3>6. CheckedOK'
      <4>1. mod.globals' = mod.globals /\ TypesOf(mod.globals)' = TypesOf(mod.globals)
        BY <3>1
      <4>. QED  BY <3>1, <3>2, <4>1 DEF DiscoveryInv, CheckedOK
    <3>7. ImportsResolve' /\ NamesImported'
      BY <3>1, ReportsStay DEF DiscoveryInv
    <3>. QED  BY <3>4, <3>5, <3>6, <3>7 DEF DiscoveryInv
  <2>. QED  BY <2>1, <2>2, <2>3, <2>4, <2>5, <2>6, <2>7, <2>8, <2>9, <2>10, <2>11, <2>12, <2>13,
            <2>14, <2>15 DEF Next
<1>. QED  BY <1>1, <1>2, PTL DEF Spec

(* getTypeInfo's walk over the module ends with every type it is called    *)
(* with, for an operand, a clause or a global, and every type one of those *)
(* is made of, whatever the order of the visits; all others that are in    *)
(* the end are for pointers.                                               *)
THEOREM EveryTypeFound == Spec => []FindsEveryType
<1>1. DiscoveryInv => FindsEveryType
  BY DEF DiscoveryInv, TypesOK, FoundOK, FindsEveryType, AfterWalk, AllFound, Found, AllReached,
     OfKind, PtrIntVecs
<1>. QED  BY <1>1, DiscoveryInvariance, PTL

(* addImports imports a theory before generateWhy3 has printed it, or one  *)
(* it never prints, for no causes but the three ImportsResolve lists.      *)
THEOREM EveryImportResolves == Spec => []ImportsResolve
<1>1. DiscoveryInv => ImportsResolve
  BY DEF DiscoveryInv
<1>. QED  BY <1>1, DiscoveryInvariance, PTL

(* The theory of a function or of a goal names nothing of a theory it does *)
(* not import, for no causes but those NamesImported lists: the types that *)
(* clauses cast to, block addresses in constants, conversions of vectors   *)
(* of pointers, and, in a goal, the callee's requires clause.              *)
THEOREM EveryNameImported == Spec => []NamesImported
<1>1. DiscoveryInv => NamesImported
  BY DEF DiscoveryInv
<1>. QED  BY <1>1, DiscoveryInvariance, PTL

(* generateWhy3 dies on a module, in whatever order it visits types and    *)
(* prints theories, exactly if the module is not Printable.                *)
THEOREM CrashesAreExact == Spec => []CrashesExactly
<1>1. DiscoveryInv => CrashesExactly
  BY DonePrintable DEF DiscoveryInv, CrashOK, CrashesExactly
<1>. QED  BY <1>1, DiscoveryInvariance, PTL
=============================================================================
