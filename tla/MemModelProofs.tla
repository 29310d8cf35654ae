--------------------------- MODULE MemModelProofs ---------------------------
(***************************************************************************)
(* The memory model for types, objects and programs of any size: what Why3 *)
(* knows of memory is true, allocations are told apart, and the axioms on  *)
(* pointers as integers contradict each other.                             *)
(*                                                                         *)
(* KnownIsTrue is inductive once the addresses held are known to be of     *)
(* objects that exist (Bases), and the globals to be apart before they are *)
(* initialised (GlobalsApart).                                             *)
(***************************************************************************)
EXTENDS MemModel, TLAPS

Cell == {Undef} \cup (Value \X Nat)

Bases == /\ n_allocs = Len(cells) + 1
         /\ \A r \in regs : r.why3.base = r.real.base /\ r.real.base \in DOMAIN cells

GlobalsApart ==
  phase = "globals" =>
    /\ known = {}
    /\ \A r \in regs : /\ r.real.offset = 0
                       /\ Len(cells[r.real.base]) = Bits[r.type]
    /\ \A r, s \in regs : r.real.base = s.real.base => r = s
    /\ \A b \in DOMAIN cells : \E r \in regs : r.real.base = b

IInv == TypeOK /\ Bases /\ GlobalsApart /\ KnownIsTrue
-----------------------------------------------------------------------------
(* What `separated' says: no bit of the one is a bit of the other. *)
LEMMA SeparatedIsDisjoint ==
  ASSUME NEW a \in Pointer, NEW b \in Pointer, NEW i \in Nat, NEW j \in Nat,
         separated(a, i, b, j), a.base = b.base,
         NEW k \in 1..i, NEW l \in 1..j
  PROVE  a.offset + k # b.offset + l
  BY DEF separated, Pointer

LEMMA RegisterFacts ==
  ASSUME TypeOK, NEW r \in regs
  PROVE  /\ r.real \in Pointer /\ r.why3 \in Pointer /\ r.type \in Type
         /\ Bits[r.type] \in Nat
  BY MemModelAssumption DEF TypeOK, Register

LEMMA FactFacts ==
  ASSUME TypeOK, NEW f \in known
  PROVE  f.at \in Pointer /\ Bits[f.type] \in Nat /\ f.val \in Value
  BY MemModelAssumption DEF TypeOK, Fact

LEMMA UsedAreTypes == TypeOK => used \subseteq Type
  BY MemModelAssumption DEF TypeOK

(* A store keeps the objects and their sizes. *)
LEMMA WrittenShape ==
  ASSUME TypeOK, NEW p \in Pointer, NEW n \in Nat, NEW v \in Value, InBounds(p, n),
         p.base \in DOMAIN cells
  PROVE  /\ Written(p, n, v) \in Seq(Seq(Cell))
         /\ Len(Written(p, n, v)) = Len(cells)
         /\ DOMAIN Written(p, n, v) = DOMAIN cells
         /\ \A b \in DOMAIN cells : DOMAIN Written(p, n, v)[b] = DOMAIN cells[b]
<1> DEFINE new == [k \in DOMAIN cells[p.base] |->
                     IF k - p.offset \in 1..n THEN <<v, k - p.offset>>
                     ELSE cells[p.base][k]]
<1>1. cells \in Seq(Seq(Cell)) /\ cells[p.base] \in Seq(Cell)
  BY DEF TypeOK, Cell
<1>2. \A k \in DOMAIN cells[p.base] : new[k] \in Cell
  <2> SUFFICES ASSUME NEW k \in DOMAIN cells[p.base] PROVE new[k] \in Cell
    OBVIOUS
  <2>1. cells[p.base][k] \in Cell
    BY <1>1
  <2>2. k - p.offset \in 1..n => <<v, k - p.offset>> \in Cell
    BY DEF Cell
  <2> QED
    BY <2>1, <2>2
<1>3. new \in Seq(Cell) /\ DOMAIN new = DOMAIN cells[p.base]
  <2>1. PICK m \in Nat : DOMAIN cells[p.base] = 1..m
    BY <1>1
  <2>2. DOMAIN new = 1..m
    BY <2>1
  <2> HIDE DEF new
  <2>3. \A k \in 1..m : new[k] \in Cell
    BY <1>2, <2>1
  <2>4. new = [k \in 1..m |-> new[k]]
    BY <2>1 DEF new
  <2>5. new \in [1..m -> Cell]
    BY <2>3, <2>4
  <2> QED
    BY <2>1, <2>2, <2>5
<1>4. Written(p, n, v) = [cells EXCEPT ![p.base] = new]
  BY DEF Written
<1> HIDE DEF new
<1> QED
  BY <1>1, <1>3, <1>4
-----------------------------------------------------------------------------
(* The steps that allocate. *)
LEMMA AllocShape ==
  ASSUME TypeOK, NEW n \in Nat, NEW t \in Type, alloc(t, n)
  PROVE  /\ cells' \in Seq(Seq(Cell))
         /\ Len(cells') = Len(cells) + 1
         /\ \A b \in DOMAIN cells : b \in DOMAIN cells' /\ cells'[b] = cells[b]
         /\ Len(cells) + 1 \in DOMAIN cells' /\ cells'[Len(cells) + 1] = Blank(n)
         /\ Len(Blank(n)) = n
         /\ n_allocs' \in Nat /\ n_allocs' = n_allocs + 1
         /\ New(t) \in Register
         /\ New(t).real = [base |-> Len(cells) + 1, offset |-> 0]
         /\ New(t).why3.base = n_allocs /\ New(t).type = t
         /\ regs' = regs \cup {New(t)}
<1>1. cells \in Seq(Seq(Cell))
  BY DEF TypeOK, Cell
<1>2. Blank(n) \in Seq(Cell) /\ Len(Blank(n)) = n
  BY DEF Blank, Cell
<1>3. New(t) \in Register
  BY <1>1 DEF New, Register, Pointer, TypeOK
<1>4. /\ New(t).real = [base |-> Len(cells) + 1, offset |-> 0]
      /\ New(t).why3.base = n_allocs /\ New(t).type = t
  BY DEF New
<1> QED
  BY <1>1, <1>2, <1>3, <1>4 DEF alloc, TypeOK

(* A fact about an object that exists outlives an allocation. *)
LEMMA HoldsInOldObjects ==
  ASSUME NEW p, NEW n, NEW v, Holds(p, n, v),
         \A b \in DOMAIN cells : b \in DOMAIN cells' /\ cells'[b] = cells[b]
  PROVE  Holds(p, n, v)'
  BY DEF Holds, InBounds

LEMMA AllocStep ==
  ASSUME IInv, NEW t \in used, NEW n \in Nat, alloc(t, n),
         UNCHANGED used, phase' = phase, UNCHANGED entry,
         known' \in {known, {}}, phase = "globals" => n = Bits[t] /\ UNCHANGED known
  PROVE  IInv'
<1> USE DEF IInv
<1>1. t \in Type
  BY UsedAreTypes
<1>2. TypeOK'
  BY <1>1, AllocShape DEF TypeOK, Cell
<1>3. Bases'
  <2>1. n_allocs' = Len(cells') + 1
    BY <1>1, AllocShape DEF Bases
  <2>2. ASSUME NEW r \in regs'
        PROVE  r.why3.base = r.real.base /\ r.real.base \in DOMAIN cells'
    <3>1. CASE r \in regs
      BY <1>1, <3>1, AllocShape DEF Bases
    <3>2. CASE r = New(t)
      BY <1>1, <3>2, AllocShape DEF Bases
    <3> QED
      BY <1>1, <3>1, <3>2, AllocShape
  <2> QED
    BY <2>1, <2>2 DEF Bases
<1>4. GlobalsApart'
  <2> SUFFICES ASSUME phase = "globals" PROVE GlobalsApart'
    BY DEF GlobalsApart
  <2> DEFINE Fits(r, c) == r.real.offset = 0 /\ Len(c[r.real.base]) = Bits[r.type]
  <2>1. \A r \in regs : r.real.base \in DOMAIN cells /\ Fits(r, cells')
    BY <1>1, AllocShape DEF Bases, GlobalsApart
  <2>2. New(t).real.base \notin DOMAIN cells /\ Fits(New(t), cells')
    BY <1>1, AllocShape DEF TypeOK
  <2>3. \A r \in regs' : Fits(r, cells')
    BY <1>1, <2>1, <2>2, AllocShape
  <2>4. ASSUME NEW r \in regs', NEW s \in regs', r.real.base = s.real.base
        PROVE  r = s
    <3>1. r \in regs \/ r = New(t)
      BY <1>1, AllocShape
    <3>2. s \in regs \/ s = New(t)
      BY <1>1, AllocShape
    <3> QED
      BY <2>1, <2>2, <2>4, <3>1, <3>2 DEF GlobalsApart
  <2>5. known' = {}
    BY DEF GlobalsApart
  <2>6. ASSUME NEW b \in DOMAIN cells' PROVE \E r \in regs' : r.real.base = b
    <3>1. b \in DOMAIN cells \/ b = Len(cells) + 1
      BY <1>1, AllocShape DEF TypeOK
    <3> QED
      BY <1>1, <3>1, AllocShape DEF GlobalsApart
  <2> QED
    BY <2>3, <2>4, <2>5, <2>6 DEF GlobalsApart
<1>5. KnownIsTrue'
  <2> SUFFICES ASSUME Consistent', Exact', NEW f \in known'
               PROVE  Holds(f.at, Bits[f.type], f.val)'
    BY DEF KnownIsTrue
  <2>1. Consistent /\ Exact /\ f \in known
    BY <1>1, AllocShape DEF Consistent, Exact
  <2>2. Holds(f.at, Bits[f.type], f.val)
    BY <2>1 DEF KnownIsTrue
  <2> QED
    BY <1>1, <2>2, HoldsInOldObjects, AllocShape
<1> QED
  BY <1>2, <1>3, <1>4, <1>5
-----------------------------------------------------------------------------
(* The step that initialises the globals, and entering the function. *)
LEMMA InitStep ==
  ASSUME IInv, init_state
  PROVE  IInv'
<1> USE DEF IInv
<1>1. PICK ini \in [regs -> Value] :
        /\ cells' = [b \in DOMAIN cells |->
             [k \in DOMAIN cells[b] |->
                <<ini[CHOOSE r \in regs : r.real.base = b], k>>]]
        /\ known' = {[at |-> r.why3, type |-> r.type, val |-> ini[r]] : r \in regs}
  BY DEF init_state
<1>2. /\ phase = "globals" /\ phase' = "init"
      /\ UNCHANGED <<used, n_allocs, entry, regs>>
  BY DEF init_state
<1> DEFINE owner(b) == CHOOSE r \in regs : r.real.base = b
           filled(b) == [k \in DOMAIN cells[b] |-> <<ini[owner(b)], k>>]
<1>3. ASSUME NEW b \in DOMAIN cells
      PROVE  owner(b) \in regs /\ owner(b).real.base = b /\ ini[owner(b)] \in Value
  BY <1>2 DEF GlobalsApart
<1>4. cells \in Seq(Seq(Cell))
  BY DEF TypeOK, Cell
<1>5. PICK m \in Nat : DOMAIN cells = 1..m /\ Len(cells) = m
  BY <1>4
<1>6. ASSUME NEW b \in DOMAIN cells
      PROVE  filled(b) \in Seq(Cell) /\ DOMAIN filled(b) = DOMAIN cells[b]
  <2>1. PICK l \in Nat : DOMAIN cells[b] = 1..l
    BY <1>4, <1>6
  <2>2. \A k \in 1..l : <<ini[owner(b)], k>> \in Cell
    BY <1>3, <1>6 DEF Cell
  <2>3. filled(b) \in [1..l -> Cell]
    BY <2>1, <2>2
  <2> QED
    BY <2>1, <2>3
<1>7. /\ DOMAIN cells' = 1..m
      /\ \A b \in DOMAIN cells : cells'[b] = filled(b)
  BY <1>1, <1>5
<1> HIDE DEF filled
<1>8. cells' \in Seq(Seq(Cell)) /\ Len(cells') = m
  <2>1. \A b \in 1..m : cells'[b] \in Seq(Cell)
    BY <1>5, <1>6, <1>7
  <2>2. cells' = [b \in 1..m |-> cells'[b]]
    BY <1>1, <1>5
  <2>3. cells' \in [1..m -> Seq(Cell)]
    BY <2>1, <2>2
  <2> QED
    BY <2>3
<1>9. TypeOK'
  <2>1. known' \subseteq Fact
    <3> SUFFICES ASSUME NEW r \in regs
                 PROVE  [at |-> r.why3, type |-> r.type, val |-> ini[r]] \in Fact
      BY <1>1
    <3> QED
      BY RegisterFacts DEF Fact
  <2> QED
    BY <1>2, <1>8, <2>1 DEF TypeOK, Cell
<1>10. Bases' /\ GlobalsApart'
  BY <1>2, <1>5, <1>7, <1>8 DEF Bases, GlobalsApart
<1>11. KnownIsTrue'
  <2> SUFFICES ASSUME Exact, NEW r \in regs
               PROVE  Holds(r.why3, Bits[r.type], ini[r])'
    BY <1>1, <1>2 DEF KnownIsTrue, Exact
  <2>1. /\ r.why3 = r.real /\ r.real.base \in DOMAIN cells /\ r.real.offset = 0
        /\ Len(cells[r.real.base]) = Bits[r.type]
    BY <1>2 DEF Exact, Bases, GlobalsApart
  <2>2. owner(r.real.base) = r
    BY <1>2, <1>3, <2>1 DEF GlobalsApart
  <2>3. DOMAIN cells[r.real.base] = 1..Bits[r.type]
    BY <1>4, <2>1
  <2>4. \A k \in 1..Bits[r.type] : cells'[r.real.base][k] = <<ini[r], k>>
    <3>1. cells'[r.real.base] = filled(r.real.base)
      BY <1>7, <2>1
    <3>2. filled(r.real.base) = [k \in 1..Bits[r.type] |-> <<ini[r], k>>]
      BY <2>2, <2>3 DEF filled
    <3> QED
      BY <3>1, <3>2
  <2>5. DOMAIN cells'[r.real.base] = 1..Bits[r.type]
    BY <1>6, <1>7, <2>1, <2>3
  <2>6. r.real.base \in DOMAIN cells'
    BY <1>5, <1>7, <2>1
  <2>7. \A k \in 1..Bits[r.type] : r.why3.offset + k = k
    BY <2>1
  <2> QED
    BY <2>1, <2>4, <2>5, <2>6, <2>7 DEF Holds, InBounds
<1> QED
  BY <1>9, <1>10, <1>11

LEMMA EnterStep ==
  ASSUME IInv, Enter
  PROVE  IInv'
<1>1. n_allocs \in 1..n_allocs
  BY DEF IInv, TypeOK
<1> QED
  BY <1>1 DEF IInv, Enter, TypeOK, Bases, GlobalsApart, KnownIsTrue
-----------------------------------------------------------------------------
(* Inside the function. *)
LEMMA GetElementPtrStep ==
  ASSUME IInv, GetElementPtr
  PROVE  IInv'
<1> USE DEF IInv
<1>1. PICK r \in regs, t \in used, i \in Index, j \in Index :
        LET s == [real |-> offset_pointer(r.real, Bits[r.type] * i + Bits[t] * j),
                  why3 |-> offset_pointer(r.why3, PtrBits * i + Bits[t] * j),
                  type |-> t]
        IN regs' = regs \cup {s}
  BY DEF GetElementPtr
<1> DEFINE s == [real |-> offset_pointer(r.real, Bits[r.type] * i + Bits[t] * j),
                 why3 |-> offset_pointer(r.why3, PtrBits * i + Bits[t] * j),
                 type |-> t]
<1>2. /\ phase = "function"
      /\ UNCHANGED <<used, phase, cells, n_allocs, entry, known>>
  BY DEF GetElementPtr
<1>3. t \in Type /\ i \in Int /\ j \in Int /\ PtrBits \in Int
      /\ Bits[t] \in Int /\ Bits[r.type] \in Int
  BY UsedAreTypes, RegisterFacts, MemModelAssumption
<1>4. /\ s.real \in Pointer /\ s.real.base = r.real.base
      /\ s.why3 \in Pointer /\ s.why3.base = r.why3.base
  <2>1. ASSUME NEW p \in Pointer, NEW n \in Int
        PROVE  offset_pointer(p, n) \in Pointer /\ offset_pointer(p, n).base = p.base
    BY DEF offset_pointer, Pointer
  <2>2. Bits[r.type] * i + Bits[t] * j \in Int /\ PtrBits * i + Bits[t] * j \in Int
    BY <1>3
  <2> QED
    BY <2>1, <2>2, RegisterFacts
<1>5. s \in Register /\ regs' = regs \cup {s}
  BY <1>1, <1>3, <1>4 DEF Register
<1> HIDE DEF s
<1>6. TypeOK' /\ Bases' /\ GlobalsApart'
  BY <1>2, <1>4, <1>5 DEF TypeOK, Bases, GlobalsApart
<1>7. KnownIsTrue'
  BY <1>2, <1>5 DEF KnownIsTrue, Consistent, Exact, Holds, InBounds
<1> QED
  BY <1>6, <1>7

LEMMA LoadStep ==
  ASSUME IInv, Load
  PROVE  IInv'
<1> USE DEF IInv
<1>1. PICK r \in regs, v \in Value :
        /\ Holds(r.real, Bits[r.type], v)
        /\ known' = known \cup {[at |-> r.why3, type |-> r.type, val |-> v]}
  BY DEF Load
<1>2. phase = "function" /\ UNCHANGED <<used, phase, cells, n_allocs, entry, regs>>
  BY DEF Load
<1>3. [at |-> r.why3, type |-> r.type, val |-> v] \in Fact
  BY RegisterFacts DEF Fact
<1>4. TypeOK' /\ Bases' /\ GlobalsApart'
  BY <1>1, <1>2, <1>3 DEF TypeOK, Bases, GlobalsApart
<1>5. KnownIsTrue'
  BY <1>1, <1>2 DEF KnownIsTrue, Consistent, Exact, Holds, InBounds
<1> QED
  BY <1>4, <1>5

(* A value is in memory after it was stored. *)
LEMMA StoreThenLoad ==
  ASSUME TypeOK, NEW p \in Pointer, NEW n \in Nat, NEW v \in Value, InBounds(p, n),
         p.base \in DOMAIN cells, cells' = Written(p, n, v)
  PROVE  Holds(p, n, v)'
<1>1. InBounds(p, n)'
  BY WrittenShape DEF InBounds
<1>2. ASSUME NEW k \in 1..n
      PROVE  cells'[p.base][p.offset + k] = <<v, k>>
  <2>1. p.offset + k \in DOMAIN cells[p.base]
    BY DEF InBounds
  <2>2. (p.offset + k) - p.offset = k
    BY DEF Pointer
  <2> QED
    BY <2>1, <2>2 DEF Written
<1> QED
  BY <1>1, <1>2 DEF Holds

(* What is separated from a store is still in memory after it. *)
LEMMA LoadSeparation ==
  ASSUME TypeOK, NEW p \in Pointer, NEW n \in Nat, NEW v \in Value, InBounds(p, n),
         p.base \in DOMAIN cells, cells' = Written(p, n, v),
         NEW q \in Pointer, NEW m \in Nat, NEW w \in Value,
         separated(q, m, p, n), Holds(q, m, w)
  PROVE  Holds(q, m, w)'
<1>1. InBounds(q, m)'
  <2>1. q.base \in DOMAIN cells /\ \A k \in 1..m : q.offset + k \in DOMAIN cells[q.base]
    BY DEF InBounds, Holds
  <2>2. q.base \in DOMAIN cells' /\ DOMAIN cells'[q.base] = DOMAIN cells[q.base]
    BY <2>1, WrittenShape
  <2> QED
    BY <2>1, <2>2 DEF InBounds
<1>2. ASSUME NEW k \in 1..m
      PROVE  cells'[q.base][q.offset + k] = cells[q.base][q.offset + k]
  <2>1. q.base \in DOMAIN cells /\ q.offset + k \in DOMAIN cells[q.base]
    BY DEF InBounds, Holds
  <2>2. CASE q.base # p.base
    BY <2>1, <2>2 DEF Written
  <2>3. CASE q.base = p.base
    <3>1. (q.offset + k) - p.offset \notin 1..n
      <4> SUFFICES ASSUME (q.offset + k) - p.offset \in 1..n PROVE FALSE
        OBVIOUS
      <4>1. PICK l \in 1..n : (q.offset + k) - p.offset = l
        OBVIOUS
      <4>2. q.offset + k = p.offset + l
        BY <4>1 DEF Pointer
      <4> QED
        BY <2>3, <4>2, SeparatedIsDisjoint
    <3> QED
      BY <2>1, <2>3, <3>1 DEF Written
  <2> QED
    BY <2>2, <2>3
<1> QED
  BY <1>1, <1>2 DEF Holds

(* What a store through an address that is held does to the objects. *)
LEMMA StoreShape ==
  ASSUME IInv, NEW r \in regs, NEW v \in Value, phase = "function",
         cells' = Written(r.real, Bits[r.type], v), InBounds(r.real, Bits[r.type]),
         UNCHANGED <<used, phase, n_allocs, entry, regs>>, known' \subseteq Fact
  PROVE  TypeOK' /\ Bases' /\ GlobalsApart'
<1> USE DEF IInv
<1>1. /\ cells' \in Seq(Seq(Cell)) /\ Len(cells') = Len(cells)
      /\ DOMAIN cells' = DOMAIN cells
  BY RegisterFacts, WrittenShape DEF Bases
<1> QED
  BY <1>1 DEF TypeOK, Bases, GlobalsApart, Cell

LEMMA StoreStep ==
  ASSUME IInv, Store
  PROVE  IInv'
<1> USE DEF IInv
<1>1. PICK r \in regs, v \in Value :
        /\ InBounds(r.real, Bits[r.type])
        /\ cells' = Written(r.real, Bits[r.type], v)
        /\ known' =
             {f \in known : separated(f.at, Bits[f.type], r.why3, Bits[r.type])}
             \cup {[at |-> r.why3, type |-> r.type, val |-> v]}
  BY DEF Store
<1>2. phase = "function" /\ UNCHANGED <<used, phase, n_allocs, entry, regs>>
  BY DEF Store
<1>3. known' \subseteq Fact
  BY <1>1, RegisterFacts DEF Fact, TypeOK
<1>4. TypeOK' /\ Bases' /\ GlobalsApart'
  BY <1>1, <1>2, <1>3, StoreShape
<1>5. KnownIsTrue'
  <2> SUFFICES ASSUME Consistent, Exact, NEW f \in known'
               PROVE  Holds(f.at, Bits[f.type], f.val)'
    BY <1>2 DEF KnownIsTrue, Consistent, Exact
  <2>1. r.why3 = r.real /\ r.real \in Pointer /\ Bits[r.type] \in Nat
        /\ r.real.base \in DOMAIN cells
    BY RegisterFacts DEF Exact, Bases
  <2>2. CASE f = [at |-> r.why3, type |-> r.type, val |-> v]
    <3>1. f.at = r.real /\ f.type = r.type /\ f.val = v
      BY <2>1, <2>2
    <3> QED
      BY <1>1, <2>1, <3>1, StoreThenLoad
  <2>3. CASE f \in known /\ separated(f.at, Bits[f.type], r.why3, Bits[r.type])
    <3>1. Holds(f.at, Bits[f.type], f.val)
      BY <2>3 DEF KnownIsTrue
    <3> QED
      BY <1>1, <2>1, <2>3, <3>1, FactFacts, LoadSeparation
  <2> QED
    BY <1>1, <2>2, <2>3
<1> QED
  BY <1>4, <1>5

LEMMA CallWritesStep ==
  ASSUME IInv, CallWrites
  PROVE  IInv'
<1> USE DEF IInv
<1>1. PICK r \in regs, v \in Value :
        /\ InBounds(r.real, Bits[r.type])
        /\ cells' = Written(r.real, Bits[r.type], v)
  BY DEF CallWrites
<1>2. /\ phase = "function" /\ UNCHANGED <<used, phase, n_allocs, entry, regs>>
      /\ known' = {}
  BY DEF CallWrites
<1>3. TypeOK' /\ Bases' /\ GlobalsApart'
  BY <1>1, <1>2, StoreShape
<1>4. KnownIsTrue'
  BY <1>2 DEF KnownIsTrue
<1> QED
  BY <1>3, <1>4
-----------------------------------------------------------------------------
LEMMA Inductive == IInv /\ [Next]_vars => IInv'
<1> SUFFICES ASSUME IInv, [Next]_vars PROVE IInv'
  OBVIOUS
<1>1. \A t \in used : Bits[t] \in Nat /\ \A n \in {1, 2} : Bits[t] * n \in Nat
  BY UsedAreTypes, MemModelAssumption DEF IInv
<1>2. CASE state_after_global
  BY <1>1, <1>2, AllocStep DEF state_after_global
<1>3. CASE Alloca
  BY <1>1, <1>3, AllocStep DEF Alloca
<1>4. CASE CallAllocates
  BY <1>1, <1>4, AllocStep DEF CallAllocates
<1>5. CASE UNCHANGED vars
  BY <1>5 DEF vars, IInv, TypeOK, Bases, GlobalsApart, KnownIsTrue, Consistent, Exact,
              Holds, InBounds
<1> QED
  BY <1>2, <1>3, <1>4, <1>5, InitStep, EnterStep, GetElementPtrStep, LoadStep,
     StoreStep, CallWritesStep DEF Next

LEMMA Initially == Init => IInv
<1> SUFFICES ASSUME Init PROVE IInv
  OBVIOUS
<1>1. cells = <<>> /\ DOMAIN cells = {} /\ Len(cells) = 0
  BY DEF Init
<1> QED
  BY <1>1 DEF Init, IInv, TypeOK, Bases, GlobalsApart, KnownIsTrue

LEMMA Invariance == Spec => []IInv
  BY Initially, Inductive, PTL DEF Spec

(* The memory is made of objects of bits, the theory's facts and addresses *)
(* are of the types that exist, and the entry's n_allocs is a past one.    *)
THEOREM TypeCorrect == Spec => []TypeOK
<1>1. IInv => TypeOK
  BY DEF IInv
<1> QED
  BY <1>1, Invariance, PTL

(* Soundness of the axioms of loads and stores for every program: where    *)
(* the theories are consistent and the addresses exact, what Why3 knows to *)
(* be in memory is there.                                                  *)
THEOREM KnownSound == Spec => []KnownIsTrue
<1>1. IInv => KnownIsTrue
  BY DEF IInv
<1> QED
  BY <1>1, Invariance, PTL

(* The numbers of `alloc' tell every two objects apart, whatever is        *)
(* allocated, called or computed.                                          *)
THEOREM BasesSound == Spec => []BasesIdentifyObjects
<1>1. IInv => BasesIdentifyObjects
  BY DEF IInv, Bases, BasesIdentifyObjects
<1> QED
  BY <1>1, Invariance, PTL
-----------------------------------------------------------------------------
(* The axioms of theory LLVMPtr on pointers as integers.  I stands for     *)
(* the integers of the size of a pointer, whichever --int-mode gives them: *)
(* add is its addition, and steps[i][p] the offset that i times the size   *)
(* of what p points to comes to.                                           *)
AnyPointer == [base : Int, offset : Int]

PtrIntAxioms(I, add, steps, to, of) ==
  /\ \A p \in AnyPointer : of[to[p]] = p
  /\ \A p \in AnyPointer, i \in I :
       of[add[i][to[p]]] = offset_pointer(p, steps[i][p])

(* to_from_ptrint and offset_ptrint contradict each other, whatever the    *)
(* integers are, as long as any of them can be added to: the sum that      *)
(* leads from one object's address to another's stays in the first object  *)
(* for the second axiom, and is in the other for the first.  Every theory  *)
(* that imports LLVMPtr proves every goal.                                 *)
THEOREM PtrIntContradiction ==
  ASSUME NEW I, NEW add \in [I -> [I -> I]],
         NEW steps \in [I -> [AnyPointer -> Int]],
         NEW to \in [AnyPointer -> I], NEW of \in [I -> AnyPointer],
         \A x \in I, y \in I : \E i \in I : add[i][x] = y
  PROVE  ~PtrIntAxioms(I, add, steps, to, of)
<1> SUFFICES ASSUME PtrIntAxioms(I, add, steps, to, of) PROVE FALSE
  OBVIOUS
<1> DEFINE p == [base |-> 0, offset |-> 0]
           q == [base |-> 1, offset |-> 0]
<1>1. p \in AnyPointer /\ q \in AnyPointer
  BY DEF AnyPointer
<1>2. PICK i \in I : add[i][to[p]] = to[q]
  BY <1>1
<1>3. of[to[q]] = q /\ of[add[i][to[p]]] = offset_pointer(p, steps[i][p])
  BY <1>1 DEF PtrIntAxioms
<1>4. PICK n \in Int : q = offset_pointer(p, n)
  BY <1>1, <1>2, <1>3
<1>5. offset_pointer(p, n) = [base |-> 0, offset |-> n]
  BY DEF offset_pointer
<1> QED
  BY <1>4, <1>5
=============================================================================
