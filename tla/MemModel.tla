------------------------------ MODULE MemModel ------------------------------
(***************************************************************************)
(* The memory model of src/esc_why3.cpp (theories State, Pointer, Alloc,   *)
(* MemorySet, LLVMPtr and Globals; --mem-model default) against a machine. *)
(*                                                                         *)
(* The machine has objects made of bits and real addresses.  The theories  *)
(* have pointers, made of the number of an object and an offset in bits,   *)
(* and n_allocs, the number of the next object.  What they let Why3        *)
(* conclude about the contents of memory is the set of facts "a load at    *)
(* this pointer, at this type, gives this value".  The axioms add facts at *)
(* a store (store_then_load) and keep those that are `separated' from it   *)
(* (load_separation).                                                      *)
(*                                                                         *)
(* First the globals are allocated and initialised, then a function is     *)
(* entered, which allocates, loads, stores, computes addresses and calls.  *)
(* An access outside an object has no behaviour.  The size and static      *)
(* fields, and valid_read and valid_write which read them, are left out:   *)
(* nothing that WhyR prints uses them.                                     *)
(***************************************************************************)
EXTENDS Integers, Sequences, FiniteSets

CONSTANTS Type,        (* types that are stored in memory                  *)
          Bits,        (* Bits[t]: the size of a t                         *)
          Why3Type,    (* Why3Type[t]: its name in Why3                    *)
          TypeSets,    (* the sets of types a function may use             *)
          PtrBits,     (* the size of a pointer                            *)
          Value,
          Index,       (* indices of getelementptr                         *)
          MaxObjects,  (* how many objects are allocated at most           *)
          MaxRegs      (* how many addresses are held at most              *)

ASSUME MemModelAssumption ==
  /\ Bits \in [Type -> Nat]
  /\ TypeSets \subseteq SUBSET Type
  /\ PtrBits \in Nat
  /\ Index \subseteq Int
  /\ MaxObjects \in Nat /\ MaxRegs \in Nat

VARIABLES used,      (* the types whose theories are imported              *)
          phase,     (* "globals", "init" or "function"                    *)
          cells,     (* cells[b][k]: bit k of object b                     *)
          n_allocs,
          entry,     (* n_allocs at the function's entry                   *)
          regs,      (* the addresses held: the machine's and the theory's *)
          known      (* the facts                                          *)

vars == <<used, phase, cells, n_allocs, entry, regs, known>>

Pointer == [base : Nat, offset : Int]
Register == [real : Pointer, why3 : Pointer, type : Type]
Fact == [at : Pointer, type : Type, val : Value]

offset_pointer(p, n) == [p EXCEPT !.offset = @ + n]

FaultySeparated(a, i, b, j) ==
  \/ a.base # b.base
  \/ /\ b.offset > a.offset \/ a.offset > b.offset + j
     /\ a.offset > b.offset \/ b.offset > a.offset

separated(a, i, b, j) ==
  \/ a.base # b.base
  \/ /\ b.offset > a.offset \/ a.offset > b.offset + j
     /\ a.offset > b.offset \/ b.offset > a.offset + i

allocated_after(n, p) == n >= p.base
-----------------------------------------------------------------------------
(* The machine's memory *)

Undef == <<>>
Blank(n) == [k \in 1..n |-> Undef]
InBounds(p, n) == /\ p.base \in DOMAIN cells
                  /\ \A k \in 1..n : p.offset + k \in DOMAIN cells[p.base]

(* Bit k of a value v is <<v, k>>; an offset of 0 is before the first bit. *)
Written(p, n, v) ==
  [cells EXCEPT ![p.base] =
    [k \in DOMAIN @ |-> IF k - p.offset \in 1..n THEN <<v, k - p.offset>> ELSE @[k]]]
Holds(p, n, v) ==
  InBounds(p, n) /\ \A k \in 1..n : cells[p.base][p.offset + k] = <<v, k>>

Init ==
  /\ used \in TypeSets
  /\ phase = "globals"
  /\ cells = <<>>
  /\ n_allocs = 1 /\ entry = 1
  /\ regs = {} /\ known = {}

(* The machine takes a new object, the theory the number n_allocs. *)
Room == Len(cells) < MaxObjects /\ Cardinality(regs) < MaxRegs
New(t) == [real |-> [base |-> Len(cells) + 1, offset |-> 0],
           why3 |-> [base |-> n_allocs, offset |-> 0], type |-> t]

FaultyAlloc(t, n) ==
  /\ Room
  /\ cells' = Append(cells, Blank(n))
  /\ n_allocs' = n_allocs
  /\ regs' = regs \cup {New(t)}

alloc(t, n) ==
  /\ Room
  /\ cells' = Append(cells, Blank(n))
  /\ n_allocs' = n_allocs + 1
  /\ regs' = regs \cup {New(t)}
-----------------------------------------------------------------------------
(* theory Globals *)

state_after_global ==
  /\ phase = "globals"
  /\ \E t \in used : alloc(t, Bits[t])
  /\ UNCHANGED <<used, phase, entry, known>>

(* state_init: one store for every global. *)
init_state ==
  /\ phase = "globals"
  /\ \E ini \in [regs -> Value] :
       /\ cells' = [b \in DOMAIN cells |->
            [k \in DOMAIN cells[b] |->
               <<ini[CHOOSE r \in regs : r.real.base = b], k>>]]
       /\ known' = {[at |-> r.why3, type |-> r.type, val |-> ini[r]] : r \in regs}
  /\ phase' = "init"
  /\ UNCHANGED <<used, n_allocs, entry, regs>>

FaultyEnterCountsOne ==
  /\ phase = "init"
  /\ phase' = "function"
  /\ entry' = n_allocs + 1
  /\ known' = {}
  /\ UNCHANGED <<used, cells, n_allocs, regs>>

(* entry_state is a constant of which nothing is said. *)
Enter ==
  /\ phase = "init"
  /\ phase' = "function"
  /\ entry' = n_allocs
  /\ known' = {}
  /\ UNCHANGED <<used, cells, n_allocs, regs>>
-----------------------------------------------------------------------------
(* The instructions *)

Alloca ==
  /\ phase = "function"
  /\ \E t \in used, n \in {1, 2} : alloc(t, Bits[t] * n)
  /\ UNCHANGED <<used, phase, entry, known>>

(* getelementptr and bitcast.  The first index steps over what the pointer *)
(* points to, by the size of a pointer in the theory; the second over the  *)
(* elements of an array, whose type the result points to.                  *)
GetElementPtr ==
  /\ phase = "function"
  /\ \E r \in regs, t \in used, i \in Index, j \in Index :
       LET s == [real |-> offset_pointer(r.real, Bits[r.type] * i + Bits[t] * j),
                 why3 |-> offset_pointer(r.why3, PtrBits * i + Bits[t] * j),
                 type |-> t]
       IN /\ InBounds(s.real, 1) /\ Cardinality(regs) < MaxRegs
          /\ regs' = regs \cup {s}
  /\ UNCHANGED <<used, phase, cells, n_allocs, entry, known>>

(* The value that was loaded is a constant of the theory. *)
Load ==
  /\ phase = "function"
  /\ \E r \in regs, v \in Value :
       /\ Holds(r.real, Bits[r.type], v)
       /\ known' = known \cup {[at |-> r.why3, type |-> r.type, val |-> v]}
  /\ UNCHANGED <<used, phase, cells, n_allocs, entry, regs>>

Store ==
  /\ phase = "function"
  /\ \E r \in regs, v \in Value :
       /\ InBounds(r.real, Bits[r.type])
       /\ cells' = Written(r.real, Bits[r.type], v)
       /\ known' =
            {f \in known : separated(f.at, Bits[f.type], r.why3, Bits[r.type])}
            \cup {[at |-> r.why3, type |-> r.type, val |-> v]}
  /\ UNCHANGED <<used, phase, n_allocs, entry, regs>>

(* A call writes and allocates, and may return what it allocated.  Nothing *)
(* is known afterwards: without an assigns clause exit_state is arbitrary, *)
(* and with one the axiom of havoc keeps a load at e only if `mem e ms' is *)
(* false, which no axiom ever says.                                        *)
CallWrites ==
  /\ phase = "function"
  /\ \E r \in regs, v \in Value :
       /\ InBounds(r.real, Bits[r.type])
       /\ cells' = Written(r.real, Bits[r.type], v)
  /\ known' = {}
  /\ UNCHANGED <<used, phase, n_allocs, entry, regs>>

CallAllocates ==
  /\ phase = "function"
  /\ \E t \in used : alloc(t, Bits[t])
  /\ known' = {}
  /\ UNCHANGED <<used, phase, entry>>

Next == \/ state_after_global \/ init_state \/ Enter
        \/ Alloca \/ GetElementPtr \/ Load \/ Store \/ CallWrites \/ CallAllocates

Spec == Init /\ [][Next]_vars
-----------------------------------------------------------------------------
TypeOK ==
  /\ used \in TypeSets
  /\ phase \in {"globals", "init", "function"}
  /\ cells \in Seq(Seq({Undef} \cup (Value \X Nat)))
  /\ n_allocs \in Nat /\ entry \in 1..n_allocs
  /\ regs \subseteq Register /\ known \subseteq Fact

(* The axioms `size' and `bits_gt_0': `bits' is a function of the Why3     *)
(* type alone, and positive.                                               *)
Consistent ==
  \A t, u \in used : /\ Bits[t] > 0
                     /\ Why3Type[t] = Why3Type[u] => Bits[t] = Bits[u]

(* The theory's pointers are the machine's. *)
Exact == \A r \in regs : r.why3 = r.real

(* Soundness of store_then_load and load_separation: whatever was stored   *)
(* through whichever pointers of whichever types, each value Why3 knows to *)
(* be in memory is there, as long as addresses are computed exactly.       *)
KnownIsTrue ==
  Consistent /\ Exact => \A f \in known : Holds(f.at, Bits[f.type], f.val)

(* Two addresses point into one object in the theory exactly when they do  *)
(* in the machine: an allocation never reuses a number, across globals,    *)
(* allocas and callees, and no arithmetic leads from one to another.       *)
BasesIdentifyObjects ==
  \A r, s \in regs : r.why3.base = s.why3.base <=> r.real.base = s.real.base
=============================================================================
