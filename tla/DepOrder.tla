------------------------------ MODULE DepOrder ------------------------------
(***************************************************************************)
(* The worklist of getCorrectDerivedTypeOrder and getCorrectFunctionOrder  *)
(* (src/esc_why3.cpp), which the two functions share line for line.  It    *)
(* passes again and again over an unordered_set, notSeen, moving to the    *)
(* result every node none of whose dependencies is still in notSeen, and   *)
(* stops after a pass that moved nothing.  The element the iterator visits *)
(* next is the hash table's business, so any unvisited one may be.         *)
(*                                                                         *)
(* For types, deps is the element type of a pointer, array or vector and   *)
(* the fields of a struct; for functions, TypeInfo::funcsCalled, that is   *)
(* the direct callees and the functions whose block addresses are taken.   *)
(* A recursive function is its own dependency.                             *)
(***************************************************************************)
EXTENDS Naturals, Sequences

CONSTANT Node

VARIABLES deps,      (* what each node depends on; never changes          *)
          notSeen,   (* the unordered_set                                 *)
          pass,      (* the part of notSeen this pass has yet to visit    *)
          changed,   (* the flag of the do-while loop                     *)
          out,       (* the list handed back                              *)
          done       (* the function has returned                         *)

vars == <<deps, notSeen, pass, changed, out, done>>

Emitted == {out[i] : i \in DOMAIN out}

(* Definitions named Faulty... are the definition that follows them with a *)
(* bug put in; no run uses them unless it is to show a property can fail.  *)
FaultyAllSeenIgnoresSelf(n) == deps[n] \cap notSeen \subseteq {n}

(* allSeen: no dependency of n, n itself included, is still in notSeen. *)
AllSeen(n) == deps[n] \cap notSeen = {}

Init == /\ deps \in [Node -> SUBSET Node]
        /\ notSeen = Node
        /\ pass = Node
        /\ changed = FALSE
        /\ out = <<>>
        /\ done = FALSE

(* The iterator visits a node whose dependencies are all in the result. *)
Emit(n) == /\ n \in pass
           /\ AllSeen(n)
           /\ changed' = TRUE
           /\ out' = Append(out, n)
           /\ notSeen' = notSeen \ {n}
           /\ pass' = pass \ {n}
           /\ UNCHANGED <<deps, done>>

(* The iterator visits a node that has to wait. *)
Skip(n) == /\ n \in pass
           /\ ~AllSeen(n)
           /\ pass' = pass \ {n}
           /\ UNCHANGED <<deps, notSeen, changed, out, done>>

FaultyNextPassKeepsChanged == /\ pass = {}
                              /\ changed
                              /\ ~done
                              /\ pass' = notSeen
                              /\ UNCHANGED <<deps, notSeen, changed, out, done>>

FaultyNextPassOverAll == /\ pass = {}
                         /\ changed
                         /\ ~done
                         /\ changed' = FALSE
                         /\ pass' = Node
                         /\ UNCHANGED <<deps, notSeen, out, done>>

(* The pass reached the end and something moved: do it again. *)
NextPass == /\ pass = {}
            /\ changed
            /\ ~done
            /\ changed' = FALSE
            /\ pass' = notSeen
            /\ UNCHANGED <<deps, notSeen, out, done>>

FaultyReturnAfterOnePass == /\ pass = {}
                            /\ ~done
                            /\ done' = TRUE
                            /\ UNCHANGED <<deps, notSeen, pass, changed, out>>

(* The pass moved nothing. *)
Return == /\ pass = {}
          /\ ~changed
          /\ ~done
          /\ done' = TRUE
          /\ UNCHANGED <<deps, notSeen, pass, changed, out>>

Visit == \E n \in Node : Emit(n) \/ Skip(n)

Next == Visit \/ NextPass \/ Return

(* A single-threaded loop keeps running: weak fairness of its own steps. *)
Spec == Init /\ [][Next]_vars /\ WF_vars(Next)
-----------------------------------------------------------------------------
TypeOK == /\ deps \in [Node -> SUBSET Node]
          /\ notSeen \in SUBSET Node
          /\ pass \in SUBSET notSeen
          /\ changed \in BOOLEAN
          /\ out \in Seq(Node)
          /\ done \in BOOLEAN

(* Every printed node comes strictly after everything it depends on, so    *)
(* the Why3 file never names a theory defined further down.                *)
Topological ==
  \A i \in DOMAIN out : deps[out[i]] \subseteq {out[j] : j \in 1..(i - 1)}

(* The list and notSeen split the nodes, and no theory is printed twice.   *)
Partition ==
  /\ Emitted = Node \ notSeen
  /\ \A i, j \in DOMAIN out : out[i] = out[j] => i = j

(* The nodes no order can serve: those of a set each of whose members      *)
(* depends on a member, i.e. the nodes from which a cycle can be reached.  *)
Knotted(S) == \A n \in S : deps[n] \cap S # {}
Hopeless == UNION {S \in SUBSET Node : Knotted(S)}

(* When the function returns, exactly the hopeless nodes are missing,      *)
(* whatever order the hash table was walked in.                            *)
OmitsOnlyHopeless == done => notSeen = Hopeless

(* The do-while loop ends. *)
Terminates == <>done

(* The code computes an order that the abstract specification allows, and  *)
(* gives up only where the specification does.                             *)
Topo == INSTANCE TopoOrder WITH finished <- done
ImplementsTopo == Topo!Spec
=============================================================================
