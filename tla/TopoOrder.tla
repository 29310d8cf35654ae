----------------------------- MODULE TopoOrder -----------------------------
(***************************************************************************)
(* What WhyR needs of the two ordering functions of esc_why3.cpp,          *)
(* getCorrectDerivedTypeOrder and getCorrectFunctionOrder: Why3 reads a    *)
(* file from top to bottom, so the theory of a type or of a function may   *)
(* be printed only after the theories it names, and a theory is left out   *)
(* only when no order could have served it.                                *)
(*                                                                         *)
(* This is the abstract specification; DepOrder is the code.               *)
(***************************************************************************)
EXTENDS Sequences

CONSTANT Node   (* the derived types, or the functions, of one module *)

VARIABLES deps,      (* deps[n]: the nodes whose theories n's theory names *)
          out,       (* the nodes printed so far, in order                 *)
          finished

topoVars == <<deps, out, finished>>

Placed == {out[i] : i \in DOMAIN out}

(* A node may come next when it is new and everything it names is printed. *)
Placeable(n) == n \in Node \ Placed /\ deps[n] \subseteq Placed

Init == /\ deps \in [Node -> SUBSET Node]
        /\ out = <<>>
        /\ finished = FALSE

Place(n) == /\ ~finished
            /\ Placeable(n)
            /\ out' = Append(out, n)
            /\ UNCHANGED <<deps, finished>>

Finish == /\ ~finished
          /\ \A n \in Node : ~Placeable(n)
          /\ finished' = TRUE
          /\ UNCHANGED <<deps, out>>

Next == Finish \/ \E n \in Node : Place(n)

Spec == Init /\ [][Next]_topoVars
=============================================================================
