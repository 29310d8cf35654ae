----------------------------- MODULE MCAnnotate -----------------------------
(* Modules of two and three functions over two ordinary locations and one  *)
(* that counts as allocated after the entry.                               *)
EXTENDS Annotate

MCLoc == {"a", "b", "new"}
MCAllocatedAfter == {"new"}

Plain == [op |-> "plain", addr |-> "a", callee |-> 0,
          assert |-> "none", assume |-> "none", label |-> "none", risky |-> FALSE]
Store(l, a) == [Plain EXCEPT !.op = "store", !.addr = l, !.assert = a]
CallTo(g, a) == [Plain EXCEPT !.op = "call", !.callee = g, !.assert = a]
Risky(a, u) == [Plain EXCEPT !.assert = a, !.assume = u, !.risky = TRUE]
Returning == Plain
Labelled(c) == [Plain EXCEPT !.label = c]

Function(as, body) ==
  [requires |-> "none", ensures |-> "none",
   hasAssigns |-> TRUE, assigns |-> as, body |-> body]
Unframed(body) == [Function(<<>>, body) EXCEPT !.hasAssigns = FALSE]

FramesOf == {<<{"a"}>>, <<{"b"}, {"a"}>>}

(* A leaf that stores, a middle function that calls it, and a third that   *)
(* calls the middle one.                                                   *)
Leaves == {Function(as, <<Store(l, "none"), Returning>>) :
             as \in FramesOf, l \in {"a", "b", "new"}}
          \cup {Unframed(<<Store("b", "none"), Returning>>)}
Callers(g) ==
  {Function(as, <<CallTo(g, a), Store("a", "good"), Returning>>) :
     as \in FramesOf, a \in {"none", "good"}}
  \cup {Unframed(<<CallTo(g, "none"), Returning>>)}
Chains == {<<f, g, h>> : f \in Leaves, g \in Callers(1), h \in Callers(2)}

(* Clauses that do not parse, in every place. *)
Broken ==
  {<<[Function(as, <<Risky(a, u), Store("a", a), Labelled(u)>>)
        EXCEPT !.requires = r, !.ensures = e]>> :
     as \in {<<{"a"}>>, <<BadSet, {"a"}>>, <<{"a"}, BadSet, {"b"}>>},
     r \in {"good", Bad}, e \in {"none", Bad},
     a \in Clauses, u \in Clauses}

(* Functions that call themselves or each other, up and down the file, and *)
(* write what one of them may assign to.                                   *)
Loops ==
  {<<Function(as, <<CallTo(g, "none"), Store(l, "none"), Returning>>),
     Function(bs, <<CallTo(h, "none"), Store(m, "none"), Returning>>)>> :
     as \in FramesOf, bs \in FramesOf, g \in 1..2, h \in 1..2,
     l \in {"a", "b"}, m \in {"a", "b", "new"}}

AllModules == Chains \cup Broken \cup Loops

(* Callers and callees whose frames are any of three. *)
Pairs ==
  {<<Function(as, <<Store("a", "none"), Returning>>),
     Function(bs, <<CallTo(1, "none"), Returning>>)>> :
       as \in FramesOf, bs \in FramesOf}

(* The callee is defined further down, and has no assigns clause. *)
Forward ==
  {<<Function(as, <<CallTo(2, "none"), Returning>>),
     Unframed(<<Store("b", "none"), Returning>>)>> : as \in FramesOf}

(* A function that says it assigns nothing. *)
Pure == {<<Function(<<>>, <<Store(l, "none"), Returning>>)>> : l \in {"a", "new"}}
-----------------------------------------------------------------------------
IsCall(f, i) == mod[f].hasAssigns /\ Body(f)[i].op = "call"
ChecksHoldAt(f, i) == \A c \in asserts[f][i] : Holds(f, i, c)

(* The assertion at a call says that the called function does not assign   *)
(* to anything its caller may not.                                         *)
CallsRespectFrame ==
  stage = "annotated" =>
    \A f \in DOMAIN mod : \A i \in DOMAIN Body(f) :
      IsCall(f, i) /\ mod[Body(f)[i].callee].hasAssigns /\ ChecksHoldAt(f, i)
        => Frame(Body(f)[i].callee) \subseteq Frame(f)

(* A call of a function without an assigns clause cannot be proved.        *)
UnannotatedCalleeUnprovable ==
  stage = "annotated" =>
    \A f \in DOMAIN mod : \A i \in DOMAIN Body(f) :
      IsCall(f, i) /\ ~mod[Body(f)[i].callee].hasAssigns => ~ChecksHoldAt(f, i)

(* A function may be allowed to assign to no location at all. *)
EmptyAssignsAllowed ==
  stage = "annotated" =>
    \A f \in DOMAIN mod : \A i \in DOMAIN Body(f) :
      Conjunct("null") \notin asserts[f][i]
=============================================================================
