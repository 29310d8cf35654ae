------------------------------- MODULE MCWar -------------------------------
(***************************************************************************)
(* Bounds for War: two names; single annotations in which binders are up   *)
(* to two deep with operators between them; and modules of up to three     *)
(* annotations of which some are broken, at every place a text can break.  *)
(***************************************************************************)
EXTENDS War

MCName == {"$x", "$y"}
NamePair == MCName \X MCName

Leaf == {True, Local("$x"), Local("$y")}
Use == {Local("$x"), Local("$y")}
Both == {And(a, b) : a \in Leaf, b \in Leaf}

Foralls(A) == {Forall(<<x>>, a) : x \in MCName, a \in A} \cup {Forall(p, a) : p \in NamePair, a \in A}
Lets(V, A) == {Let(<<x>>, <<v>>, a) : x \in MCName, v \in V, a \in A}
Lets2(V, W, A) == {Let(p, <<v, w>>, a) : p \in NamePair, v \in V, w \in W, a \in A}

Level1 == Leaf \cup Both \cup Foralls(Leaf) \cup Lets(Leaf, Leaf) \cup Lets2(Use, Use, Use)
Between == {And(a, b) : a \in Level1, b \in Leaf} \cup {And(b, a) : a \in Level1, b \in Leaf}
Level2 == Level1 \cup Between
            \cup Foralls(Level1 \cup Between)
            \cup Lets(Leaf, Level1 \cup Between) \cup Lets(Level1, Leaf)
            \cup Lets2(Level1, Use, Use) \cup Lets2(Use, Level1, Use)
Wrapped == {Paren(a) : a \in Leaf \cup Both}
MCSentences == {a \in Level2 \cup Wrapped : Closed(a)}

Long == Forall(<<"$x">>, And(True, And(Local("$x"), True)))
Good == {True, And(True, True), Paren(True), Long, Let(<<"$x">>, <<True>>, Local("$x"))}
Broken == {SubSeq(Long.text, 1, n) : n \in 1..(Len(Long.text) - 1)}
            \cup {<<"$x", "&&", "true">>, <<"true", "true">>, <<"&&", "true">>, <<"true", ")", ";">>,
                  <<"forall", "$x", "let">>, <<"label", "label">>}
Labelled == {<<"label", ":">> \o a.text : a \in {True, And(True, True)}}
Text == {a.text : a \in Good} \cup Broken \cup Labelled

MCFiles == {<<a.text>> : a \in MCSentences \cup Level1}
             \cup {<<s, t>> : s \in Text, t \in Text}
             \cup {<<s, t, u>> : s \in Broken, t \in Text, u \in Text}
=============================================================================
