------------------------------- MODULE WarTerms -------------------------------
(***************************************************************************)
(* The terms of WhyR's annotation language (WAR) as far as names matter:   *)
(* true, logic locals, an infix operator (one stands for all), quantifiers *)
(* and lets.  This module says how a term is written (src/war.y read as a  *)
(* language) and what each of its locals means; War has the parser.        *)
(*                                                                         *)
(* A tree is the sequence of its nodes, operands first.  A local is bound  *)
(* to <<d, k>>: the k-th name of the binder that is d nodes further on.    *)
(* The types of binders are left out: all locals are of one type.          *)
(***************************************************************************)
EXTENDS Naturals, SequencesExt

Node(op, names, to) == [op |-> op, names |-> names, to |-> to]
Term(text, tree, open, infix) == [text |-> text, tree |-> tree, open |-> open, infix |-> infix]

True == Term(<<"true">>, <<Node("true", <<>>, <<>>)>>, FALSE, FALSE)
Local(x) == Term(<<x>>, <<Node("free", <<x>>, <<>>)>>, FALSE, FALSE)
Paren(a) == Term(<<"(">> \o a.text \o <<")">>, a.tree, FALSE, FALSE)

(* A binder extends as far to the right as it can; operators group to the  *)
(* left.                                                                   *)
And(a, b) ==
  LET l == IF a.open THEN Paren(a) ELSE a
      r == IF b.infix THEN Paren(b) ELSE b
  IN  Term(l.text \o <<"&&">> \o r.text, l.tree \o r.tree \o <<Node("&&", <<>>, <<>>)>>,
           r.open, TRUE)

(* The free locals of a tree with these names are bound, to the last of    *)
(* them if a name is there twice.                                          *)
Bind(names, tree) ==
  [ i \in DOMAIN tree |->
      IF tree[i].op = "free" /\ tree[i].names[1] \in ToSet(names)
      THEN Node("local", tree[i].names,
                <<Len(tree) + 1 - i,
                  CHOOSE k \in DOMAIN names :
                    /\ names[k] = tree[i].names[1]
                    /\ \A j \in DOMAIN names : names[j] = names[k] => j <= k>>)
      ELSE tree[i] ]

Commas(texts) == FlattenSeq([k \in DOMAIN texts |-> IF k = 1 THEN texts[k] ELSE <<",">> \o texts[k]])

Forall(names, a) ==
  Term(<<"forall">> \o Commas([k \in DOMAIN names |-> <<names[k]>>]) \o <<";">> \o a.text,
       Bind(names, a.tree) \o <<Node("forall", names, <<>>)>>, TRUE, FALSE)

(* The names are those of the body only, not of the values.                *)
Let(names, values, a) ==
  Term(<<"let">> \o Commas([k \in DOMAIN names |-> <<names[k], "=">> \o values[k].text])
         \o <<";">> \o a.text,
       FlattenSeq([k \in DOMAIN values |-> values[k].tree])
         \o Bind(names, a.tree) \o <<Node("let", names, <<>>)>>, TRUE, FALSE)

Closed(a) == \A i \in DOMAIN a.tree : a.tree[i].op # "free"
=============================================================================
