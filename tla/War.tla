--------------------------------- MODULE War ---------------------------------
(***************************************************************************)
(* WhyR's own annotations, from the string in the metadata to Why3:        *)
(* parseWarString (src/war.cpp) with the generated scanner (src/war.l) and *)
(* parser (src/war.y), called for one annotation after another, and        *)
(* toWhy3 of the expressions that have names.                              *)
(*                                                                         *)
(* Scanner and parser keep global state from one call to the next.  The    *)
(* scanner fills its buffer from yyin when it has scanned all of it, and   *)
(* must look beyond a word to see that it ends; it starts afresh only when *)
(* it has returned the end of the input.  An exception thrown by the       *)
(* parser leaves it where it was, and the annotation that caused it is     *)
(* given up with an error.                                                 *)
(*                                                                         *)
(* The parser looks at the next token only where it has to.  Expressions   *)
(* are reduced to the grammar of WarTerms.  Annotations have no blanks at  *)
(* their ends and fit the scanner's buffer.                                *)
(***************************************************************************)
EXTENDS WarTerms

CONSTANTS Name,      (* names of logic locals                               *)
          Files,     (* the annotations of a module, in the order they are read *)
          Sentences  (* terms of the language, the closed ones of Files among them *)

(* Words and locals that no annotation has, but that come about where two  *)
(* are read as one.                                                        *)
Word == {"true", "forall", "let", "label", "other word"}
LocalToken == Name \cup {"other local"}
Sign == {"&&", "(", ")", ",", ";", ":", "="}
End == "end of input"

ASSUME WarAssumption ==
  /\ Name \cap (Word \cup Sign \cup {"other local", End, "none"}) = {}
  /\ \A f \in Files : f \in Seq(Seq(Word \cup Name \cup Sign) \ {<<>>})

VARIABLES file,      (* the texts of the annotations                        *)
          results,   (* what became of those that were read                 *)
          reading,   (* parseWarString is running                           *)
          yyin,      (* what of the current text is not in the buffer yet   *)
          buffer,    (* what is in the scanner's buffer                     *)
          next,      (* where in the buffer it goes on                      *)
          status,    (* yy_buffer_status                                    *)
          la,        (* the token the parser looks at, or "none"            *)
          stack,     (* the parser's stack: [sym, ids] of binders           *)
          declared,  (* the names of the LogicLocals made                   *)
          scope,     (* warParserSource->logicLocals                        *)
          nodes,     (* the expressions made: [op, ids]                     *)
          label      (* where warParserSource->label points to, 0 for NULL  *)

scanner == <<yyin, buffer, next, status>>
parser == <<stack, declared, scope, nodes, label>>
vars == <<file, results, reading, scanner, la, parser>>

Init ==
  /\ file \in Files
  /\ results = <<>> /\ reading = FALSE
  /\ yyin = <<>> /\ buffer = <<>> /\ next = 1 /\ status = "new"
  /\ la = "none" /\ stack = <<>> /\ declared = <<>>
  /\ scope = [x \in LocalToken |-> <<>>] /\ nodes = <<>> /\ label = 0

(* yyin = fmemopen(...), and a new source; the buffer is left as it is.    *)
parseWarString ==
  /\ ~reading /\ Len(results) < Len(file)
  /\ reading' = TRUE
  /\ yyin' = file[Len(results) + 1]
  /\ stack' = <<>> /\ declared' = <<>> /\ nodes' = <<>> /\ label' = 0
  /\ scope' = [x \in LocalToken |-> <<>>] /\ la' = "none"
  /\ UNCHANGED <<file, results, buffer, next, status>>
-----------------------------------------------------------------------------
(* The scanner *)

LookAhead == reading /\ la = "none"
Rest == SubSeq(buffer, next, Len(buffer))

(* The token is within the buffer, or is a sign that cannot be longer.     *)
ScanToken ==
  /\ LookAhead /\ Rest # <<>>
  /\ Len(Rest) > 1 \/ Head(Rest) \in Sign \ {"="}
  /\ la' = Head(Rest) /\ next' = next + 1
  /\ UNCHANGED <<file, results, reading, yyin, buffer, status, parser>>

(* The token reaches the end of the buffer and could go on in what yyin    *)
(* still has; what is not scanned moves to the front.                      *)
Joined(token, text) ==
  IF token \in LocalToken /\ Head(text) \in Word \cup LocalToken
  THEN <<"other local">> \o Tail(text)
  ELSE IF token \in Word /\ Head(text) \in Word
  THEN <<"other word">> \o Tail(text)
  ELSE <<token>> \o text
ScanAcross ==
  /\ LookAhead /\ Len(Rest) = 1 /\ Head(Rest) \notin Sign \ {"="} /\ yyin # <<>>
  /\ buffer' = Joined(Head(Rest), yyin) /\ next' = 1 /\ yyin' = <<>>
  /\ UNCHANGED <<file, results, reading, status, la, parser>>

(* It ends there, and the scanner knows by now that the input does.        *)
ScanLastToken ==
  /\ LookAhead /\ Len(Rest) = 1 /\ Head(Rest) \notin Sign \ {"="} /\ yyin = <<>>
  /\ la' = Head(Rest) /\ next' = next + 1 /\ status' = "eof pending"
  /\ UNCHANGED <<file, results, reading, yyin, buffer, parser>>

Fill ==
  /\ LookAhead /\ Rest = <<>> /\ status # "eof pending" /\ yyin # <<>>
  /\ buffer' = yyin /\ next' = 1 /\ yyin' = <<>> /\ status' = "normal"
  /\ UNCHANGED <<file, results, reading, la, parser>>

(* yyrestart: the buffer is new again, and begins with a NUL.              *)
ScanEnd ==
  /\ LookAhead /\ Rest = <<>>
  /\ status = "eof pending" \/ yyin = <<>>
  /\ la' = End
  /\ buffer' = <<"NUL">> \o Tail(buffer) /\ next' = Len(buffer) + 1 /\ status' = "new"
  /\ UNCHANGED <<file, results, reading, yyin, parser>>
-----------------------------------------------------------------------------
(* The parser.  A binder on the stack collects its locals: "forall" and    *)
(* "let" wait for a name, "forall $" and "let $" have one, "let =" waits    *)
(* for its value, and QUANT and LET are quant_header and let_header.       *)

Top == IF stack = <<>> THEN "bottom" ELSE Last(stack).sym
Below == IF Len(stack) < 2 THEN "bottom" ELSE stack[Len(stack) - 1].sym
Push(sym) == Append(stack, [sym |-> sym, ids |-> <<>>])
Become(s, sym, ids) == Append(Front(s), [sym |-> sym, ids |-> ids])

Operand == Top \in {"bottom", ":", "&&", "(", "let =", "QUANT", "LET"}
Node0(op, ids) == [op |-> op, ids |-> ids]
IdsOf(x, ids) == SelectSeq(ids, LAMBDA i : declared[i] = x)

Shift ==
  /\ \/ Operand /\ la \in {"(", "forall", "let"}
     \/ Top = "word" /\ la = ":"
     \/ Top = "expr" /\ la = "&&" /\ Below # "&&"
  /\ stack' = Push(la) /\ la' = "none"
  /\ UNCHANGED <<file, results, reading, scanner, declared, scope, nodes, label>>

(* The token is a pointer into the buffer.                                 *)
ShiftLabel ==
  /\ stack = <<>> /\ la \in {"label", "other word"}
  /\ stack' = Push("word") /\ label' = next - 1 /\ la' = "none"
  /\ UNCHANGED <<file, results, reading, scanner, declared, scope, nodes>>

war_parse_bool_const ==
  /\ Operand /\ la = "true"
  /\ stack' = Push("expr") /\ nodes' = Append(nodes, Node0("true", <<>>)) /\ la' = "none"
  /\ UNCHANGED <<file, results, reading, scanner, declared, scope, label>>

(* The last local of that name.                                            *)
LogicExpressionLocal ==
  /\ Operand /\ la \in LocalToken /\ scope[la] # <<>>
  /\ stack' = Push("expr") /\ la' = "none"
  /\ nodes' = Append(nodes, Node0("local", <<Last(scope[la])>>))
  /\ UNCHANGED <<file, results, reading, scanner, declared, scope, label>>

(* No more than the parser needs to know is needed to reduce ( expr ).     *)
Close ==
  /\ Top = "expr" /\ Below = "(" /\ la = ")"
  /\ stack' = Append(SubSeq(stack, 1, Len(stack) - 2), [sym |-> "expr", ids |-> <<>>])
  /\ la' = "none"
  /\ UNCHANGED <<file, results, reading, scanner, declared, scope, nodes, label>>

war_parse_decl_item ==
  /\ Top \in {"forall", "let"} /\ la \in LocalToken
  /\ declared' = Append(declared, la)
  /\ stack' = Become(stack, IF Top = "forall" THEN "forall $" ELSE "let $",
                     Append(Last(stack).ids, Len(declared) + 1))
  /\ la' = "none"
  /\ UNCHANGED <<file, results, reading, scanner, scope, nodes, label>>

ShiftInBinder ==
  /\ \/ Top = "forall $" /\ la = "," /\ stack' = Become(stack, "forall", Last(stack).ids)
     \/ Top = "let $" /\ la = "=" /\ stack' = Become(stack, "let =", Last(stack).ids)
     \/ /\ Top = "expr" /\ Below = "let =" /\ la = ","
        /\ stack' = Become(Front(stack), "let", Last(Front(stack)).ids)
  /\ la' = "none"
  /\ UNCHANGED <<file, results, reading, scanner, declared, scope, nodes, label>>

war_add_quant_locals ==
  /\ Top = "forall $" /\ la = ";"
  /\ scope' = [x \in LocalToken |-> scope[x] \o IdsOf(x, Last(stack).ids)]
  /\ stack' = Become(stack, "QUANT", Last(stack).ids) /\ la' = "none"
  /\ UNCHANGED <<file, results, reading, scanner, declared, nodes, label>>

war_add_let_locals ==
  /\ Top = "expr" /\ Below = "let =" /\ la = ";"
  /\ LET ids == Last(Front(stack)).ids
     IN  /\ scope' = [x \in LocalToken |-> scope[x] \o IdsOf(x, ids)]
         /\ stack' = Become(Front(stack), "LET", ids)
  /\ la' = "none"
  /\ UNCHANGED <<file, results, reading, scanner, declared, nodes, label>>

(* Reductions by the next token; only && binds stronger than a binder.     *)
Reduce(op, ids) ==
  /\ stack' = Append(SubSeq(stack, 1, Len(stack) - 2 - (IF op = "&&" THEN 1 ELSE 0)),
                     [sym |-> "expr", ids |-> <<>>])
  /\ nodes' = Append(nodes, Node0(op, ids))
  /\ UNCHANGED <<file, results, reading, scanner, la, declared, label>>

war_parse_bin_bool_op ==
  /\ Top = "expr" /\ Below = "&&" /\ la # "none"
  /\ Reduce("&&", <<>>)
  /\ UNCHANGED scope

FaultyParseBinderKeepsLocals ==
  /\ Top = "expr" /\ Below \in {"QUANT", "LET"} /\ la \notin {"none", "&&"}
  /\ Reduce(IF Below = "QUANT" THEN "forall" ELSE "let", Last(Front(stack)).ids)
  /\ UNCHANGED scope

(* war_parse_quant and war_parse_let: the locals are taken off again.      *)
ParseBinder ==
  /\ Top = "expr" /\ Below \in {"QUANT", "LET"} /\ la \notin {"none", "&&"}
  /\ LET ids == Last(Front(stack)).ids
     IN  /\ Reduce(IF Below = "QUANT" THEN "forall" ELSE "let", ids)
         /\ scope' = [x \in LocalToken |->
                        SubSeq(scope[x], 1, Len(scope[x]) - Len(IdsOf(x, ids)))]

Returned == [ok |-> TRUE, nodes |-> nodes, declared |-> declared, label |-> label]
Accept ==
  /\ la = End /\ Top = "expr" /\ Below \in {"bottom", ":"}
  /\ results' = Append(results, Returned)
  /\ reading' = FALSE /\ la' = "none"
  /\ UNCHANGED <<file, scanner, parser>>

(* yyerror, or the constructor of a local, throws; annotate records the    *)
(* error and goes on to the next annotation.                               *)
Stuck ==
  /\ la # "none"
  /\ ~ENABLED (Shift \/ ShiftLabel \/ war_parse_bool_const \/ LogicExpressionLocal \/ Close
               \/ war_parse_decl_item \/ ShiftInBinder \/ war_add_quant_locals
               \/ war_add_let_locals \/ war_parse_bin_bool_op \/ ParseBinder \/ Accept)

FaultyThrowTriesAgain ==
  /\ Stuck
  /\ reading' = FALSE /\ la' = "none"
  /\ UNCHANGED <<file, results, scanner, parser>>

Throw ==
  /\ Stuck
  /\ results' = Append(results, [ok |-> FALSE, at |-> la])
  /\ reading' = FALSE /\ la' = "none"
  /\ UNCHANGED <<file, scanner, parser>>

Next == \/ parseWarString
        \/ ScanToken \/ ScanAcross \/ ScanLastToken \/ Fill \/ ScanEnd
        \/ Shift \/ ShiftLabel \/ Close \/ ShiftInBinder
        \/ war_parse_bool_const \/ LogicExpressionLocal \/ war_parse_bin_bool_op
        \/ war_parse_decl_item \/ war_add_quant_locals \/ war_add_let_locals \/ ParseBinder
        \/ Accept \/ Throw

(* Sequential code. *)
Spec == Init /\ [][Next]_vars /\ WF_vars(Next)
-----------------------------------------------------------------------------
(* toWhy3.  A tree as it is printed: a binder has one token for each name,  *)
(* and tokens carry which binder they are or mean, as <<node, k>>.         *)

(* The tree of WarTerms that the expressions made are.                     *)
Tree(result) ==
  [ i \in DOMAIN result.nodes |->
      LET n == result.nodes[i]
          named == [k \in DOMAIN n.ids |-> result.declared[n.ids[k]]]
      IN  IF n.op # "local" THEN Node(n.op, named, <<>>)
          ELSE LET j == CHOOSE j \in DOMAIN result.nodes :
                          /\ result.nodes[j].op \in {"forall", "let"}
                          /\ n.ids[1] \in ToSet(result.nodes[j].ids)
                   k == CHOOSE k \in DOMAIN result.nodes[j].ids : result.nodes[j].ids[k] = n.ids[1]
               IN  Node("local", named, <<j - i, k>>) ]

Token(t, name, binder) == [t |-> t, name |-> name, binder |-> binder]
Mark(t) == Token(t, "", <<>>)

FaultyToWhy3ReversesBinders(tree, i, texts) ==
  LET n == tree[i]
      binder(k) == Token(n.op, n.names[k], <<i, k>>)
      body == Last(texts)
  IN CASE n.op = "true" -> <<Mark("true")>>
       [] n.op = "local" -> <<Token("local", n.names[1], <<i + n.to[1], n.to[2]>>)>>
       [] n.op = "&&" -> <<Mark("(")>> \o texts[1] \o <<Mark("&&")>> \o texts[2] \o <<Mark(")")>>
       [] n.op = "forall" -> Reverse([k \in DOMAIN n.names |-> binder(k)]) \o body
       [] n.op = "let" ->
            FlattenSeq([k \in DOMAIN n.names |-> <<binder(k)>> \o texts[k] \o <<Mark("in")>>])
              \o body

(* LogicExpressionQuantifier, Let, BinaryBoolean and Local: toWhy3 of node i *)
(* from the texts of its operands.                                         *)
toWhy3(tree, i, texts) ==
  LET n == tree[i]
      binder(k) == Token(n.op, n.names[k], <<i, k>>)
      body == Last(texts)
  IN CASE n.op = "true" -> <<Mark("true")>>
       [] n.op = "local" -> <<Token("local", n.names[1], <<i + n.to[1], n.to[2]>>)>>
       [] n.op = "&&" -> <<Mark("(")>> \o texts[1] \o <<Mark("&&")>> \o texts[2] \o <<Mark(")")>>
       [] n.op = "forall" -> [k \in DOMAIN n.names |-> binder(k)] \o body
       [] n.op = "let" ->
            FlattenSeq([k \in DOMAIN n.names |-> <<binder(k)>> \o texts[k] \o <<Mark("in")>>])
              \o body

Operands(n) == CASE n.op = "&&" -> 2 [] n.op = "forall" -> 1
                 [] n.op = "let" -> Len(n.names) + 1 [] OTHER -> 0
Printed(tree) ==
  Last(FoldLeft(LAMBDA texts, i :
                  LET below == Len(texts) - Operands(tree[i])
                  IN  Append(SubSeq(texts, 1, below),
                             toWhy3(tree, i, SubSeq(texts, below + 1, Len(texts)))),
                <<>>, [i \in DOMAIN tree |-> i]))

(* Why3 reads it: what is open at a token, innermost last.  A quantifier   *)
(* is open until the parenthesis or the value it is in is closed; a let    *)
(* first for its value and then for its name.                              *)
ClosedTo(open, t) ==
  SubSeq(open, 1, (CHOOSE k \in DOMAIN open :
                     open[k].t = t /\ \A j \in (k + 1)..Len(open) : open[j].t # t) - 1)
Opened(open, token) ==
  CASE token.t \in {"(", "forall", "let"} -> Append(open, token)
    [] token.t = ")" -> ClosedTo(open, "(")
    [] token.t = "in" ->
         Append(ClosedTo(open, "let"),
                LET k == Len(ClosedTo(open, "let")) + 1 IN [open[k] EXCEPT !.t = "let in"])
    [] OTHER -> open
OpenAt(tokens, n) == FoldLeft(Opened, <<>>, SubSeq(tokens, 1, n))

(* The binder that Why3 takes a local for, and whether an operator is      *)
(* within a binder that its left operand begins with.                      *)
MeantByWhy3(open, name) ==
  LET hits == SelectSeq(open, LAMBDA b : b.t \in {"forall", "let in"} /\ b.name = name)
  IN  IF hits = <<>> THEN <<>> ELSE Last(hits).binder
ReadAsMeant(tree) ==
  LET tokens == Printed(tree)
  IN  \A n \in DOMAIN tokens :
        /\ tokens[n].t = "local" => MeantByWhy3(OpenAt(tokens, n), tokens[n].name) = tokens[n].binder
        /\ tokens[n].t = "&&" => Last(OpenAt(tokens, n)).t = "("
-----------------------------------------------------------------------------
(* Each annotation is read from its own text and no other, its locals mean *)
(* what the language says, and it is refused if it is not of the language: *)
(* for the first annotation, for every one after an annotation that was    *)
(* accepted (whatever that was read from), and for every one after an      *)
(* error that was found only at the end of the input.                      *)
Trees == LET closed == {a \in Sentences : Closed(a)}
         IN  [text \in {a.text : a \in closed} |->
                {a.tree : a \in {c \in closed : c.text = text}}]
Meaning(text) == IF text \in DOMAIN Trees THEN Trees[text] ELSE {}
CleanBefore(k) == k = 1 \/ results[k - 1].ok \/ results[k - 1].at = End
Unlabelled(text) == IF IsPrefix(<<"label", ":">>, text) THEN Tail(Tail(text)) ELSE text
ReadsOwnText ==
  ~reading => \A k \in DOMAIN results : CleanBefore(k) =>
    IF results[k].ok
    THEN Tree(results[k]) \in Meaning(Unlabelled(file[k]))
    ELSE Meaning(Unlabelled(file[k])) = {}

(* What Why3 reads is what was parsed, whatever names are declared again   *)
(* within each other, but for two cases: a binder is the left operand of   *)
(* an operator, which prints no parentheses around it; and a value of a    *)
(* let has a local whose name the same let has declared before it.         *)
LeftBinder(tree) ==
  \E i \in DOMAIN tree : tree[i].op = "&&" /\
    LET below == Printed(SubSeq(tree, 1, i)) IN below # <<>> /\ below[2].t \in {"forall", "let"}
LetCapture(tree) ==
  \E i \in DOMAIN tree : tree[i].op = "let" /\
    LET text == Printed(SubSeq(tree, 1, i))
        Defines(n) == text[n].t = "let" /\ text[n].binder[1] = i
    IN  \E m, n \in DOMAIN text :
          /\ Defines(m) /\ text[n].t = "local" /\ text[n].name = text[m].name
          /\ text[n].binder[1] > i
          /\ \E l \in (m + 1)..(n - 1) : Defines(l)
NamesSurvivePrinting ==
  ~reading => \A k \in DOMAIN results : results[k].ok =>
    LET tree == Tree(results[k])
    IN  ReadAsMeant(tree) \/ LeftBinder(tree) \/ LetCapture(tree)

(* Every annotation is read to an end.                                     *)
AnnotationsEnd == <>(Len(results) = Len(file))

(* A label is there when the goals are named after it.                     *)
TextAt(p) == LET nul == SelectInSeq(buffer, LAMBDA t : t = "NUL")
             IN  IF nul < p THEN SubSeq(buffer, p, Len(buffer)) ELSE SubSeq(buffer, p, nul - 1)
LabelsKept ==
  Len(results) = Len(file) =>
    \A k \in DOMAIN results : results[k].ok /\ results[k].label > 0 =>
      TextAt(results[k].label) = <<"label">>
=============================================================================
