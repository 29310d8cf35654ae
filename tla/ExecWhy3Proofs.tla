--------------------------- MODULE ExecWhy3Proofs ---------------------------
(***************************************************************************)
(* Safety of ExecWhy3 for pipes, files and answers of any size, and of     *)
(* Why3Answer for answers of any number of lines, cut anywhere.            *)
(*                                                                         *)
(* Nothing is lost in the pipes (Conserved), the child only runs while the *)
(* parent is between fork and the end of waitpid (Alive), and as long as   *)
(* it runs the parent holds the ends that keep it from seeing an early end *)
(* of file or a SIGPIPE (ParentHolds).                                     *)
(*                                                                         *)
(* The second part follows str through the answer, which is a prefix of    *)
(* the text of the lines: it is always at the start of a line, or at the   *)
(* end in a line that is cut (Followed), and each line is read in one step *)
(* whatever is left of it (AtMessage, AtGoal).                             *)
(***************************************************************************)
EXTENDS ExecWhy3, Why3Answer, SequenceTheorems, WellFoundedInduction, TLAPS

Conserved == /\ size = toWrite + inPipe + got
             /\ sent = out + outPipe

Alive ==
  /\ why3 \in {"forked", "exec", "reading", "writing"} =>
       pc \in {"parent", "write", "wait"} /\ "inR" \in holds["why3"]
  /\ pc \in {"pipe", "fork"} => why3 = "none"
  /\ pc \in {"parent", "write", "wait"} => why3 # "none"
  /\ pc \in {"read", "returned"} => why3 = "exited"

ParentHolds ==
  /\ pc \in {"parent", "write", "wait", "read"} => "outR" \in holds["whyr"]
  /\ pc \in {"parent", "write"} => "inW" \in holds["whyr"]
  /\ pc = "wait" => toWrite = 0

Answered ==
  /\ sent <= answer
  /\ why3 \in {"none", "forked", "exec"} => sent = 0
  /\ why3 = "exited" /\ pc \in {"parent", "write", "wait", "read"} => sent = answer
  /\ pc = "returned" => out = answer

IInv == TypeOK /\ Conserved /\ Alive /\ ParentHolds /\ Answered /\ InputComplete

LEMMA InitIInv == Init => IInv
<1> SUFFICES ASSUME Init PROVE IInv
  OBVIOUS
<1> USE DEF Init
<1>1. TypeOK
  <2>1. holds \in [Process -> SUBSET Ends]
    BY DEF Ends, Process
  <2>2. size \in Nat /\ toWrite \in Nat /\ stopAt \in Nat /\ answer \in Nat
    BY SizeAssumption
  <2>3. inPipe \in 0..Cap /\ outPipe \in 0..Cap
    BY SizeAssumption
  <2>4. got \in Nat /\ sent \in Nat /\ out \in Nat /\ eof \in BOOLEAN /\ execFailed \in BOOLEAN
    OBVIOUS
  <2> QED
    BY <2>1, <2>2, <2>3, <2>4 DEF TypeOK
<1>2. Conserved /\ Alive /\ ParentHolds /\ Answered /\ InputComplete
  BY SizeAssumption DEF Conserved, Alive, ParentHolds, Answered, InputComplete
<1> QED
  BY <1>1, <1>2 DEF IInv

LEMMA ParentStep == IInv /\ Parent => IInv'
<1> SUFFICES ASSUME IInv, Parent PROVE IInv'
  OBVIOUS
<1> USE SizeAssumption
<1> USE DEF IInv, TypeOK, Conserved, Alive, ParentHolds, Answered, InputComplete,
            childVars, Over, Process, Ends
<1>1. CASE Pipe
  BY <1>1 DEF Pipe
<1>2. CASE PipeFails
  BY <1>2 DEF PipeFails
<1>3. CASE Fork
  BY <1>3 DEF Fork
<1>4. CASE ForkFails
  BY <1>4 DEF ForkFails
<1>5. CASE CloseChildEnds
  BY <1>5 DEF CloseChildEnds, Close
<1>6. CASE Write
  BY <1>6 DEF Write, Lesser
<1>7. CASE Killed
  <2>1. why3 = "exited"
    BY <1>7 DEF Killed, Open
  <2> QED
    BY <1>7, <2>1 DEF Killed, Close
<1>8. CASE CloseInput
  BY <1>8 DEF CloseInput, Close
<1>9. CASE WaitPid
  BY <1>9 DEF WaitPid
<1>10. CASE Read
  BY <1>10 DEF Read, Lesser
<1>11. CASE ReturnAtEof
  BY <1>11 DEF ReturnAtEof, Close
<1>12. CASE ReadFails
  BY <1>12 DEF ReadFails
<1> QED
  BY <1>1, <1>2, <1>3, <1>4, <1>5, <1>6, <1>7, <1>8, <1>9, <1>10, <1>11, <1>12
  DEF Parent

LEMMA ChildStep == IInv /\ Child => IInv'
<1> SUFFICES ASSUME IInv, Child PROVE IInv'
  OBVIOUS
<1> USE SizeAssumption
<1> USE DEF IInv, TypeOK, Conserved, Alive, ParentHolds, Answered, InputComplete,
            parentVars, Over, Process, Ends
<1>1. CASE Redirect
  BY <1>1 DEF Redirect, Close
<1>2. CASE Exec
  BY <1>2 DEF Exec
<1>3. CASE ExecFails
  BY <1>3 DEF ExecFails
<1>4. CASE ReadInput
  BY <1>4 DEF ReadInput
<1>5. CASE ReadEof
  <2>1. toWrite = 0
    BY <1>5 DEF ReadEof, Open
  <2> QED
    BY <1>5, <2>1 DEF ReadEof
<1>6. CASE StopReading
  BY <1>6 DEF StopReading
<1>7. CASE WriteAnswer
  BY <1>7 DEF WriteAnswer
<1>8. CASE Exit
  <2>1. sent = answer
    BY <1>8 DEF Exit, Open
  <2> QED
    BY <1>8, <2>1 DEF Exit, Close
<1> QED
  BY <1>1, <1>2, <1>3, <1>4, <1>5, <1>6, <1>7, <1>8 DEF Child

LEMMA Stutter == IInv /\ UNCHANGED vars => IInv'
  BY DEF IInv, TypeOK, Conserved, Alive, ParentHolds, Answered, InputComplete,
         vars, parentVars, childVars

LEMMA Inductive == Spec => []IInv
  BY InitIInv, ParentStep, ChildStep, Stutter, PTL DEF Spec, Next

(* The parts of the state keep their types whatever the kernel schedules.  *)
THEOREM TypeCorrect == Spec => []TypeOK
<1>1. IInv => TypeOK
  BY DEF IInv
<1> QED
  BY <1>1, Inductive, PTL

(* execWhy3 returns with all that its child printed, for every size of     *)
(* pipe, file and answer and every interleaving with the child.            *)
THEOREM AnswerIsWhole == Spec => []OutputComplete
<1>1. IInv => OutputComplete
  BY DEF IInv, Alive, Answered, OutputComplete
<1> QED
  BY <1>1, Inductive, PTL

(* Why3 takes no prefix of the file for the file. *)
THEOREM InputIsWhole == Spec => []InputComplete
<1>1. IInv => InputComplete
  BY DEF IInv
<1> QED
  BY <1>1, Inductive, PTL
-----------------------------------------------------------------------------
(* Induction on the numbers.                                               *)
LEMMA AllNat ==
  ASSUME NEW S, 0 \in S, \A n \in Nat : n \in S => n + 1 \in S
  PROVE  \A n \in Nat : n \in S
<1>. SUFFICES ASSUME NEW m \in Nat \ S PROVE FALSE
  OBVIOUS
<1>. DEFINE R == {ss \in Nat \X Nat : ss[1] < ss[2]}
            T == Nat \ S
<1>1. IsWellFoundedOn(R, Nat)
  BY NatLessThanWellFounded DEF OpToRel
<1>2. \A j, k \in T : j < k => <<j, k>> \in R
  OBVIOUS
<1>3. T \subseteq Nat /\ T # {}
  OBVIOUS
<1>4. \A n \in T : n # 0 /\ n - 1 \in T /\ n - 1 < n
  <2>. SUFFICES ASSUME NEW n \in T PROVE n # 0 /\ n - 1 \in T /\ n - 1 < n
    OBVIOUS
  <2>1. n - 1 \in Nat /\ (n - 1) + 1 = n
    OBVIOUS
  <2>. QED  BY <2>1
<1>. HIDE DEF R, T
<1>5. PICK k \in T : \A j \in T : ~(<<j, k>> \in R)
  BY <1>1, <1>3, WFMin
<1>. QED  BY <1>2, <1>4, <1>5
-----------------------------------------------------------------------------
(* What Why3 writes an answer with.                                        *)
Pieces == {"file", "Theory", "colon", "bracket", "time", "comma", "steps", "place", Space, Newline}
          \cup Goals \cup Status \cup Located

(* What is left of a text after n pieces.                                  *)
LEMMA PastFacts ==
  ASSUME NEW s \in Seq(Pieces), NEW n \in Nat
  PROVE  /\ Past(s, n) \in Seq(Pieces)
         /\ Len(Past(s, n)) = IF n <= Len(s) THEN Len(s) - n ELSE 0
         /\ \A k \in 1..(Len(s) - n) : Past(s, n)[k] = s[n + k]
         /\ Past(s, 0) = s
<1>1. Len(s) \in Nat /\ \A i \in (n + 1)..Len(s) : s[i] \in Pieces
  BY LenProperties, ElementOfSeq
<1>2. n + 1 \in Int /\ Len(s) \in Int
  BY <1>1
<1>. DEFINE p == SubSeq(s, n + 1, Len(s))
<1>3. /\ p \in Seq(Pieces)
      /\ Len(p) = IF n + 1 <= Len(s) THEN Len(s) - (n + 1) + 1 ELSE 0
      /\ \A i \in 1..(Len(s) - (n + 1) + 1) : p[i] = s[n + 1 + i - 1]
  BY <1>1, <1>2, SubSeqProperties
<1>4. Past(s, n) = p
  BY DEF Past
<1>. HIDE DEF p
<1>5. Len(p) = IF n <= Len(s) THEN Len(s) - n ELSE 0
  BY <1>1, <1>3
<1>6. \A k \in 1..(Len(s) - n) : p[k] = s[n + k]
  <2>. SUFFICES ASSUME NEW k \in 1..(Len(s) - n) PROVE p[k] = s[n + k]
    OBVIOUS
  <2>1. k \in 1..(Len(s) - (n + 1) + 1) /\ n + 1 + k - 1 = n + k
    BY <1>1
  <2>. QED  BY <1>3, <2>1
<1>7. Past(s, 0) = s
  BY SubSeqFull DEF Past
<1>. QED  BY <1>3, <1>4, <1>5, <1>6, <1>7

(* To move a cursor twice is to move it once.                              *)
LEMMA PastPast ==
  ASSUME NEW s \in Seq(Pieces), NEW n \in Nat, NEW m \in Nat
  PROVE  Past(Past(s, n), m) = Past(s, n + m)
<1>. DEFINE u == Past(Past(s, n), m)
            v == Past(s, n + m)
<1>1. Past(s, n) \in Seq(Pieces) /\ n + m \in Nat /\ Len(s) \in Nat
  BY PastFacts, LenProperties
<1>2. u \in Seq(Pieces) /\ v \in Seq(Pieces)
  BY <1>1, PastFacts
<1>3. Len(u) = IF n + m <= Len(s) THEN Len(s) - (n + m) ELSE 0
  <2>1. Len(Past(s, n)) = IF n <= Len(s) THEN Len(s) - n ELSE 0
    BY PastFacts
  <2>2. Len(u) = IF m <= Len(Past(s, n)) THEN Len(Past(s, n)) - m ELSE 0
    BY <1>1, PastFacts
  <2>. QED  BY <1>1, <2>1, <2>2
<1>4. Len(v) = IF n + m <= Len(s) THEN Len(s) - (n + m) ELSE 0
  BY <1>1, PastFacts
<1>5. ASSUME NEW k \in 1..Len(u) PROVE u[k] = v[k]
  <2>1. n + m <= Len(s) /\ k \in 1..(Len(s) - (n + m)) /\ Len(Past(s, n)) = Len(s) - n
    BY <1>1, <1>3, <1>5, PastFacts
  <2>2. k \in 1..(Len(Past(s, n)) - m) /\ m + k \in 1..(Len(s) - n)
    BY <1>1, <2>1
  <2>3. u[k] = Past(s, n)[m + k]
    BY <1>1, <2>2, PastFacts
  <2>4. Past(s, n)[m + k] = s[n + (m + k)]
    BY <2>2, PastFacts
  <2>5. v[k] = s[n + m + k]
    BY <1>1, <2>1, PastFacts
  <2>6. n + (m + k) = n + m + k
    BY <2>1
  <2>. QED  BY <2>3, <2>4, <2>5, <2>6
<1>. HIDE DEF u, v
<1>6. u = v
  BY <1>2, <1>3, <1>4, <1>5, SeqEqual
<1>. QED  BY <1>6 DEF u, v

(* A span ends at the first piece in C, or else at the end.                *)
LEMMA SpanStops ==
  ASSUME NEW s \in Seq(Pieces), NEW C, NEW n \in 1..Len(s),
         s[n] \in C, \A k \in 1..(n - 1) : s[k] \notin C
  PROVE  Span(s, C) = n - 1
<1>. DEFINE stops == {k \in DOMAIN s : s[k] \in C}
            First(k) == \A j \in stops : k <= j
<1>1. DOMAIN s = 1..Len(s) /\ Len(s) \in Nat
  BY LenProperties
<1>2. n \in stops /\ First(n)
  <2>1. \A j \in stops : j \in 1..Len(s) /\ ~(j \in 1..(n - 1))
    BY <1>1
  <2>. QED  BY <1>1, <2>1
<1>3. \A k \in stops : First(k) => k = n
  BY <1>1, <1>2
<1>4. (CHOOSE k \in stops : First(k)) = n
  BY <1>2, <1>3
<1>5. Span(s, C) = IF stops = {} THEN Len(s) ELSE (CHOOSE k \in stops : First(k)) - 1
  BY DEF Span
<1>. QED  BY <1>2, <1>4, <1>5

(* A span ends at the end if no piece is in C.                             *)
LEMMA SpanRuns ==
  ASSUME NEW s \in Seq(Pieces), NEW C, \A k \in 1..Len(s) : s[k] \notin C
  PROVE  Span(s, C) = Len(s)
<1>1. {k \in DOMAIN s : s[k] \in C} = {}
  BY LenProperties
<1>. QED  BY <1>1 DEF Span

(* At the end, every part of what is left is empty.                        *)
LEMMA EmptyFacts ==
  /\ <<>> \in Seq(Pieces) /\ Len(<<>>) = 0
  /\ \A C : Span(<<>>, C) = 0
  /\ \A n \in Nat : Past(<<>>, n) = <<>>
  /\ \A n \in Nat : AfterWord(<<>>, n) = <<>>
  /\ Word(<<>>) = <<>> /\ PastLine(<<>>) = <<>>
  /\ \A s \in Seq(Pieces) : Len(s) = 0 => s = <<>>
<1>1. <<>> \in Seq(Pieces) /\ Len(<<>>) = 0
  BY EmptySeq
<1>2. \A s \in Seq(Pieces) : Len(s) = 0 => s = <<>>
  <2>. SUFFICES ASSUME NEW s \in Seq(Pieces), Len(s) = 0 PROVE s = <<>>
    OBVIOUS
  <2>1. Len(s) # 0 \/ s = <<>>
    BY EmptySeq
  <2>. QED  BY <2>1
<1>3. \A C : Span(<<>>, C) = 0
  <2>. SUFFICES ASSUME NEW C, NEW e \in Seq(Pieces), Len(e) = 0 PROVE Span(e, C) = 0
    BY <1>1
  <2>1. \A k \in 1..Len(e) : e[k] \notin C
    OBVIOUS
  <2>. QED  BY <2>1, SpanRuns
<1>4. \A n \in Nat : Past(<<>>, n) = <<>>
  <2>. SUFFICES ASSUME NEW n \in Nat, NEW e \in Seq(Pieces), Len(e) = 0 PROVE Past(e, n) = <<>>
    BY <1>1
  <2>1. Past(e, n) \in Seq(Pieces) /\ Len(Past(e, n)) = IF n <= Len(e) THEN Len(e) - n ELSE 0
    BY PastFacts
  <2>2. Len(Past(e, n)) = 0
    BY <2>1
  <2>. QED  BY <1>2, <2>1, <2>2
<1>5. \A n \in Nat : AfterWord(<<>>, n) = <<>>
  <2>. SUFFICES ASSUME NEW n \in Nat PROVE AfterWord(<<>>, n) = <<>>
    OBVIOUS
  <2>1. 0 + n \in Nat
    OBVIOUS
  <2>. QED  BY <1>3, <1>4, <2>1 DEF AfterWord
<1>6. Word(<<>>) = <<>>
  <2>1. SubSeq(<<>>, 1, 0) = <<>>
    BY SubSeqEmpty
  <2>. QED  BY <1>3, <2>1 DEF Word
<1>7. PastLine(<<>>) = <<>>
  <2>1. 0 + 1 \in Nat
    OBVIOUS
  <2>. QED  BY <1>3, <1>4, <2>1 DEF PastLine
<1>. QED  BY <1>1, <1>2, <1>3, <1>4, <1>5, <1>6, <1>7

(* A cursor is at w if its first piece is w.                               *)
LEMMA StartsWithFacts ==
  ASSUME NEW s \in Seq(Pieces), NEW w \in Pieces
  PROVE  StartsWith(s, w) <=> Len(s) > 0 /\ s[1] = w
<1>. DEFINE a == SubSeq(<<w>>, 1, 1)
            b == SubSeq(s, 1, 1)
<1>1. <<w>> \in Seq(Pieces) /\ Len(<<w>>) = 1 /\ <<w>>[1] = w
  OBVIOUS
<1>2. StartsWith(s, w) <=> 1 <= Len(s) /\ a = b
  BY <1>1, LenProperties DEF StartsWith, IsPrefix
<1>3. a \in Seq(Pieces) /\ Len(a) = 1 /\ a[1] = w
  <2>1. \A i \in 1..1 : <<w>>[i] \in Pieces
    BY <1>1
  <2>. QED  BY <1>1, <2>1, SubSeqProperties
<1>4. ASSUME Len(s) > 0 PROVE b \in Seq(Pieces) /\ Len(b) = 1 /\ b[1] = s[1]
  <2>1. \A i \in 1..1 : s[i] \in Pieces
    BY <1>4, LenProperties, ElementOfSeq
  <2>. QED  BY <2>1, SubSeqProperties
<1>5. Len(s) \in Nat
  BY LenProperties
<1>. HIDE DEF a, b
<1>6. Len(s) > 0 => (a = b <=> s[1] = w)
  <2>1. ASSUME Len(s) > 0, s[1] = w PROVE a = b
    <3>1. Len(a) = Len(b) /\ \A i \in 1..Len(a) : a[i] = b[i]
      BY <1>3, <1>4, <2>1
    <3>. QED  BY <1>3, <1>4, <2>1, <3>1, SeqEqual
  <2>. QED  BY <1>3, <1>4, <2>1
<1>. QED  BY <1>2, <1>5, <1>6

(* A word of one piece, and what is behind it.                             *)
LEMMA WordFacts ==
  ASSUME NEW s \in Seq(Pieces),
         Len(s) >= 1 => s[1] # Space, Len(s) >= 2 => s[2] = Space
  PROVE  /\ \A n \in Nat : AfterWord(s, n) = Past(s, n + 1)
         /\ Len(s) >= 1 => Word(s) = <<s[1]>>
         /\ s = <<>> => Word(s) = <<>>
<1>1. Len(s) \in Nat
  BY LenProperties
<1>2. ASSUME Len(s) >= 1 PROVE Span(s, {Space}) = 1
  <2>1. CASE Len(s) >= 2
    <3>1. 2 \in 1..Len(s) /\ s[2] \in {Space} /\ \A k \in 1..(2 - 1) : s[k] \notin {Space}
      BY <1>1, <1>2, <2>1
    <3>2. Span(s, {Space}) = 2 - 1
      BY <3>1, SpanStops
    <3>. QED  BY <3>2
  <2>2. CASE Len(s) = 1
    <3>1. \A k \in 1..Len(s) : s[k] \notin {Space}
      BY <1>2, <2>2
    <3>. DEFINE C == {Space}
    <3>2. \A k \in 1..Len(s) : s[k] \notin C
      BY <3>1
    <3>. HIDE DEF C
    <3>3. Span(s, C) = Len(s)
      BY <3>2, SpanRuns
    <3>4. Span(s, C) = 1
      BY <2>2, <3>3, <1>1
    <3>. QED  BY <3>4 DEF C
  <2>3. Len(s) >= 2 \/ Len(s) = 1
    <3>1. \A n \in Nat : n >= 1 => n >= 2 \/ n = 1
      OBVIOUS
    <3>. QED  BY <1>1, <1>2, <3>1
  <2>. QED  BY <2>1, <2>2, <2>3
<1>3. ASSUME NEW n \in Nat PROVE AfterWord(s, n) = Past(s, n + 1)
  <2>1. CASE Len(s) >= 1
    <3>1. 1 + n = n + 1
      OBVIOUS
    <3>. QED  BY <1>2, <2>1, <3>1 DEF AfterWord
  <2>2. CASE Len(s) = 0
    <3>1. s = <<>> /\ n + 1 \in Nat
      BY <2>2, EmptyFacts
    <3>. QED  BY <3>1, EmptyFacts
  <2>. QED  BY <1>1, <2>1, <2>2
<1>4. ASSUME Len(s) >= 1 PROVE Word(s) = <<s[1]>>
  <2>. DEFINE b == SubSeq(s, 1, 1)
              a == <<s[1]>>
  <2>1. \A i \in 1..1 : s[i] \in Pieces
    BY <1>1, <1>4, ElementOfSeq
  <2>2. b \in Seq(Pieces) /\ Len(b) = 1 /\ b[1] = s[1]
    BY <2>1, SubSeqProperties
  <2>3. a \in Seq(Pieces) /\ Len(a) = 1 /\ a[1] = s[1]
    BY <2>1
  <2>4. Word(s) = b
    BY <1>2, <1>4 DEF Word
  <2>. HIDE DEF a, b
  <2>5. \A i \in 1..Len(b) : b[i] = a[i]
    BY <2>2, <2>3
  <2>6. a = b
    BY <2>2, <2>3, <2>5, SeqEqual
  <2>. QED  BY <2>4, <2>6 DEF a
<1>. QED  BY <1>3, <1>4, EmptyFacts
-----------------------------------------------------------------------------
(* The lines and their text.                                               *)

(* A line is that of a goal or of a message, and not both.                 *)
LEMMA LineKinds ==
  /\ \A l \in GoalLine : IsGoal(l) /\ l.goal \in Goals /\ l.status \in Status
  /\ \A l \in [message : Located] :
       ~IsGoal(l) /\ l.message \in Located /\ l = [message |-> l.message]
  /\ \A l \in Line : IsGoal(l) => l \in GoalLine
  /\ \A l \in Line : ~IsGoal(l) => l \in [message : Located]
<1>1. \A l \in GoalLine : IsGoal(l) /\ l.goal \in Goals /\ l.status \in Status
  BY DEF GoalLine, IsGoal
<1>2. ASSUME NEW l \in [message : Located]
      PROVE ~IsGoal(l) /\ l.message \in Located /\ l = [message |-> l.message]
  <2>1. "goal" # "message"
    OBVIOUS
  <2>. QED  BY <2>1 DEF IsGoal
<1>. QED  BY <1>1, <1>2 DEF Line

(* What separates words is not in a word.                                  *)
LEMMA WordKinds ==
  /\ {"file", "Theory", "colon", "bracket", "time", "comma", "steps", "place", Space, Newline}
        \subseteq Pieces
  /\ \A x \in Goals \cup Status \cup Located : x \in Pieces /\ x # Space /\ x # Newline
<1>1. \A x \in Status \cup Located : x # Space /\ x # Newline
  BY DEF Status, Known, Located, Space, Newline
<1>2. \A x \in Goals : x # Space /\ x # Newline
  BY AnswerAssumption
<1>. QED  BY <1>1, <1>2 DEF Pieces

(* The pieces of the line of a goal.                                       *)
GoalPieces(t, l) ==
  /\ t \in Seq(Pieces) /\ Len(t) \in {14, 17}
  /\ \A k \in {2, 4, 6, 8, 10} : t[k] = Space
  /\ \A k \in {1, 3, 5, 7, 9} : t[k] # Space
  /\ t[1] # "place" /\ t[5] = l.goal /\ t[9] = l.status
  /\ t[Len(t)] = Newline /\ \A k \in 1..(Len(t) - 1) : t[k] # Newline

MessagePieces(t, l) ==
  /\ t \in Seq(Pieces) /\ Len(t) = 4
  /\ t[1] = "place" /\ t[2] = Newline /\ t[3] = l.message /\ t[4] = Newline
  /\ t[3] # Newline

(* The text of a message is four pieces.                                   *)
LEMMA MessageText ==
  ASSUME NEW l \in Line, ~IsGoal(l)
  PROVE  MessagePieces(Text(l), l)
<1>1. l \in [message : Located]
  BY LineKinds
<1>2. l.message \in Pieces /\ l.message # Newline
  BY <1>1, LineKinds, WordKinds
<1>3. Text(l) = <<"place", Newline, l.message, Newline>>
  BY DEF Text
<1>. DEFINE t == <<"place", Newline, l.message, Newline>>
<1>4. t \in Seq(Pieces)
  BY <1>2, WordKinds
<1>5. Len(t) = 4 /\ t[1] = "place" /\ t[2] = Newline /\ t[3] = l.message /\ t[4] = Newline
  OBVIOUS
<1>. QED  BY <1>2, <1>3, <1>4, <1>5 DEF MessagePieces

(* The text of a goal ends in its only newline, and words and spaces       *)
(* alternate up to the verdict.                                            *)
LEMMA GoalText ==
  ASSUME NEW l \in Line, IsGoal(l)
  PROVE  GoalPieces(Text(l), l)
<1>. DEFINE a == <<"file", Space, "Theory", Space, l.goal, Space, "colon", Space, l.status,
                   Space, "bracket", "time">>
            b == IF l.steps THEN <<"comma", Space, "steps">> ELSE <<>>
            c == <<"bracket", Newline>>
            t == Text(l)
            ab == a \o b
<1>1. l.goal \in Pieces /\ l.goal # Space /\ l.goal # Newline
  BY LineKinds, WordKinds
<1>2. l.status \in Pieces /\ l.status # Space /\ l.status # Newline
  BY LineKinds, WordKinds
<1>3. /\ a \in Seq(Pieces) /\ Len(a) = 12
      /\ \A k \in {2, 4, 6, 8, 10} : a[k] = Space
      /\ \A k \in {1, 3, 5, 7, 9} : a[k] # Space
      /\ a[1] # "place" /\ a[5] = l.goal /\ a[9] = l.status
      /\ \A k \in 1..12 : a[k] # Newline
  <2>1. a \in Seq(Pieces) /\ Len(a) = 12
    BY <1>1, <1>2, WordKinds
  <2>2. \A k \in {2, 4, 6, 8, 10} : a[k] = Space
    OBVIOUS
  <2>3. \A k \in {1, 3, 5, 7, 9} : a[k] # Space
    BY <1>1, <1>2 DEF Space
  <2>4. a[1] # "place" /\ a[5] = l.goal /\ a[9] = l.status
    OBVIOUS
  <2>5. \A k \in 1..12 : a[k] # Newline
    BY <1>1, <1>2 DEF Space, Newline
  <2>. QED  BY <2>1, <2>2, <2>3, <2>4, <2>5
<1>4. /\ b \in Seq(Pieces) /\ Len(b) \in {0, 3}
      /\ \A k \in 1..Len(b) : b[k] # Newline
  <2>. DEFINE d == <<"comma", Space, "steps">>
  <2>1. d \in Seq(Pieces) /\ Len(d) = 3 /\ \A k \in 1..3 : d[k] # Newline
    <3>1. d \in Seq(Pieces) /\ Len(d) = 3
      BY WordKinds
    <3>. QED  BY <3>1 DEF Space, Newline
  <2>2. <<>> \in Seq(Pieces) /\ Len(<<>>) = 0
    BY EmptySeq
  <2>3. b = IF l.steps THEN d ELSE <<>>
    OBVIOUS
  <2>. HIDE DEF d, b
  <2>4. CASE l.steps
    <3>1. b = d
      BY <2>3, <2>4
    <3>. QED  BY <2>1, <3>1
  <2>5. CASE ~l.steps
    <3>1. b = <<>>
      BY <2>3, <2>5
    <3>. QED  BY <2>2, <3>1
  <2>. QED  BY <2>4, <2>5
<1>5. c \in Seq(Pieces) /\ Len(c) = 2 /\ c[1] # Newline /\ c[2] = Newline
  <2>1. c \in Seq(Pieces) /\ Len(c) = 2
    BY WordKinds
  <2>. QED  BY <2>1 DEF Newline
<1>6. t = ab \o c
  BY DEF Text
<1>. HIDE DEF a, b, c
<1>7. /\ ab \in Seq(Pieces) /\ Len(ab) = 12 + Len(b) /\ Len(b) \in Nat
      /\ \A k \in 1..12 : ab[k] = a[k]
      /\ \A k \in 1..Len(ab) : ab[k] # Newline
  <2>1. /\ ab \in Seq(Pieces) /\ Len(ab) = 12 + Len(b)
        /\ \A k \in 1..(12 + Len(b)) : ab[k] = IF k <= 12 THEN a[k] ELSE b[k - 12]
    <3>1. /\ ab \in Seq(Pieces) /\ Len(ab) = Len(a) + Len(b)
          /\ \A k \in 1..(Len(a) + Len(b)) : ab[k] = IF k <= Len(a) THEN a[k] ELSE b[k - Len(a)]
      BY <1>3, <1>4, ConcatProperties
    <3>. QED  BY <1>3, <3>1
  <2>. HIDE DEF ab
  <2>2. Len(b) \in Nat
    BY <1>4
  <2>3. \A k \in 1..12 : ab[k] = a[k]
    BY <2>1, <2>2
  <2>4. ASSUME NEW k \in 1..Len(ab) PROVE ab[k] # Newline
    <3>1. CASE k <= 12
      BY <1>3, <2>3, <3>1
    <3>2. CASE k > 12
      <4>1. k - 12 \in 1..Len(b) /\ ab[k] = b[k - 12]
        BY <2>1, <2>2, <3>2
      <4>. QED  BY <1>4, <4>1
    <3>. QED  BY <3>1, <3>2
  <2>. QED  BY <2>1, <2>2, <2>3, <2>4
<1>. HIDE DEF ab
<1>8. /\ t \in Seq(Pieces) /\ Len(t) = Len(ab) + 2
      /\ \A k \in 1..(Len(ab) + 2) : t[k] = IF k <= Len(ab) THEN ab[k] ELSE c[k - Len(ab)]
  <2>1. /\ ab \o c \in Seq(Pieces) /\ Len(ab \o c) = Len(ab) + Len(c)
        /\ \A k \in 1..(Len(ab) + Len(c)) :
             (ab \o c)[k] = IF k <= Len(ab) THEN ab[k] ELSE c[k - Len(ab)]
    <3>1. ab \in Seq(Pieces) /\ c \in Seq(Pieces)
      BY <1>5, <1>7
    <3>. QED  BY <3>1, ConcatProperties
  <2>. QED  BY <1>5, <1>6, <2>1
<1>. HIDE DEF t
<1>9. \A k \in 1..12 : t[k] = a[k]
  BY <1>7, <1>8
<1>10. t[Len(t)] = Newline /\ \A k \in 1..(Len(t) - 1) : t[k] # Newline
  <2>. DEFINE n == Len(ab)
  <2>1. n \in Nat /\ Len(t) = n + 2
    BY <1>7, <1>8
  <2>2. t[n + 2] = c[2] /\ t[n + 1] = c[1]
    <3>1. n + 2 \in 1..(n + 2) /\ n + 1 \in 1..(n + 2) /\ ~(n + 2 <= n) /\ ~(n + 1 <= n)
          /\ (n + 2) - n = 2 /\ (n + 1) - n = 1
      BY <2>1
    <3>. QED  BY <1>8, <3>1
  <2>3. \A k \in 1..n : t[k] # Newline
    BY <1>7, <1>8, <2>1
  <2>. HIDE DEF n
  <2>4. \A k \in 1..(n + 2 - 1) : k \in 1..n \/ k = n + 1
    BY <2>1
  <2>. QED  BY <1>5, <2>1, <2>2, <2>3, <2>4
<1>11. Len(t) \in {14, 17}
  <2>1. Len(t) = 12 + Len(b) + 2
    BY <1>7, <1>8
  <2>2. \A n \in {0, 3} : 12 + n + 2 \in {14, 17}
    OBVIOUS
  <2>. QED  BY <1>4, <2>1, <2>2
<1>. HIDE DEF t
<1>12. GoalPieces(t, l)
  BY <1>3, <1>8, <1>9, <1>10, <1>11 DEF GoalPieces, Pieces
<1>. QED  BY <1>12 DEF t
-----------------------------------------------------------------------------
(* A cursor in the text of a line.                                         *)

(* A word of one piece in the middle of a text.                            *)
LEMMA WordAt ==
  ASSUME NEW s \in Seq(Pieces), NEW n \in Nat,
         Len(s) >= n + 1 => s[n + 1] # Space, Len(s) >= n + 2 => s[n + 2] = Space
  PROVE  /\ \A m \in Nat : AfterWord(Past(s, n), m) = Past(s, n + (m + 1))
         /\ Word(Past(s, n)) = IF Len(s) >= n + 1 THEN <<s[n + 1]>> ELSE <<>>
<1>. DEFINE p == Past(s, n)
<1>1. /\ p \in Seq(Pieces) /\ Len(p) = (IF n <= Len(s) THEN Len(s) - n ELSE 0)
      /\ \A k \in 1..(Len(s) - n) : p[k] = s[n + k]
      /\ Len(s) \in Nat /\ Len(p) \in Nat
  BY PastFacts, LenProperties
<1>2. \A m \in Nat : Past(p, m + 1) = Past(s, n + (m + 1))
  <2>. SUFFICES ASSUME NEW m \in Nat PROVE Past(p, m + 1) = Past(s, n + (m + 1))
    OBVIOUS
  <2>1. m + 1 \in Nat
    OBVIOUS
  <2>. QED  BY <2>1, PastPast
<1>. HIDE DEF p
<1>3. Len(p) >= 1 => Len(s) >= n + 1 /\ p[1] = s[n + 1]
  BY <1>1
<1>4. Len(p) >= 2 => Len(s) >= n + 2 /\ p[2] = s[n + 2]
  BY <1>1
<1>5. (Len(p) >= 1 => p[1] # Space) /\ (Len(p) >= 2 => p[2] = Space)
  BY <1>3, <1>4
<1>6. /\ \A m \in Nat : AfterWord(p, m) = Past(p, m + 1)
      /\ Len(p) >= 1 => Word(p) = <<p[1]>>
      /\ p = <<>> => Word(p) = <<>>
  BY <1>1, <1>5, WordFacts
<1>7. CASE Len(s) >= n + 1
  <2>1. Len(p) >= 1
    BY <1>1, <1>7
  <2>2. Word(p) = <<s[n + 1]>>
    BY <1>3, <1>6, <2>1
  <2>. QED  BY <1>2, <1>6, <1>7, <2>2 DEF p
<1>8. CASE ~(Len(s) >= n + 1)
  <2>1. Len(p) = 0
    BY <1>1, <1>8
  <2>2. p = <<>>
    BY <1>1, <2>1, EmptyFacts
  <2>. QED  BY <1>2, <1>6, <1>8, <2>2 DEF p
<1>. QED  BY <1>7, <1>8

(* The first newline after n pieces is the m-th.                           *)
LEMMA NewlineAt ==
  ASSUME NEW s \in Seq(Pieces), NEW n \in Nat, NEW m \in Nat, n < m,
         Len(s) >= m => s[m] = Newline,
         \A k \in (n + 1)..(m - 1) : k <= Len(s) => s[k] # Newline
  PROVE  /\ PastLine(Past(s, n)) = Past(s, m)
         /\ Span(Past(s, n), {Newline}) = IF Len(s) >= m THEN m - 1 - n
                                          ELSE IF Len(s) >= n THEN Len(s) - n ELSE 0
<1>. DEFINE p == Past(s, n)
            C == {Newline}
            span == Span(p, C)
<1>1. /\ p \in Seq(Pieces) /\ Len(p) = (IF n <= Len(s) THEN Len(s) - n ELSE 0)
      /\ \A k \in 1..(Len(s) - n) : p[k] = s[n + k]
      /\ Len(s) \in Nat /\ Len(p) \in Nat
  BY PastFacts, LenProperties
<1>2. \A i \in Nat : Past(p, i) = Past(s, n + i)
  BY PastPast
<1>3. \A x : x \in C <=> x = Newline
  OBVIOUS
<1>4. PastLine(p) = Past(p, span + 1)
  BY DEF PastLine
<1>. HIDE DEF p, C
<1>5. CASE Len(s) >= m
  <2>. DEFINE e == m - n
  <2>1. e \in 1..Len(p) /\ e \in 1..(Len(s) - n) /\ n + e = m /\ e \in Nat /\ e - 1 = m - 1 - n
    BY <1>1, <1>5
  <2>. HIDE DEF e
  <2>2. p[e] \in C
    BY <1>1, <1>3, <1>5, <2>1
  <2>3. \A k \in 1..(e - 1) : p[k] \notin C
    <3>. SUFFICES ASSUME NEW k \in 1..(e - 1) PROVE p[k] # Newline
      BY <1>3
    <3>1. k \in 1..(Len(s) - n) /\ n + k \in (n + 1)..(m - 1) /\ n + k <= Len(s)
      BY <1>1, <2>1
    <3>. QED  BY <1>1, <3>1
  <2>4. Span(p, C) = e - 1
    BY <1>1, <2>1, <2>2, <2>3, SpanStops
  <2>5. span + 1 = e
    BY <2>1, <2>4
  <2>. QED  BY <1>2, <1>4, <1>5, <2>1, <2>4, <2>5 DEF p, C
<1>6. CASE ~(Len(s) >= m)
  <2>1. \A k \in 1..Len(p) : p[k] \notin C
    <3>. SUFFICES ASSUME NEW k \in 1..Len(p) PROVE p[k] # Newline
      BY <1>3
    <3>1. k \in 1..(Len(s) - n) /\ n + k \in (n + 1)..(m - 1) /\ n + k <= Len(s)
      BY <1>1, <1>6
    <3>. QED  BY <1>1, <3>1
  <2>2. Span(p, C) = Len(p)
    BY <1>1, <2>1, SpanRuns
  <2>3. Len(p) + 1 \in Nat /\ PastLine(p) = Past(p, Len(p) + 1)
    BY <1>1, <1>4, <2>2
  <2>4. Past(p, Len(p) + 1) \in Seq(Pieces) /\ Len(Past(p, Len(p) + 1)) = 0
    <3>. DEFINE i == Len(p) + 1
    <3>1. i \in Nat /\ ~(i <= Len(p))
      BY <1>1
    <3>. HIDE DEF i
    <3>2. Past(p, i) \in Seq(Pieces) /\ Len(Past(p, i)) = 0
      BY <1>1, <3>1, PastFacts
    <3>. QED  BY <3>2 DEF i
  <2>5. Past(s, m) \in Seq(Pieces) /\ Len(Past(s, m)) = 0
    <3>1. Len(Past(s, m)) = IF m <= Len(s) THEN Len(s) - m ELSE 0
      BY PastFacts
    <3>. QED  BY <1>1, <1>6, <3>1, PastFacts
  <2>6. PastLine(p) = Past(s, m)
    BY <2>3, <2>4, <2>5, EmptyFacts
  <2>7. Len(p) = IF Len(s) >= n THEN Len(s) - n ELSE 0
    BY <1>1
  <2>. QED  BY <1>6, <2>2, <2>6, <2>7 DEF p, C
<1>. QED  BY <1>5, <1>6 DEF p, C

(* The answer ends in t, or goes on after it.                              *)
Agrees(s, t) == \A k \in 1..Len(s) : k <= Len(t) => s[k] = t[k]

(* ReadGoal at the line of a goal, however much of it came.                *)
LEMMA AtGoal ==
  ASSUME NEW s \in Seq(Pieces), NEW t, NEW l, GoalPieces(t, l), Agrees(s, t)
  PROVE  /\ AfterWord(s, 1) = Past(s, 2)
         /\ AfterWord(Past(s, 2), 1) = Past(s, 4)
         /\ AfterWord(Past(s, 4), 3) = Past(s, 8)
         /\ AfterWord(Past(s, 8), 2) = Past(s, 11)
         /\ Word(Past(s, 4)) = IF Len(s) >= 5 THEN <<l.goal>> ELSE <<>>
         /\ Word(Past(s, 8)) = IF Len(s) >= 9 THEN <<l.status>> ELSE <<>>
         /\ PastLine(Past(s, 11)) = Past(s, Len(t))
<1>1. Len(s) \in Nat /\ Len(t) \in Nat /\ Len(t) >= 14 /\ Past(s, 0) = s
  <2>1. Len(t) \in {14, 17} /\ t \in Seq(Pieces)
    BY DEF GoalPieces
  <2>2. Len(t) \in Nat /\ Len(t) >= 14
    <3>1. \A n \in {14, 17} : n \in Nat /\ n >= 14
      OBVIOUS
    <3>. QED  BY <2>1, <3>1
  <2>. QED  BY <2>2, LenProperties, PastFacts
<1>2. \A k \in Nat : 1 <= k /\ k <= Len(s) /\ k <= Len(t) => s[k] = t[k]
  BY <1>1 DEF Agrees
<1>3. \A k \in {2, 4, 6, 8, 10} : Len(s) >= k => s[k] = Space
  <2>1. \A k \in {2, 4, 6, 8, 10} : k \in Nat /\ 1 <= k /\ k <= Len(t) /\ t[k] = Space
    BY <1>1 DEF GoalPieces
  <2>. QED  BY <1>2, <2>1
<1>4. \A k \in {1, 3, 5, 7, 9} : Len(s) >= k => s[k] # Space
  <2>1. \A k \in {1, 3, 5, 7, 9} : k \in Nat /\ 1 <= k /\ k <= Len(t) /\ t[k] # Space
    BY <1>1 DEF GoalPieces
  <2>. QED  BY <1>2, <2>1
<1>5. (Len(s) >= 5 => s[5] = l.goal) /\ (Len(s) >= 9 => s[9] = l.status)
  BY <1>1, <1>2 DEF GoalPieces
<1>6. AfterWord(s, 1) = Past(s, 2)
  <2>1. \A m \in Nat : AfterWord(Past(s, 0), m) = Past(s, 0 + (m + 1))
    <3>1. (Len(s) >= 0 + 1 => s[0 + 1] # Space) /\ (Len(s) >= 0 + 2 => s[0 + 2] = Space)
      BY <1>3, <1>4
    <3>. QED  BY <3>1, WordAt
  <2>2. 0 + (1 + 1) = 2
    OBVIOUS
  <2>. QED  BY <1>1, <2>1, <2>2
<1>7. AfterWord(Past(s, 2), 1) = Past(s, 4)
  <2>1. \A m \in Nat : AfterWord(Past(s, 2), m) = Past(s, 2 + (m + 1))
    <3>1. (Len(s) >= 2 + 1 => s[2 + 1] # Space) /\ (Len(s) >= 2 + 2 => s[2 + 2] = Space)
      BY <1>3, <1>4
    <3>. QED  BY <3>1, WordAt
  <2>2. 2 + (1 + 1) = 4
    OBVIOUS
  <2>. QED  BY <2>1, <2>2
<1>8. /\ AfterWord(Past(s, 4), 3) = Past(s, 8)
      /\ Word(Past(s, 4)) = IF Len(s) >= 5 THEN <<l.goal>> ELSE <<>>
  <2>1. /\ \A m \in Nat : AfterWord(Past(s, 4), m) = Past(s, 4 + (m + 1))
        /\ Word(Past(s, 4)) = IF Len(s) >= 4 + 1 THEN <<s[4 + 1]>> ELSE <<>>
    <3>1. (Len(s) >= 4 + 1 => s[4 + 1] # Space) /\ (Len(s) >= 4 + 2 => s[4 + 2] = Space)
      BY <1>3, <1>4
    <3>. QED  BY <3>1, WordAt
  <2>2. 4 + (3 + 1) = 8 /\ 4 + 1 = 5
    OBVIOUS
  <2>. QED  BY <1>5, <2>1, <2>2
<1>9. /\ AfterWord(Past(s, 8), 2) = Past(s, 11)
      /\ Word(Past(s, 8)) = IF Len(s) >= 9 THEN <<l.status>> ELSE <<>>
  <2>1. /\ \A m \in Nat : AfterWord(Past(s, 8), m) = Past(s, 8 + (m + 1))
        /\ Word(Past(s, 8)) = IF Len(s) >= 8 + 1 THEN <<s[8 + 1]>> ELSE <<>>
    <3>1. (Len(s) >= 8 + 1 => s[8 + 1] # Space) /\ (Len(s) >= 8 + 2 => s[8 + 2] = Space)
      BY <1>3, <1>4
    <3>. QED  BY <3>1, WordAt
  <2>2. 8 + (2 + 1) = 11 /\ 8 + 1 = 9
    OBVIOUS
  <2>. QED  BY <1>5, <2>1, <2>2
<1>10. PastLine(Past(s, 11)) = Past(s, Len(t))
  <2>. DEFINE m == Len(t)
  <2>1. m \in Nat /\ 11 < m /\ 11 \in Nat
    BY <1>1
  <2>2. Len(s) >= m => s[m] = Newline
    BY <1>1, <1>2 DEF GoalPieces
  <2>3. \A k \in (11 + 1)..(m - 1) : k <= Len(s) => s[k] # Newline
    BY <1>1, <1>2 DEF GoalPieces
  <2>. HIDE DEF m
  <2>4. PastLine(Past(s, 11)) = Past(s, m)
    BY <2>1, <2>2, <2>3, NewlineAt
  <2>. QED  BY <2>4 DEF m
<1>. QED  BY <1>6, <1>7, <1>8, <1>9, <1>10

(* SkipMessage and FindError at a message, however much of it came.        *)
LEMMA AtMessage ==
  ASSUME NEW s \in Seq(Pieces), NEW t, NEW l, MessagePieces(t, l), Agrees(s, t)
  PROVE  /\ PastLine(s) = Past(s, 2)
         /\ PastLine(Past(s, 2)) = Past(s, 4)
         /\ s # <<>> => StartsWith(s, "place")
         /\ \A w \in {"warning", "error"} :
              StartsWith(Past(s, 2), w) <=> Len(s) >= 3 /\ l.message = w
         /\ Past(s, 2) = <<"warning">> <=> Len(s) = 3 /\ l.message = "warning"
         /\ Span(s, {Newline}) = Len(s) <=> Len(s) <= 1
         /\ Len(s) >= 3 => SubSeq(Past(s, 2), 1, Span(Past(s, 2), {Newline})) = <<l.message>>
<1>. DEFINE p == Past(s, 2)
<1>1. /\ Len(s) \in Nat /\ Len(t) = 4 /\ Past(s, 0) = s
      /\ p \in Seq(Pieces) /\ Len(p) = (IF 2 <= Len(s) THEN Len(s) - 2 ELSE 0)
      /\ \A k \in 1..(Len(s) - 2) : p[k] = s[2 + k]
  BY LenProperties, PastFacts DEF MessagePieces
<1>2. \A k \in Nat : 1 <= k /\ k <= Len(s) /\ k <= 4 => s[k] = t[k]
  BY <1>1 DEF Agrees
<1>3. /\ Len(s) >= 1 => s[1] = "place"
      /\ Len(s) >= 2 => s[2] = Newline
      /\ Len(s) >= 3 => s[3] = l.message
      /\ Len(s) >= 4 => s[4] = Newline
  BY <1>1, <1>2 DEF MessagePieces
<1>4. l.message # Newline /\ "place" # Newline
  BY DEF MessagePieces, Newline
<1>5. /\ PastLine(s) = Past(s, 2)
      /\ Span(s, {Newline}) = IF Len(s) >= 2 THEN 1 ELSE Len(s)
  <2>1. \A k \in (0 + 1)..(2 - 1) : k <= Len(s) => s[k] # Newline
    <3>1. \A k \in (0 + 1)..(2 - 1) : k = 1
      OBVIOUS
    <3>. QED  BY <1>1, <1>3, <1>4, <3>1
  <2>2. /\ PastLine(Past(s, 0)) = Past(s, 2)
        /\ Span(Past(s, 0), {Newline}) = IF Len(s) >= 2 THEN 2 - 1 - 0
                                         ELSE IF Len(s) >= 0 THEN Len(s) - 0 ELSE 0
    <3>1. 0 \in Nat /\ 2 \in Nat /\ 0 < 2 /\ (Len(s) >= 2 => s[2] = Newline)
      BY <1>3
    <3>. QED  BY <2>1, <3>1, NewlineAt
  <2>3. 2 - 1 - 0 = 1 /\ Len(s) >= 0 /\ Len(s) - 0 = Len(s)
    BY <1>1
  <2>. QED  BY <1>1, <2>2, <2>3
<1>6. /\ PastLine(p) = Past(s, 4)
      /\ Len(s) >= 3 => Span(p, {Newline}) = 1
  <2>1. \A k \in (2 + 1)..(4 - 1) : k <= Len(s) => s[k] # Newline
    <3>1. \A k \in (2 + 1)..(4 - 1) : k = 3
      OBVIOUS
    <3>. QED  BY <1>1, <1>3, <1>4, <3>1
  <2>2. /\ PastLine(p) = Past(s, 4)
        /\ Span(p, {Newline}) = IF Len(s) >= 4 THEN 4 - 1 - 2
                                ELSE IF Len(s) >= 2 THEN Len(s) - 2 ELSE 0
    <3>1. 2 \in Nat /\ 4 \in Nat /\ 2 < 4 /\ (Len(s) >= 4 => s[4] = Newline)
      BY <1>3
    <3>. QED  BY <2>1, <3>1, NewlineAt
  <2>3. 4 - 1 - 2 = 1
    OBVIOUS
  <2>4. \A n \in Nat : n >= 3 => n >= 4 \/ (n >= 2 /\ n - 2 = 1)
    OBVIOUS
  <2>5. Len(s) >= 3 => Len(s) >= 4 \/ (Len(s) >= 2 /\ Len(s) - 2 = 1)
    BY <1>1, <2>4
  <2>. QED  BY <2>2, <2>3, <2>5
<1>7. s # <<>> => StartsWith(s, "place")
  <2>. SUFFICES ASSUME s # <<>> PROVE StartsWith(s, "place")
    OBVIOUS
  <2>1. Len(s) # 0
    BY EmptyFacts
  <2>2. Len(s) > 0 /\ s[1] = "place"
    BY <1>1, <1>3, <2>1
  <2>3. "place" \in Pieces
    BY WordKinds
  <2>. QED  BY <2>2, <2>3, StartsWithFacts
<1>8. \A w \in {"warning", "error"} : StartsWith(p, w) <=> Len(s) >= 3 /\ l.message = w
  <2>. SUFFICES ASSUME NEW w \in Pieces PROVE StartsWith(p, w) <=> Len(s) >= 3 /\ l.message = w
    BY WordKinds DEF Located
  <2>. HIDE DEF p
  <2>1. StartsWith(p, w) <=> Len(p) > 0 /\ p[1] = w
    BY <1>1, StartsWithFacts
  <2>2. Len(p) > 0 <=> Len(s) >= 3
    BY <1>1
  <2>3. Len(s) >= 3 => p[1] = l.message
    <3>1. Len(s) >= 3 => 1 \in 1..(Len(s) - 2) /\ 2 + 1 = 3
      BY <1>1
    <3>. QED  BY <1>1, <1>3, <3>1
  <2>. QED  BY <2>1, <2>2, <2>3
<1>9. p = <<"warning">> <=> Len(s) = 3 /\ l.message = "warning"
  <2>. DEFINE u == <<"warning">>
  <2>1. u \in Seq(Pieces) /\ Len(u) = 1 /\ u[1] = "warning"
    BY WordKinds DEF Located
  <2>2. \A n \in Nat : n >= 3 => 1 \in 1..(n - 2) /\ 2 + 1 = 3
    OBVIOUS
  <2>3. Len(s) >= 3 => p[1] = l.message
    BY <1>1, <1>3, <2>2
  <2>. HIDE DEF p, u
  <2>4. Len(p) = 1 <=> Len(s) = 3
    <3>1. \A n, m \in Nat : m = (IF 2 <= n THEN n - 2 ELSE 0) => (m = 1 <=> n = 3)
      OBVIOUS
    <3>2. Len(p) \in Nat /\ Len(p) = (IF 2 <= Len(s) THEN Len(s) - 2 ELSE 0)
      BY <1>1, LenProperties
    <3>. QED  BY <1>1, <3>1, <3>2
  <2>5. \A n \in Nat : n = 3 => n >= 3
    OBVIOUS
  <2>6. Len(s) = 3 => Len(s) >= 3
    BY <1>1, <2>5
  <2>7. ASSUME Len(s) = 3, l.message = "warning" PROVE p = u
    <3>1. Len(p) = Len(u) /\ p[1] = u[1] /\ Len(p) = 1
      BY <2>1, <2>3, <2>4, <2>6, <2>7
    <3>2. \A i \in 1..1 : i = 1
      OBVIOUS
    <3>3. \A i \in 1..Len(p) : p[i] = u[i]
      BY <3>1, <3>2
    <3>. QED  BY <1>1, <2>1, <3>1, <3>3, SeqEqual
  <2>8. ASSUME p = u PROVE Len(s) = 3 /\ l.message = "warning"
    BY <2>1, <2>3, <2>4, <2>6, <2>8
  <2>9. p = u <=> Len(s) = 3 /\ l.message = "warning"
    BY <2>7, <2>8
  <2>. QED  BY <2>9 DEF u
<1>10. Span(s, {Newline}) = Len(s) <=> Len(s) <= 1
  <2>1. \A n \in Nat : (IF n >= 2 THEN 1 ELSE n) = n <=> n <= 1
    OBVIOUS
  <2>. QED  BY <1>1, <1>5, <2>1
<1>11. Len(s) >= 3 => SubSeq(p, 1, Span(p, {Newline})) = <<l.message>>
  <2>. SUFFICES ASSUME Len(s) >= 3 PROVE SubSeq(p, 1, 1) = <<l.message>>
    BY <1>6
  <2>. DEFINE b == SubSeq(p, 1, 1)
              u == <<l.message>>
  <2>1. 1 \in 1..(Len(s) - 2) /\ 2 + 1 = 3 /\ Len(p) >= 1
    BY <1>1
  <2>2. p[1] = l.message
    BY <1>1, <1>3, <2>1
  <2>. HIDE DEF p
  <2>3. \A i \in 1..1 : p[i] \in Pieces
    BY <1>1, <2>1, ElementOfSeq
  <2>4. b \in Seq(Pieces) /\ Len(b) = 1 /\ b[1] = p[1]
    BY <2>3, SubSeqProperties
  <2>5. u \in Seq(Pieces) /\ Len(u) = 1 /\ u[1] = l.message
    BY <2>2, <2>3
  <2>. HIDE DEF b, u
  <2>6. \A i \in 1..Len(b) : b[i] = u[i]
    BY <2>2, <2>4, <2>5
  <2>7. b = u
    BY <2>4, <2>5, <2>6, SeqEqual
  <2>. QED  BY <2>7 DEF b, u
<1>. QED  BY <1>5, <1>6, <1>7, <1>8, <1>9, <1>10, <1>11
-----------------------------------------------------------------------------
(* The text of the lines.                                                  *)

(* No line is empty.                                                       *)
LEMMA TextFacts ==
  ASSUME NEW l \in Line
  PROVE  Text(l) \in Seq(Pieces) /\ Len(Text(l)) \in Nat /\ Len(Text(l)) >= 4
<1>1. \A n \in {14, 17} : n \in Nat /\ n >= 4
  OBVIOUS
<1>2. CASE IsGoal(l)
  BY <1>1, <1>2, GoalText DEF GoalPieces
<1>3. CASE ~IsGoal(l)
  BY <1>3, MessageText DEF MessagePieces
<1>. QED  BY <1>2, <1>3

(* The recursive function of Upto exists, so it is what it is defined to   *)
(* be.                                                                     *)
LEMMA UptoFacts ==
  ASSUME NEW ls \in Seq(Line)
  PROVE  /\ Upto(ls)[0] = <<>>
         /\ \A n \in 1..Len(ls) : Upto(ls)[n] = Upto(ls)[n - 1] \o Text(ls[n])
<1>. DEFINE N == Len(ls)
            Longer(s, n) == s \o Text(ls[n])
            Rec(g, m) == [k \in 0..m |-> IF k = 0 THEN <<>> ELSE Longer(g[k - 1], k)]
            S == {m \in Nat : \E g : g = Rec(g, m)}
            w == CHOOSE g : g = Rec(g, N)
<1>0. N \in Nat
  BY LenProperties
<1>1. Upto(ls) = w
  BY DEF Upto
<1>. HIDE DEF Longer
<1>2. 0 \in S
  <2>. DEFINE g == [k \in 0..0 |-> <<>>]
  <2>1. g = Rec(g, 0)
    OBVIOUS
  <2>. QED  BY <2>1
<1>3. ASSUME NEW m \in Nat, m \in S PROVE m + 1 \in S
  <2>1. PICK g : g = Rec(g, m)
    BY <1>3
  <2>. DEFINE h == [k \in 0..(m + 1) |-> IF k = m + 1 THEN Longer(g[m], m + 1) ELSE g[k]]
              q == Rec(h, m + 1)
  <2>2. ASSUME NEW k \in 0..(m + 1) PROVE h[k] = q[k]
    <3>1. CASE k = 0
      <4>1. 0 \in 0..m /\ 0 # m + 1
        OBVIOUS
      <4>2. Rec(g, m)[0] = <<>>
        BY <4>1
      <4>3. g[0] = <<>>
        BY <2>1, <4>2
      <4>. QED  BY <3>1, <4>1, <4>3
    <3>2. CASE k # 0
      <4>1. k - 1 \in 0..m /\ k - 1 # m + 1 /\ k - 1 \in 0..(m + 1)
        BY <3>2
      <4>2. h[k - 1] = g[k - 1]
        BY <4>1
      <4>3. CASE k = m + 1
        <5>1. k - 1 = m
          BY <4>3
        <5>. QED  BY <3>2, <4>2, <4>3, <5>1
      <4>4. CASE k # m + 1
        <5>1. k \in 0..m
          BY <4>4
        <5>2. Rec(g, m)[k] = Longer(g[k - 1], k)
          BY <3>2, <5>1
        <5>3. g[k] = Longer(g[k - 1], k)
          BY <2>1, <5>2
        <5>. QED  BY <3>2, <4>2, <4>4, <5>3
      <4>. QED  BY <4>3, <4>4
    <3>. QED  BY <3>1, <3>2
  <2>3. h = [k \in 0..(m + 1) |-> h[k]] /\ q = [k \in 0..(m + 1) |-> q[k]]
    OBVIOUS
  <2>4. h = q
    <3>. HIDE DEF h, q
    <3>. QED  BY <2>2, <2>3
  <2>5. \E f : f = Rec(f, m + 1)
    <3>1. h = Rec(h, m + 1)
      BY <2>4
    <3>. HIDE DEF h, q, Rec
    <3>. QED  BY <3>1
  <2>. QED  BY <2>5
<1>4. \A m \in Nat : m \in S
  <2>. HIDE DEF S
  <2>. QED  BY <1>2, <1>3, AllNat
<1>5. \E g : g = Rec(g, N)
  BY <1>0, <1>4
<1>6. w = Rec(w, N)
  BY <1>5
<1>. HIDE DEF w
<1>7. w[0] = <<>>
  <2>1. Rec(w, N)[0] = <<>>
    BY <1>0
  <2>. QED  BY <1>6, <2>1
<1>8. ASSUME NEW k \in 1..N PROVE w[k] = Longer(w[k - 1], k)
  <2>1. Rec(w, N)[k] = Longer(w[k - 1], k)
    BY <1>0
  <2>. QED  BY <1>6, <2>1
<1>. QED  BY <1>1, <1>7, <1>8 DEF Longer

Size(ls, l) == Len(Upto(ls)[l])

(* How long the text of the first lines is.                                *)
LEMMA Sizes ==
  ASSUME NEW ls \in Seq(Line)
  PROVE  /\ Len(ls) \in Nat /\ Size(ls, 0) = 0
         /\ \A n \in 0..Len(ls) : Upto(ls)[n] \in Seq(Pieces) /\ Size(ls, n) \in Nat
         /\ \A n \in 1..Len(ls) : ls[n] \in Line /\ Size(ls, n) = Size(ls, n - 1) + Len(Text(ls[n]))
<1>. DEFINE S == {n \in Nat : n <= Len(ls) => Upto(ls)[n] \in Seq(Pieces)}
<1>1. Len(ls) \in Nat /\ \A n \in 1..Len(ls) : ls[n] \in Line
  BY LenProperties, ElementOfSeq
<1>2. 0 \in S
  BY UptoFacts, EmptySeq
<1>3. ASSUME NEW n \in Nat, n \in S PROVE n + 1 \in S
  <2>. SUFFICES ASSUME n + 1 <= Len(ls) PROVE Upto(ls)[n + 1] \in Seq(Pieces)
    OBVIOUS
  <2>1. n + 1 \in 1..Len(ls) /\ (n + 1) - 1 = n /\ n <= Len(ls)
    BY <1>1
  <2>2. Upto(ls)[n + 1] = Upto(ls)[n] \o Text(ls[n + 1])
    BY <2>1, UptoFacts
  <2>3. Upto(ls)[n] \in Seq(Pieces) /\ Text(ls[n + 1]) \in Seq(Pieces)
    BY <1>1, <1>3, <2>1, TextFacts
  <2>. QED  BY <2>2, <2>3, ConcatProperties
<1>4. \A n \in Nat : n \in S
  <2>. HIDE DEF S
  <2>. QED  BY <1>2, <1>3, AllNat
<1>5. \A n \in 0..Len(ls) : Upto(ls)[n] \in Seq(Pieces) /\ Size(ls, n) \in Nat
  <2>. SUFFICES ASSUME NEW n \in 0..Len(ls) PROVE Upto(ls)[n] \in Seq(Pieces) /\ Size(ls, n) \in Nat
    OBVIOUS
  <2>1. Upto(ls)[n] \in Seq(Pieces)
    BY <1>4
  <2>. QED  BY <2>1, LenProperties DEF Size
<1>6. ASSUME NEW n \in 1..Len(ls) PROVE Size(ls, n) = Size(ls, n - 1) + Len(Text(ls[n]))
  <2>1. n - 1 \in 0..Len(ls)
    BY <1>1
  <2>2. Upto(ls)[n - 1] \in Seq(Pieces) /\ Text(ls[n]) \in Seq(Pieces)
    BY <1>1, <1>5, <2>1, TextFacts
  <2>. QED  BY <2>2, UptoFacts, ConcatProperties DEF Size
<1>7. Size(ls, 0) = 0
  BY UptoFacts, EmptySeq DEF Size
<1>. QED  BY <1>1, <1>5, <1>6, <1>7

(* Line l takes the places after Size(ls, l - 1) in the text of n lines.   *)
LEMMA Layout ==
  ASSUME NEW ls \in Seq(Line), NEW l \in 1..Len(ls), NEW k \in 1..Len(Text(ls[l]))
  PROVE  \A n \in l..Len(ls) : /\ Size(ls, l) <= Size(ls, n)
                               /\ Upto(ls)[n][Size(ls, l - 1) + k] = Text(ls[l])[k]
<1>. DEFINE place == Size(ls, l - 1) + k
            S == {i \in Nat : l + i <= Len(ls) =>
                     /\ Size(ls, l) <= Size(ls, l + i)
                     /\ Upto(ls)[l + i][place] = Text(ls[l])[k]}
<1>1. /\ Len(ls) \in Nat /\ l \in 0..Len(ls) /\ l - 1 \in 0..Len(ls)
      /\ ls[l] \in Line /\ Text(ls[l]) \in Seq(Pieces) /\ Len(Text(ls[l])) \in Nat
  BY Sizes, TextFacts
<1>2. /\ Size(ls, l - 1) \in Nat /\ Size(ls, l) \in Nat
      /\ Size(ls, l) = Size(ls, l - 1) + Len(Text(ls[l]))
  BY <1>1, Sizes
<1>3. place \in 1..Size(ls, l) /\ ~(place <= Size(ls, l - 1)) /\ place - Size(ls, l - 1) = k
  BY <1>1, <1>2
<1>4. 0 \in S
  <2>1. Upto(ls)[l] = Upto(ls)[l - 1] \o Text(ls[l])
    BY UptoFacts
  <2>2. Upto(ls)[l - 1] \in Seq(Pieces) /\ Len(Upto(ls)[l - 1]) = Size(ls, l - 1)
    BY <1>1, Sizes DEF Size
  <2>3. \A i \in 1..(Len(Upto(ls)[l - 1]) + Len(Text(ls[l]))) :
          (Upto(ls)[l - 1] \o Text(ls[l]))[i] =
             IF i <= Len(Upto(ls)[l - 1]) THEN Upto(ls)[l - 1][i]
             ELSE Text(ls[l])[i - Len(Upto(ls)[l - 1])]
    BY <1>1, <2>2, ConcatProperties
  <2>. HIDE DEF place
  <2>4. Upto(ls)[l][place] = Text(ls[l])[k]
    BY <1>2, <1>3, <2>1, <2>2, <2>3
  <2>5. l + 0 = l /\ Size(ls, l) <= Size(ls, l)
    BY <1>2
  <2>. QED  BY <2>4, <2>5
<1>5. ASSUME NEW i \in Nat, i \in S PROVE i + 1 \in S
  <2>. SUFFICES ASSUME l + (i + 1) <= Len(ls)
                PROVE  /\ Size(ls, l) <= Size(ls, l + (i + 1))
                       /\ Upto(ls)[l + (i + 1)][place] = Text(ls[l])[k]
    OBVIOUS
  <2>. DEFINE n == l + i
  <2>1. n + 1 = l + (i + 1) /\ n + 1 \in 1..Len(ls) /\ n \in 0..Len(ls) /\ (n + 1) - 1 = n
        /\ n + 1 \in 0..Len(ls) /\ l + i <= Len(ls)
    BY <1>1
  <2>2. Size(ls, l) <= Size(ls, n) /\ Upto(ls)[n][place] = Text(ls[l])[k]
    BY <1>5, <2>1
  <2>. HIDE DEF n, place
  <2>3. /\ Upto(ls)[n] \in Seq(Pieces) /\ Size(ls, n) \in Nat /\ Size(ls, n + 1) \in Nat
        /\ Text(ls[n + 1]) \in Seq(Pieces) /\ Len(Text(ls[n + 1])) \in Nat
        /\ Size(ls, n + 1) = Size(ls, n) + Len(Text(ls[n + 1]))
        /\ Upto(ls)[n + 1] = Upto(ls)[n] \o Text(ls[n + 1])
    BY <2>1, Sizes, TextFacts, UptoFacts
  <2>4. \A j \in 1..(Len(Upto(ls)[n]) + Len(Text(ls[n + 1]))) :
          (Upto(ls)[n] \o Text(ls[n + 1]))[j] =
             IF j <= Len(Upto(ls)[n]) THEN Upto(ls)[n][j]
             ELSE Text(ls[n + 1])[j - Len(Upto(ls)[n])]
    BY <2>3, ConcatProperties
  <2>5. place \in 1..(Len(Upto(ls)[n]) + Len(Text(ls[n + 1]))) /\ place <= Len(Upto(ls)[n])
    <3>1. \A a, b, c \in Nat : \A p \in 1..a : a <= b => p \in 1..(b + c) /\ p <= b
      OBVIOUS
    <3>2. Len(Upto(ls)[n]) = Size(ls, n)
      BY DEF Size
    <3>3. /\ Size(ls, l) \in Nat /\ Size(ls, n) \in Nat /\ Len(Text(ls[n + 1])) \in Nat
          /\ place \in 1..Size(ls, l) /\ Size(ls, l) <= Size(ls, n)
      BY <1>2, <1>3, <2>2, <2>3
    <3>4. place \in 1..(Size(ls, n) + Len(Text(ls[n + 1]))) /\ place <= Size(ls, n)
      BY <3>1, <3>3
    <3>. QED  BY <3>2, <3>4
  <2>6. Upto(ls)[n + 1][place] = Text(ls[l])[k]
    BY <2>2, <2>3, <2>4, <2>5
  <2>7. Size(ls, l) <= Size(ls, n + 1)
    BY <1>2, <2>2, <2>3
  <2>. QED  BY <2>1, <2>6, <2>7
<1>6. \A i \in Nat : i \in S
  <2>. HIDE DEF S
  <2>. QED  BY <1>4, <1>5, AllNat
<1>. SUFFICES ASSUME NEW n \in l..Len(ls)
              PROVE  Size(ls, l) <= Size(ls, n) /\ Upto(ls)[n][place] = Text(ls[l])[k]
  OBVIOUS
<1>7. n - l \in Nat /\ l + (n - l) = n /\ n <= Len(ls)
  BY <1>1
<1>. QED  BY <1>6, <1>7
-----------------------------------------------------------------------------
(* An answer that is cut somewhere, and what is left of it after l lines.  *)
Cut(ls, p) == \E n \in 0..Len(Upto(ls)[Len(ls)]) : p = SubSeq(Upto(ls)[Len(ls)], 1, n)
Rest(ls, p, l) == Past(p, Size(ls, l))

(* A cut answer is the start of the text of the lines.                     *)
LEMMA CutFacts ==
  ASSUME NEW ls \in Seq(Line), NEW p, Cut(ls, p)
  PROVE  /\ p \in Seq(Pieces) /\ Len(p) \in Nat /\ Len(p) <= Size(ls, Len(ls))
         /\ \A k \in 1..Len(p) : p[k] = Upto(ls)[Len(ls)][k]
<1>. DEFINE W == Upto(ls)[Len(ls)]
<1>1. Len(ls) \in Nat /\ W \in Seq(Pieces) /\ Len(W) = Size(ls, Len(ls)) /\ Len(W) \in Nat
  <2>1. Len(ls) \in Nat
    BY Sizes
  <2>2. Len(ls) \in 0..Len(ls)
    BY <2>1
  <2>3. W \in Seq(Pieces) /\ Size(ls, Len(ls)) \in Nat
    BY <2>2, Sizes
  <2>. QED  BY <2>1, <2>3 DEF Size
<1>2. PICK n \in 0..Len(W) : p = SubSeq(W, 1, n)
  BY DEF Cut
<1>. HIDE DEF W
<1>3. n \in Int /\ n \in Nat /\ \A i \in 1..n : W[i] \in Pieces
  BY <1>1, ElementOfSeq
<1>4. /\ p \in Seq(Pieces) /\ Len(p) = (IF 1 <= n THEN n - 1 + 1 ELSE 0)
      /\ \A i \in 1..(n - 1 + 1) : p[i] = W[1 + i - 1]
  BY <1>2, <1>3, SubSeqProperties
<1>5. Len(p) = n /\ \A i \in 1..n : p[i] = W[i]
  BY <1>3, <1>4
<1>6. \A k \in 1..Len(p) : p[k] = Upto(ls)[Len(ls)][k]
  BY <1>5 DEF W
<1>. QED  BY <1>1, <1>3, <1>4, <1>5, <1>6

(* How much is left after l lines.                                         *)
LEMMA RestFacts ==
  ASSUME NEW ls \in Seq(Line), NEW p, Cut(ls, p), NEW l \in 0..Len(ls)
  PROVE  /\ Rest(ls, p, l) \in Seq(Pieces) /\ Size(ls, l) \in Nat
         /\ Len(Rest(ls, p, l)) = IF Size(ls, l) <= Len(p) THEN Len(p) - Size(ls, l) ELSE 0
         /\ \A n \in Nat : Past(Rest(ls, p, l), n) = Past(p, Size(ls, l) + n)
<1>1. p \in Seq(Pieces) /\ Size(ls, l) \in Nat
  BY CutFacts, Sizes
<1>. QED  BY <1>1, PastFacts, PastPast DEF Rest

(* Nothing is left after the last line, and all of it before the first.    *)
LEMMA LastRest ==
  ASSUME NEW ls \in Seq(Line), NEW p, Cut(ls, p)
  PROVE  Rest(ls, p, Len(ls)) = <<>> /\ Rest(ls, p, 0) = p
<1>1. Len(ls) \in 0..Len(ls) /\ 0 \in 0..Len(ls)
  BY Sizes
<1>2. Len(p) \in Nat /\ Size(ls, Len(ls)) \in Nat /\ Len(p) <= Size(ls, Len(ls))
  BY <1>1, CutFacts, Sizes
<1>3. \A m, n \in Nat : m <= n => (IF n <= m THEN m - n ELSE 0) = 0
  OBVIOUS
<1>4. Rest(ls, p, Len(ls)) \in Seq(Pieces) /\ Len(Rest(ls, p, Len(ls))) = 0
  BY <1>1, <1>2, <1>3, RestFacts
<1>5. Rest(ls, p, 0) = p
  BY CutFacts, Sizes, PastFacts DEF Rest
<1>. QED  BY <1>4, <1>5, EmptyFacts

(* What is left after l - 1 lines is line l, and after that what is left   *)
(* after l lines.                                                          *)
LEMMA LineAt ==
  ASSUME NEW ls \in Seq(Line), NEW p, Cut(ls, p), NEW l \in 1..Len(ls)
  PROVE  /\ Agrees(Rest(ls, p, l - 1), Text(ls[l]))
         /\ Past(Rest(ls, p, l - 1), Len(Text(ls[l]))) = Rest(ls, p, l)
<1>. DEFINE s == Rest(ls, p, l - 1)
            t == Text(ls[l])
            a == Size(ls, l - 1)
<1>1. /\ Len(ls) \in Nat /\ l - 1 \in 0..Len(ls) /\ ls[l] \in Line /\ Len(t) \in Nat
      /\ l \in l..Len(ls) /\ Len(ls) \in l..Len(ls)
  BY Sizes, TextFacts
<1>2. /\ s \in Seq(Pieces) /\ a \in Nat
      /\ Len(s) = (IF a <= Len(p) THEN Len(p) - a ELSE 0)
      /\ \A n \in Nat : Past(s, n) = Past(p, a + n)
  BY <1>1, RestFacts
<1>3. Size(ls, l) = a + Len(t)
  BY Sizes
<1>4. /\ p \in Seq(Pieces) /\ Len(p) \in Nat
      /\ \A k \in 1..Len(p) : p[k] = Upto(ls)[Len(ls)][k]
  BY CutFacts
<1>5. \A k \in 1..Len(t) : Upto(ls)[Len(ls)][a + k] = t[k]
  BY <1>1, Layout
<1>6. \A k \in 1..(Len(p) - a) : s[k] = p[a + k]
  BY <1>2, <1>4, PastFacts DEF Rest
<1>7. Past(s, Len(t)) = Rest(ls, p, l)
  BY <1>1, <1>2, <1>3 DEF Rest
<1>. HIDE DEF s, t, a
<1>8. Agrees(s, t)
  <2>. SUFFICES ASSUME NEW k \in 1..Len(s), k <= Len(t) PROVE s[k] = t[k]
    BY DEF Agrees
  <2>1. k \in 1..Len(t) /\ k \in 1..(Len(p) - a) /\ a + k \in 1..Len(p)
    BY <1>1, <1>2, <1>4
  <2>. QED  BY <1>4, <1>5, <1>6, <2>1
<1>. QED  BY <1>7, <1>8 DEF s, t

(* The messages are a number of lines at the front.                        *)
LEMMA MessagesFacts ==
  ASSUME NEW ls \in Seq(Line), Ordered(ls)
  PROVE  /\ Messages(ls) \in 0..Len(ls)
         /\ \A l \in 1..Len(ls) : IsGoal(ls[l]) <=> l > Messages(ls)
<1>. DEFINE Split(m, n) == \A l \in 1..n : IsGoal(ls[l]) <=> l > m
            S == {n \in Nat : n <= Len(ls) => \E m \in 0..n : Split(m, n)}
<1>1. Len(ls) \in Nat /\ DOMAIN ls = 1..Len(ls)
  BY LenProperties
<1>2. 0 \in S
  OBVIOUS
<1>3. ASSUME NEW n \in Nat, n \in S PROVE n + 1 \in S
  <2>. SUFFICES ASSUME n + 1 <= Len(ls) PROVE \E m \in 0..(n + 1) : Split(m, n + 1)
    OBVIOUS
  <2>1. PICK m \in 0..n : Split(m, n)
    BY <1>1, <1>3
  <2>2. CASE IsGoal(ls[n + 1])
    <3>1. Split(m, n + 1)
      <4>. SUFFICES ASSUME NEW l \in 1..(n + 1) PROVE IsGoal(ls[l]) <=> l > m
        OBVIOUS
      <4>1. CASE l \in 1..n
        BY <2>1, <4>1
      <4>2. CASE l = n + 1
        BY <2>2, <4>2
      <4>. QED  BY <4>1, <4>2
    <3>2. m \in 0..(n + 1)
      OBVIOUS
    <3>. QED  BY <3>1, <3>2
  <2>3. CASE ~IsGoal(ls[n + 1])
    <3>1. Split(n + 1, n + 1)
      <4>. SUFFICES ASSUME NEW l \in 1..(n + 1) PROVE ~IsGoal(ls[l]) /\ ~(l > n + 1)
        OBVIOUS
      <4>1. CASE l < n + 1
        BY <1>1, <2>3, <4>1 DEF Ordered
      <4>2. CASE l = n + 1
        BY <2>3, <4>2
      <4>. QED  BY <4>1, <4>2
    <3>2. n + 1 \in 0..(n + 1)
      OBVIOUS
    <3>. QED  BY <3>1, <3>2
  <2>. QED  BY <2>2, <2>3
<1>4. \A n \in Nat : n \in S
  <2>. HIDE DEF S
  <2>. QED  BY <1>2, <1>3, AllNat
<1>5. \E m \in 0..Len(ls) : \A l \in DOMAIN ls : IsGoal(ls[l]) <=> l > m
  <2>1. Len(ls) \in S
    <3>. HIDE DEF S
    <3>. QED  BY <1>1, <1>4
  <2>2. \A n \in Nat : n <= n
    OBVIOUS
  <2>3. PICK m \in 0..Len(ls) : Split(m, Len(ls))
    BY <1>1, <2>1, <2>2
  <2>. QED  BY <1>1, <2>3
<1>. DEFINE Right(m) == \A l \in DOMAIN ls : IsGoal(ls[l]) <=> l > m
<1>6. Messages(ls) = CHOOSE m \in 0..Len(ls) : Right(m)
  BY DEF Messages
<1>7. \E m \in 0..Len(ls) : Right(m)
  BY <1>5
<1>. HIDE DEF Right
<1>8. Messages(ls) \in 0..Len(ls) /\ Right(Messages(ls))
  BY <1>6, <1>7
<1>. QED  BY <1>1, <1>8 DEF Right
-----------------------------------------------------------------------------
(* How far the parser is in the lines ls, of which p came, and what goals  *)
(* gs it must have read: the first l lines are warnings, and all of them   *)
(* came;                                                                   *)
Skipped(ls, p, l) ==
  /\ l \in 0..Len(ls) /\ Size(ls, l) <= Len(p)
  /\ \A j \in 1..l : ls[j] = [message |-> "warning"]

(* the goals of the lines up to r are in gs, or are all of gs and none of  *)
(* them is a HighFailure, or line r is the first;                          *)
Right(ls, p, gs, r) ==
  /\ r \in Messages(ls)..Len(ls) /\ Skipped(ls, p, Messages(ls))
  /\ \A l \in (Messages(ls) + 1)..r :
       /\ l - Messages(ls) \in 1..Len(gs)
       /\ gs[l - Messages(ls)].goal = <<ls[l].goal>>
       /\ gs[l - Messages(ls)].status \in Verdict(<<ls[l].status>>)
NoHigh(ls, r) == \A l \in (Messages(ls) + 1)..r : ls[l].status # "HighFailure"
Reading(ls, p, gs, r) == Right(ls, p, gs, r) /\ NoHigh(ls, r) /\ Len(gs) = r - Messages(ls)
AtHigh(ls, p, gs, r) ==
  /\ Right(ls, p, gs, r) /\ NoHigh(ls, r - 1) /\ Len(gs) = r - Messages(ls)
  /\ r > Messages(ls) /\ ls[r].status = "HighFailure"

(* line r + 1 is cut before its verdict, or some line is, or a message.    *)
GoalCut(ls, p, gs, r) ==
  /\ Right(ls, p, gs, r) /\ NoHigh(ls, r) /\ Len(gs) = r - Messages(ls) + 1
  /\ Size(ls, r) < Len(p) /\ Len(p) <= Size(ls, r) + 8
Unfinished(ls, p) == \E l \in 1..Len(ls) :
  /\ Size(ls, l - 1) < Len(p)
  /\ Len(p) < Size(ls, l) /\ (IsGoal(ls[l]) => Len(p) <= Size(ls, l - 1) + 8)
Short(ls, p) == \E l \in 1..Len(ls) : ~IsGoal(ls[l]) /\ Len(p) < Size(ls, l)
MessageCut(ls, p, gs) == Short(ls, p) /\ Len(gs) <= 1 /\ (gs # <<>> => Unfinished(ls, p))

(* More lines are no shorter.                                              *)
LEMMA SizesGrow ==
  ASSUME NEW ls \in Seq(Line), NEW j \in 0..Len(ls), NEW l \in j..Len(ls)
  PROVE  Size(ls, j) \in Nat /\ Size(ls, l) \in Nat /\ Size(ls, j) <= Size(ls, l)
<1>1. Len(ls) \in Nat /\ l \in 0..Len(ls) /\ Size(ls, 0) = 0
  BY Sizes
<1>2. Size(ls, j) \in Nat /\ Size(ls, l) \in Nat
  BY <1>1, Sizes
<1>3. CASE j = 0
  BY <1>1, <1>2, <1>3
<1>4. CASE j # 0
  <2>1. j \in 1..Len(ls)
    BY <1>1, <1>4
  <2>2. ls[j] \in Line
    BY <2>1, Sizes
  <2>3. 1 \in 1..Len(Text(ls[j]))
    BY <2>2, TextFacts
  <2>4. Size(ls, j) <= Size(ls, l)
    BY <2>1, <2>3, Layout
  <2>. QED  BY <1>2, <2>4
<1>. QED  BY <1>3, <1>4

(* What comes after l lines is the start of line l + 1, or nothing.        *)
LEMMA NextLine ==
  ASSUME NEW ls \in Seq(Line), NEW p, Cut(ls, p), NEW l \in 0..Len(ls),
         Rest(ls, p, l) # <<>>
  PROVE  /\ l + 1 \in 1..Len(ls) /\ (l + 1) - 1 = l /\ ls[l + 1] \in Line
         /\ Size(ls, l) \in Nat /\ Len(p) \in Nat /\ Size(ls, l) < Len(p)
         /\ Len(Rest(ls, p, l)) = Len(p) - Size(ls, l)
         /\ Size(ls, l + 1) = Size(ls, l) + Len(Text(ls[l + 1]))
         /\ Len(Text(ls[l + 1])) \in Nat /\ Len(Text(ls[l + 1])) >= 4
<1>1. Len(ls) \in Nat /\ l # Len(ls) /\ Len(p) \in Nat
  BY Sizes, LastRest, CutFacts
<1>2. l + 1 \in 1..Len(ls) /\ (l + 1) - 1 = l
  BY <1>1
<1>3. ls[l + 1] \in Line /\ Size(ls, l + 1) = Size(ls, l) + Len(Text(ls[l + 1]))
  BY <1>2, Sizes
<1>4. /\ Rest(ls, p, l) \in Seq(Pieces) /\ Size(ls, l) \in Nat
      /\ Len(Rest(ls, p, l)) = IF Size(ls, l) <= Len(p) THEN Len(p) - Size(ls, l) ELSE 0
  BY RestFacts
<1>5. Len(Rest(ls, p, l)) # 0
  BY <1>4, EmptyFacts
<1>6. Size(ls, l) < Len(p) /\ Len(Rest(ls, p, l)) = Len(p) - Size(ls, l)
  BY <1>1, <1>4, <1>5
<1>. QED  BY <1>1, <1>2, <1>3, <1>4, <1>6, TextFacts

(* The first piece tells the lines of messages from those of goals.        *)
LEMMA FirstPiece ==
  ASSUME NEW ls \in Seq(Line), NEW p, Cut(ls, p), NEW l \in 0..Len(ls),
         Rest(ls, p, l) # <<>>
  PROVE  StartsWith(Rest(ls, p, l), "place") <=> ~IsGoal(ls[l + 1])
<1>. DEFINE s == Rest(ls, p, l)
            t == Text(ls[l + 1])
<1>1. /\ l + 1 \in 1..Len(ls) /\ (l + 1) - 1 = l /\ ls[l + 1] \in Line
      /\ Len(s) = Len(p) - Size(ls, l) /\ Size(ls, l) \in Nat /\ Len(p) \in Nat
      /\ Size(ls, l) < Len(p) /\ s \in Seq(Pieces) /\ Len(t) \in Nat /\ Len(t) >= 4
  BY NextLine, RestFacts
<1>2. Agrees(s, t)
  BY <1>1, LineAt
<1>3. CASE ~IsGoal(ls[l + 1])
  BY <1>1, <1>2, <1>3, MessageText, AtMessage
<1>4. CASE IsGoal(ls[l + 1])
  <2>1. t[1] # "place"
    BY <1>1, <1>4, GoalText DEF GoalPieces
  <2>2. 1 \in 1..Len(s) /\ 1 <= Len(t)
    BY <1>1
  <2>3. s[1] = t[1]
    BY <1>2, <2>2 DEF Agrees
  <2>4. "place" \in Pieces
    BY WordKinds
  <2>5. ~StartsWith(s, "place")
    BY <1>1, <2>1, <2>3, <2>4, StartsWithFacts
  <2>. QED  BY <1>4, <2>5
<1>. QED  BY <1>3, <1>4

(* Where a message is cut, no goal's line has begun.                       *)
LEMMA NoGoalBegun ==
  ASSUME NEW ls \in Seq(Line), Ordered(ls), NEW p, Cut(ls, p), Short(ls, p)
  PROVE  /\ \A l \in 1..Len(ls) : IsGoal(ls[l]) => Len(p) <= Size(ls, l - 1)
         /\ Len(p) < Size(ls, Len(ls))
<1>1. PICK m \in 1..Len(ls) : ~IsGoal(ls[m]) /\ Len(p) < Size(ls, m)
  BY DEF Short
<1>2. Len(ls) \in Nat /\ Len(p) \in Nat /\ m \in 0..Len(ls) /\ m <= Messages(ls)
      /\ Messages(ls) \in Nat
  BY <1>1, Sizes, CutFacts, MessagesFacts
<1>3. ASSUME NEW l \in m..Len(ls) PROVE Len(p) <= Size(ls, l) /\ Len(p) < Size(ls, l)
  <2>1. Size(ls, m) \in Nat /\ Size(ls, l) \in Nat /\ Size(ls, m) <= Size(ls, l)
    BY <1>2, SizesGrow
  <2>. QED  BY <1>1, <1>2, <2>1
<1>4. ASSUME NEW l \in 1..Len(ls), IsGoal(ls[l]) PROVE l - 1 \in m..Len(ls)
  <2>1. l > Messages(ls)
    BY <1>4, MessagesFacts
  <2>. QED  BY <1>2, <2>1
<1>5. Len(ls) \in m..Len(ls)
  BY <1>2
<1>. QED  BY <1>3, <1>4, <1>5
-----------------------------------------------------------------------------
(* Lines that are skipped are messages, so that the loop ends where the    *)
(* goals begin.                                                            *)
LEMMA WarningsAreMessages ==
  ASSUME NEW ls \in Seq(Line), Ordered(ls), NEW p, Cut(ls, p), NEW l, Skipped(ls, p, l)
  PROVE  /\ l \in 0..Messages(ls) /\ l \in 0..Len(ls) /\ Messages(ls) \in Nat
         /\ l < Messages(ls) => l + 1 \in 1..Len(ls) /\ ~IsGoal(ls[l + 1])
         /\ l + 1 \in 1..Len(ls) /\ IsGoal(ls[l + 1]) => l = Messages(ls)
<1>1. Len(ls) \in Nat /\ l \in 0..Len(ls) /\ Messages(ls) \in 0..Len(ls)
  BY Sizes, MessagesFacts DEF Skipped
<1>2. l <= Messages(ls)
  <2>. SUFFICES ASSUME l > Messages(ls) PROVE FALSE
    BY <1>1
  <2>1. l \in 1..Len(ls)
    BY <1>1
  <2>2. IsGoal(ls[l])
    BY <2>1, MessagesFacts
  <2>3. l \in 1..l
    BY <2>1
  <2>4. ls[l] = [message |-> "warning"]
    BY <2>3 DEF Skipped
  <2>5. ~IsGoal([message |-> "warning"])
    <3>1. [message |-> "warning"] \in [message : Located]
      BY DEF Located
    <3>. QED  BY <3>1, LineKinds
  <2>. QED  BY <2>2, <2>4, <2>5
<1>3. l < Messages(ls) => l + 1 \in 1..Len(ls) /\ ~IsGoal(ls[l + 1])
  <2>1. l < Messages(ls) => l + 1 \in 1..Len(ls) /\ ~(l + 1 > Messages(ls))
    BY <1>1
  <2>. QED  BY <2>1, MessagesFacts
<1>4. l \in 0..Messages(ls) /\ (l = Messages(ls) \/ l < Messages(ls))
  BY <1>1, <1>2
<1>. QED  BY <1>1, <1>3, <1>4

(* At a message: it is a warning and goes by, or it is cut, or it is the   *)
(* error.                                                                  *)
LEMMA MessageStep ==
  ASSUME NEW ls \in Seq(Line), Ordered(ls), NEW p, Cut(ls, p), NEW l, Skipped(ls, p, l),
         NEW s, s = Rest(ls, p, l), s # <<>>, ~IsGoal(ls[l + 1]), NEW text, text = PastLine(s)
  PROVE  /\ StartsWith(s, "place")
         /\ StartsWith(text, "warning") /\ text # <<"warning">> =>
              Skipped(ls, p, l + 1) /\ PastLine(text) = Rest(ls, p, l + 1)
         /\ ~StartsWith(text, "warning") \/ Span(s, {Newline}) = Len(s) \/ text = <<"warning">> =>
              \/ Short(ls, p)
              \/ /\ l + 1 = Len(ls) /\ ls[l + 1] = [message |-> "error"]
                 /\ ~(Span(s, {Newline}) = Len(s) \/ text = <<"warning">>)
                 /\ SubSeq(text, 1, Span(text, {Newline})) = <<"error">>
         /\ s = <<"place">> => Short(ls, p) /\ Unfinished(ls, p)
<1>. DEFINE t == Text(ls[l + 1])
            m == ls[l + 1].message
<1>1. l \in 0..Len(ls)
  BY WarningsAreMessages
<1>2. /\ l + 1 \in 1..Len(ls) /\ (l + 1) - 1 = l /\ ls[l + 1] \in Line
      /\ Size(ls, l) \in Nat /\ Len(p) \in Nat /\ Size(ls, l) < Len(p)
      /\ Len(s) = Len(p) - Size(ls, l)
      /\ Size(ls, l + 1) = Size(ls, l) + Len(t)
  BY <1>1, NextLine
<1>3. MessagePieces(t, ls[l + 1]) /\ Len(t) = 4
  BY <1>2, MessageText DEF MessagePieces
<1>4. s \in Seq(Pieces) /\ Agrees(s, t) /\ Past(s, 4) = Rest(ls, p, l + 1)
  BY <1>1, <1>2, <1>3, RestFacts, LineAt
<1>. HIDE DEF t
<1>5. /\ PastLine(text) = Past(s, 4) /\ StartsWith(s, "place")
      /\ \A w \in {"warning", "error"} : StartsWith(text, w) <=> Len(s) >= 3 /\ m = w
      /\ text = <<"warning">> <=> Len(s) = 3 /\ m = "warning"
      /\ Span(s, {Newline}) = Len(s) <=> Len(s) <= 1
      /\ Len(s) >= 3 => SubSeq(text, 1, Span(text, {Newline})) = <<m>>
  <2>1. /\ PastLine(s) = Past(s, 2)
        /\ PastLine(Past(s, 2)) = Past(s, 4)
        /\ s # <<>> => StartsWith(s, "place")
        /\ \A w \in {"warning", "error"} :
             StartsWith(Past(s, 2), w) <=> Len(s) >= 3 /\ m = w
        /\ Past(s, 2) = <<"warning">> <=> Len(s) = 3 /\ m = "warning"
        /\ Span(s, {Newline}) = Len(s) <=> Len(s) <= 1
        /\ Len(s) >= 3 => SubSeq(Past(s, 2), 1, Span(Past(s, 2), {Newline})) = <<m>>
    BY <1>3, <1>4, AtMessage
  <2>2. text = Past(s, 2)
    BY <2>1
  <2>. QED  BY <2>1, <2>2
<1>6. m \in {"warning", "error"} /\ ls[l + 1] = [message |-> m]
  <2>1. ls[l + 1] \in [message : Located]
    BY <1>2, LineKinds
  <2>. QED  BY <2>1, LineKinds DEF Located
<1>. HIDE DEF m
<1>7. Len(s) \in Nat /\ (Len(s) >= 4 <=> Size(ls, l + 1) <= Len(p))
      /\ (Len(s) < 4 <=> Len(p) < Size(ls, l + 1))
  BY <1>2, <1>3
<1>8. Len(s) < 4 => Short(ls, p)
  BY <1>2, <1>7 DEF Short
<1>9. ASSUME StartsWith(text, "warning"), text # <<"warning">>
      PROVE  Skipped(ls, p, l + 1) /\ PastLine(text) = Rest(ls, p, l + 1)
  <2>1. Len(s) >= 3 /\ m = "warning" /\ Len(s) # 3
    BY <1>5, <1>9
  <2>2. \A n \in Nat : n >= 3 /\ n # 3 => n >= 4
    OBVIOUS
  <2>3. Size(ls, l + 1) <= Len(p)
    BY <1>7, <2>1, <2>2
  <2>4. ASSUME NEW j \in 1..(l + 1) PROVE ls[j] = [message |-> "warning"]
    <3>1. CASE j = l + 1
      BY <1>6, <2>1, <3>1
    <3>2. CASE j # l + 1
      <4>1. j \in 1..l
        BY <1>1, <3>2
      <4>. QED  BY <4>1 DEF Skipped
    <3>. QED  BY <3>1, <3>2
  <2>5. l + 1 \in 0..Len(ls)
    BY <1>2
  <2>. QED  BY <1>4, <1>5, <2>3, <2>4, <2>5 DEF Skipped
<1>10. ASSUME ~StartsWith(text, "warning") \/ Span(s, {Newline}) = Len(s) \/ text = <<"warning">>,
              ~Short(ls, p)
       PROVE  /\ l + 1 = Len(ls) /\ ls[l + 1] = [message |-> "error"]
              /\ ~(Span(s, {Newline}) = Len(s) \/ text = <<"warning">>)
              /\ SubSeq(text, 1, Span(text, {Newline})) = <<"error">>
  <2>1. \A n \in Nat : ~(n < 4) => n >= 3 /\ n # 3 /\ ~(n <= 1)
    OBVIOUS
  <2>2. Len(s) >= 3 /\ Len(s) # 3 /\ ~(Len(s) <= 1)
    BY <1>7, <1>8, <1>10, <2>1
  <2>3. m = "error"
    BY <1>5, <1>6, <1>10, <2>2
  <2>4. ls[l + 1] = [message |-> "error"]
    BY <1>6, <2>3
  <2>5. l + 1 = Len(ls)
    <3>. SUFFICES ASSUME l + 1 # Len(ls) PROVE FALSE
      OBVIOUS
    <3>1. Len(ls) \in Nat /\ DOMAIN ls = 1..Len(ls)
      BY LenProperties
    <3>2. l + 1 \in 1..Len(ls) /\ Len(ls) \in 1..Len(ls) /\ l + 1 < Len(ls)
      BY <1>2, <3>1
    <3>. QED  BY <2>4, <3>1, <3>2 DEF Ordered
  <2>. QED  BY <1>5, <2>2, <2>3, <2>4, <2>5
<1>11. ASSUME s = <<"place">> PROVE Short(ls, p) /\ Unfinished(ls, p)
  <2>1. Len(<<"place">>) = 1
    OBVIOUS
  <2>2. Len(s) = 1
    BY <1>11, <2>1
  <2>3. \A n \in Nat : n = 1 => n < 4
    OBVIOUS
  <2>4. Len(s) < 4
    BY <1>7, <2>2, <2>3
  <2>. QED  BY <1>2, <1>7, <1>8, <2>4 DEF Unfinished
<1>. QED  BY <1>5, <1>9, <1>10, <1>11

(* The warnings end.                                                       *)
LEMMA MessagesEnd ==
  ASSUME NEW ls \in Seq(Line), Ordered(ls), NEW p, Cut(ls, p), NEW l, Skipped(ls, p, l),
         Rest(ls, p, l) = <<>> \/ IsGoal(ls[l + 1])
  PROVE  \/ l = Messages(ls) /\ Reading(ls, p, <<>>, l)
         \/ Rest(ls, p, l) = <<>> /\ Short(ls, p)
<1>1. /\ l \in 0..Messages(ls) /\ l \in 0..Len(ls) /\ Messages(ls) \in Nat
      /\ l < Messages(ls) => l + 1 \in 1..Len(ls) /\ ~IsGoal(ls[l + 1])
      /\ l + 1 \in 1..Len(ls) /\ IsGoal(ls[l + 1]) => l = Messages(ls)
  BY WarningsAreMessages
<1>2. Len(ls) \in Nat /\ Len(<<>>) = 0
  BY Sizes
<1>3. CASE l = Messages(ls)
  <2>1. (Messages(ls) + 1)..l = {} /\ l - Messages(ls) = 0
    BY <1>1, <1>3
  <2>2. l \in Messages(ls)..Len(ls)
    BY <1>1, <1>3
  <2>3. Right(ls, p, <<>>, l)
    BY <1>3, <2>1, <2>2 DEF Right
  <2>4. NoHigh(ls, l)
    BY <2>1 DEF NoHigh
  <2>. QED  BY <1>2, <1>3, <2>1, <2>3, <2>4 DEF Reading
<1>4. CASE l < Messages(ls)
  <2>1. l + 1 \in 1..Len(ls) /\ ~IsGoal(ls[l + 1]) /\ Rest(ls, p, l) = <<>>
    BY <1>1, <1>4
  <2>2. /\ (l + 1) - 1 = l /\ ls[l + 1] \in Line /\ Size(ls, l) \in Nat /\ Len(p) \in Nat
        /\ Size(ls, l + 1) = Size(ls, l) + Len(Text(ls[l + 1]))
    BY <1>1, <2>1, Sizes, CutFacts
  <2>3. Len(Text(ls[l + 1])) \in Nat /\ Len(Text(ls[l + 1])) >= 4
    BY <2>2, TextFacts
  <2>4. Len(Rest(ls, p, l)) = IF Size(ls, l) <= Len(p) THEN Len(p) - Size(ls, l) ELSE 0
    BY <1>1, RestFacts
  <2>5. Len(p) <= Size(ls, l)
    BY <1>2, <2>1, <2>2, <2>4
  <2>6. Len(p) < Size(ls, l + 1)
    BY <2>2, <2>3, <2>5
  <2>. QED  BY <2>1, <2>6 DEF Short
<1>. QED  BY <1>1, <1>3, <1>4
-----------------------------------------------------------------------------
GoalRecord == [goal : {<<>>} \cup {<<g>> : g \in Goals}, status : Known \cup {"other"}]

(* Words of one piece are equal if the pieces are.                         *)
LEMMA Singletons == \A x, y : <<x>> = <<y>> <=> x = y
<1>. SUFFICES ASSUME NEW x, NEW y, <<x>> = <<y>> PROVE x = y
  OBVIOUS
<1>1. <<x>>[1] = x /\ <<y>>[1] = y
  OBVIOUS
<1>. QED  BY <1>1

(* What the chain of comparisons makes of a word.                          *)
LEMMA VerdictFacts ==
  /\ Verdict(<<>>) \subseteq Known \cup {"other"}
  /\ \A x \in Status : Verdict(<<x>>) \subseteq Known \cup {"other"}
  /\ \A x \in Known : Verdict(<<x>>) = {IF x = "HighFailure" THEN "Failure" ELSE x}
<1>1. \A x : <<x>> # <<>> /\ <<x>>[1] = x
  OBVIOUS
<1>2. \A x : <<x>> \in {<<y>> : y \in Known} <=> x \in Known
  BY Singletons
<1>3. \A x \in Known : Verdict(<<x>>) = {IF x = "HighFailure" THEN "Failure" ELSE x}
  <2>. SUFFICES ASSUME NEW x \in Known
                PROVE  Verdict(<<x>>) = {IF x = "HighFailure" THEN "Failure" ELSE x}
    OBVIOUS
  <2>1. <<x>> = <<"HighFailure">> <=> x = "HighFailure"
    BY Singletons
  <2>2. CASE x = "HighFailure"
    <3>1. Verdict(<<x>>) = {"Failure"}
      BY <1>1, <2>1, <2>2 DEF Verdict
    <3>. QED  BY <2>2, <3>1
  <2>3. CASE x # "HighFailure"
    <3>1. Verdict(<<x>>) = {<<x>>[1]}
      BY <1>1, <1>2, <2>1, <2>3 DEF Verdict
    <3>. QED  BY <1>1, <2>3, <3>1
  <2>. QED  BY <2>2, <2>3
<1>4. \A x \in Status \ Known : Verdict(<<x>>) = {"Valid", "Unknown", "Timeout", "Failure", "other"}
  <2>. SUFFICES ASSUME NEW x \in Status, x \notin Known
                PROVE  Verdict(<<x>>) = {"Valid", "Unknown", "Timeout", "Failure", "other"}
    OBVIOUS
  <2>1. x # "HighFailure"
    BY DEF Known
  <2>2. <<x>> # <<"HighFailure">>
    BY <2>1, Singletons
  <2>. QED  BY <1>1, <1>2, <2>2 DEF Verdict
<1>5. Verdict(<<>>) = {"Valid"}
  BY DEF Verdict
<1>6. {"Valid", "Unknown", "Timeout", "Failure", "other"} \subseteq Known \cup {"other"}
  BY DEF Known
<1>7. ASSUME NEW x \in Status PROVE Verdict(<<x>>) \subseteq Known \cup {"other"}
  <2>1. CASE x \in Known
    <3>1. (IF x = "HighFailure" THEN "Failure" ELSE x) \in Known
      BY <2>1 DEF Known
    <3>. QED  BY <1>3, <2>1, <3>1
  <2>2. CASE x \notin Known
    BY <1>4, <1>6, <2>2
  <2>. QED  BY <2>1, <2>2
<1>. QED  BY <1>3, <1>5, <1>6, <1>7

(* The places that ReadGoal looks at when str is at s.                     *)
GoalAt(s) == AfterWord(AfterWord(s, 1), 1)
StatusAt(s) == AfterWord(GoalAt(s), 3)
TimeAt(s) == AfterWord(StatusAt(s), 2)

(* At the line of a goal: its verdict is read, or is cut.                  *)
LEMMA GoalStep ==
  ASSUME NEW ls \in Seq(Line), Ordered(ls), NEW p, Cut(ls, p), NEW gs \in Seq(GoalRecord),
         NEW r \in 0..Len(ls), Reading(ls, p, gs, r), NEW s, s = Rest(ls, p, r), s # <<>>,
         NEW v \in Verdict(Word(StatusAt(s))), NEW gs2,
         gs2 = Append(gs, [goal |-> Word(GoalAt(s)), status |-> v])
  PROVE  /\ gs2 \in Seq(GoalRecord)
         /\ Word(StatusAt(s)) = <<"HighFailure">> => AtHigh(ls, p, gs2, r + 1)
         /\ Word(StatusAt(s)) # <<"HighFailure">> =>
              \/ Reading(ls, p, gs2, r + 1) /\ PastLine(TimeAt(s)) = Rest(ls, p, r + 1)
              \/ GoalCut(ls, p, gs2, r) /\ PastLine(TimeAt(s)) = <<>>
<1>. DEFINE l == ls[r + 1]
            t == Text(l)
            M == Messages(ls)
            g == [goal |-> Word(GoalAt(s)), status |-> v]
<1>1. /\ r + 1 \in 1..Len(ls) /\ (r + 1) - 1 = r /\ l \in Line
      /\ Size(ls, r) \in Nat /\ Len(p) \in Nat /\ Size(ls, r) < Len(p)
      /\ Len(s) = Len(p) - Size(ls, r)
      /\ Size(ls, r + 1) = Size(ls, r) + Len(t)
  BY NextLine
<1>2. /\ M \in 0..Len(ls) /\ Len(ls) \in Nat /\ r \in M..Len(ls) /\ Len(gs) = r - M
      /\ Right(ls, p, gs, r) /\ NoHigh(ls, r)
  BY MessagesFacts, Sizes DEF Reading, Right
<1>3. IsGoal(l)
  <2>1. r + 1 > M
    BY <1>2
  <2>. QED  BY <1>1, <2>1, MessagesFacts
<1>4. GoalPieces(t, l) /\ l.goal \in Goals /\ l.status \in Status
  BY <1>1, <1>3, GoalText, LineKinds
<1>5. Len(t) \in Nat /\ Len(t) >= 14
  <2>1. \A n \in {14, 17} : n \in Nat /\ n >= 14
    OBVIOUS
  <2>. QED  BY <1>4, <2>1 DEF GoalPieces
<1>6. s \in Seq(Pieces) /\ Agrees(s, t) /\ Past(s, Len(t)) = Rest(ls, p, r + 1)
  BY <1>1, <1>5, RestFacts, LineAt
<1>. HIDE DEF t, M
<1>7. /\ Word(GoalAt(s)) = (IF Len(s) >= 5 THEN <<l.goal>> ELSE <<>>)
      /\ Word(StatusAt(s)) = (IF Len(s) >= 9 THEN <<l.status>> ELSE <<>>)
      /\ PastLine(TimeAt(s)) = Rest(ls, p, r + 1)
  <2>1. /\ AfterWord(s, 1) = Past(s, 2)
        /\ AfterWord(Past(s, 2), 1) = Past(s, 4)
        /\ AfterWord(Past(s, 4), 3) = Past(s, 8)
        /\ AfterWord(Past(s, 8), 2) = Past(s, 11)
        /\ Word(Past(s, 4)) = IF Len(s) >= 5 THEN <<l.goal>> ELSE <<>>
        /\ Word(Past(s, 8)) = IF Len(s) >= 9 THEN <<l.status>> ELSE <<>>
        /\ PastLine(Past(s, 11)) = Past(s, Len(t))
    BY <1>4, <1>6, AtGoal
  <2>2. GoalAt(s) = Past(s, 4)
    BY <2>1 DEF GoalAt
  <2>3. StatusAt(s) = Past(s, 8)
    BY <2>1, <2>2 DEF StatusAt
  <2>4. TimeAt(s) = Past(s, 11)
    BY <2>1, <2>3 DEF TimeAt
  <2>. QED  BY <1>6, <2>1, <2>2, <2>3, <2>4
<1>8. g \in GoalRecord
  <2>1. Word(GoalAt(s)) \in {<<>>} \cup {<<x>> : x \in Goals}
    BY <1>4, <1>7
  <2>2. v \in Known \cup {"other"}
    BY <1>4, <1>7, VerdictFacts
  <2>. QED  BY <2>1, <2>2 DEF GoalRecord
<1>. HIDE DEF g
<1>9. /\ gs2 \in Seq(GoalRecord) /\ Len(gs) \in Nat /\ Len(gs2) = Len(gs) + 1
      /\ \A k \in 1..Len(gs) : gs2[k] = gs[k]
      /\ gs2[Len(gs) + 1] = g
  <2>1. gs2 = Append(gs, g)
    BY DEF g
  <2>. HIDE DEF g
  <2>. QED  BY <1>8, <2>1, AppendProperties, LenProperties
<1>10. Len(gs2) = r - M + 1 /\ Len(gs2) = (r + 1) - M /\ Len(s) \in Nat /\ r \in Nat /\ M \in Nat
       /\ r + 1 > M /\ r + 1 \in M..Len(ls)
  <2>1. r \in Nat /\ M \in Nat /\ r + 1 > M /\ r + 1 \in M..Len(ls)
    BY <1>1, <1>2
  <2>2. Len(s) \in Nat
    BY <1>6, LenProperties
  <2>3. Len(gs2) = r - M + 1
    BY <1>2, <1>9
  <2>4. (r + 1) - M = r - M + 1
    BY <2>1
  <2>. QED  BY <2>1, <2>2, <2>3, <2>4
<1>11. \A i \in (M + 1)..r : /\ i - M \in 1..Len(gs2) /\ gs2[i - M] = gs[i - M]
  BY <1>2, <1>9, <1>10
<1>12. Right(ls, p, gs2, r)
  BY <1>2, <1>11 DEF Right, M
<1>13. ASSUME Len(s) >= 9
       PROVE  /\ Right(ls, p, gs2, r + 1) /\ Word(StatusAt(s)) = <<l.status>>
              /\ l.status # "HighFailure" => NoHigh(ls, r + 1)
  <2>1. Len(s) >= 5
    BY <1>10, <1>13
  <2>2. Word(GoalAt(s)) = <<l.goal>> /\ Word(StatusAt(s)) = <<l.status>>
    BY <1>7, <1>13, <2>1
  <2>3. gs2[(r + 1) - M].goal = <<l.goal>> /\ gs2[(r + 1) - M].status \in Verdict(<<l.status>>)
    <3>1. (r + 1) - M = Len(gs) + 1
      BY <1>2, <1>10
    <3>2. gs2[(r + 1) - M] = g
      BY <1>9, <3>1
    <3>3. g.goal = Word(GoalAt(s)) /\ g.status = v
      BY DEF g
    <3>4. v \in Verdict(<<l.status>>)
      BY <2>2
    <3>. QED  BY <2>2, <3>2, <3>3, <3>4
  <2>4. ASSUME NEW i \in (M + 1)..(r + 1)
        PROVE  /\ i - M \in 1..Len(gs2)
               /\ gs2[i - M].goal = <<ls[i].goal>>
               /\ gs2[i - M].status \in Verdict(<<ls[i].status>>)
    <3>1. CASE i = r + 1
      <4>1. i - M \in 1..Len(gs2)
        BY <1>10, <3>1
      <4>. QED  BY <2>3, <3>1, <4>1
    <3>2. CASE i # r + 1
      <4>1. i \in (M + 1)..r
        BY <1>10, <3>2
      <4>. QED  BY <1>12, <4>1 DEF Right, M
    <3>. QED  BY <3>1, <3>2
  <2>5. Skipped(ls, p, M)
    BY <1>12 DEF Right, M
  <2>6. Right(ls, p, gs2, r + 1)
    BY <1>10, <2>4, <2>5 DEF Right, M
  <2>7. l.status # "HighFailure" => NoHigh(ls, r + 1)
    <3>1. \A i \in (M + 1)..(r + 1) : i \in (M + 1)..r \/ i = r + 1
      BY <1>10
    <3>. QED  BY <1>2, <3>1 DEF NoHigh, M
  <2>. QED  BY <2>2, <2>6, <2>7
<1>14. CASE Len(s) >= 9
  <2>1. Word(StatusAt(s)) = <<"HighFailure">> <=> l.status = "HighFailure"
    BY <1>13, <1>14, Singletons
  <2>2. l.status = "HighFailure" => AtHigh(ls, p, gs2, r + 1)
    BY <1>1, <1>2, <1>10, <1>13, <1>14 DEF AtHigh, M
  <2>3. l.status # "HighFailure" => Reading(ls, p, gs2, r + 1)
    BY <1>10, <1>13, <1>14 DEF Reading, M
  <2>. QED  BY <1>7, <1>9, <2>1, <2>2, <2>3
<1>15. CASE ~(Len(s) >= 9)
  <2>1. Word(StatusAt(s)) = <<>> /\ <<>> # <<"HighFailure">>
    BY <1>7, <1>15
  <2>2. Len(p) <= Size(ls, r) + 8 /\ Len(p) <= Size(ls, r + 1)
    BY <1>1, <1>5, <1>10, <1>15
  <2>3. GoalCut(ls, p, gs2, r)
    BY <1>1, <1>2, <1>10, <1>12, <2>2 DEF GoalCut, M
  <2>4. Rest(ls, p, r + 1) = <<>>
    <3>1. /\ r + 1 \in 0..Len(ls)
      BY <1>1
    <3>2. /\ Rest(ls, p, r + 1) \in Seq(Pieces) /\ Size(ls, r + 1) \in Nat
          /\ Len(Rest(ls, p, r + 1)) =
               IF Size(ls, r + 1) <= Len(p) THEN Len(p) - Size(ls, r + 1) ELSE 0
      BY <3>1, RestFacts
    <3>3. \A m, n \in Nat : m <= n => (IF n <= m THEN m - n ELSE 0) = 0
      OBVIOUS
    <3>4. Len(Rest(ls, p, r + 1)) = 0
      BY <1>1, <2>2, <3>2, <3>3
    <3>. QED  BY <3>2, <3>4, EmptyFacts
  <2>. QED  BY <1>7, <1>9, <2>1, <2>3, <2>4
<1>. QED  BY <1>14, <1>15
-----------------------------------------------------------------------------
(* At a `File "' that ends the answer: a goal with no name is read.        *)
LEMMA PlaceStep ==
  ASSUME NEW s, s = <<"place">>, NEW v \in Verdict(Word(StatusAt(s))), NEW gs2,
         gs2 = Append(<<>>, [goal |-> Word(GoalAt(s)), status |-> v])
  PROVE  /\ gs2 \in Seq(GoalRecord) /\ Len(gs2) = 1
         /\ Word(StatusAt(s)) # <<"HighFailure">> /\ PastLine(TimeAt(s)) = <<>>
<1>1. s \in Seq(Pieces) /\ Len(s) = 1 /\ s[1] # Space
  <2>1. <<"place">> \in Seq(Pieces) /\ Len(<<"place">>) = 1 /\ <<"place">>[1] = "place"
    BY WordKinds
  <2>2. "place" # Space
    BY DEF Space
  <2>. QED  BY <2>1, <2>2
<1>2. \A n \in Nat : AfterWord(s, n) = Past(s, n + 1)
  <2>1. \A n \in Nat : n = 1 => ~(n >= 2)
    OBVIOUS
  <2>2. ~(Len(s) >= 2)
    BY <1>1, <2>1
  <2>. QED  BY <1>1, <2>2, WordFacts
<1>3. AfterWord(s, 1) = <<>>
  <2>1. AfterWord(s, 1) = Past(s, 2)
    <3>1. 1 \in Nat /\ 1 + 1 = 2
      OBVIOUS
    <3>. QED  BY <1>2, <3>1
  <2>2. Past(s, 2) \in Seq(Pieces) /\ Len(Past(s, 2)) = 0
    <3>1. Past(s, 2) \in Seq(Pieces) /\ Len(Past(s, 2)) = IF 2 <= Len(s) THEN Len(s) - 2 ELSE 0
      BY <1>1, PastFacts
    <3>2. \A n \in Nat : n = 1 => (IF 2 <= n THEN n - 2 ELSE 0) = 0
      OBVIOUS
    <3>. QED  BY <1>1, <3>1, <3>2
  <2>. QED  BY <2>1, <2>2, EmptyFacts
<1>4. GoalAt(s) = <<>> /\ StatusAt(s) = <<>> /\ TimeAt(s) = <<>>
  <2>1. \A n \in {1, 2, 3} : AfterWord(<<>>, n) = <<>>
    BY EmptyFacts
  <2>. QED  BY <1>3, <2>1 DEF GoalAt, StatusAt, TimeAt
<1>5. Word(GoalAt(s)) = <<>> /\ Word(StatusAt(s)) = <<>> /\ PastLine(TimeAt(s)) = <<>>
  BY <1>4, EmptyFacts
<1>6. v \in Known \cup {"other"}
  BY <1>5, VerdictFacts
<1>. DEFINE g == [goal |-> Word(GoalAt(s)), status |-> v]
<1>7. g \in GoalRecord
  BY <1>5, <1>6 DEF GoalRecord
<1>. HIDE DEF g
<1>8. gs2 = Append(<<>>, g)
  BY DEF g
<1>9. gs2 \in Seq(GoalRecord) /\ Len(gs2) = 0 + 1
  BY <1>7, <1>8, EmptySeq, AppendProperties
<1>10. <<>> # <<"HighFailure">>
  OBVIOUS
<1>. QED  BY <1>5, <1>9, <1>10

(* An error is found: no verdict came, and the message is in msg.          *)
NoVerdict(ls, p, msg) ==
  /\ \A l \in 1..Len(ls) : IsGoal(ls[l]) => Len(p) <= Size(ls, l - 1) + 8
  /\ p = Upto(ls)[Len(ls)] => /\ \E l \in 1..Len(ls) : ls[l] = [message |-> "error"]
                              /\ msg = {<<"error">>}

(* FindError finds the error, or a message that is cut.                    *)
LEMMA ErrorStep ==
  ASSUME NEW ls \in Seq(Line), Ordered(ls), NEW p, Cut(ls, p), NEW l, Skipped(ls, p, l),
         NEW s, s = Rest(ls, p, l), s # <<>>, ~IsGoal(ls[l + 1]), NEW text, text = PastLine(s),
         NEW cut, cut <=> Span(s, {Newline}) = Len(s) \/ text = <<"warning">>,
         ~StartsWith(text, "warning") \/ cut, NEW msg,
         ~cut => msg = {SubSeq(text, 1, Span(text, {Newline}))}
  PROVE  NoVerdict(ls, p, msg)
<1>1. \/ Short(ls, p)
      \/ /\ l + 1 = Len(ls) /\ ls[l + 1] = [message |-> "error"] /\ ~cut
         /\ SubSeq(text, 1, Span(text, {Newline})) = <<"error">>
  BY MessageStep
<1>2. CASE Short(ls, p)
  <2>1. /\ \A i \in 1..Len(ls) : IsGoal(ls[i]) => Len(p) <= Size(ls, i - 1)
        /\ Len(p) < Size(ls, Len(ls))
    BY <1>2, NoGoalBegun
  <2>2. Len(p) \in Nat /\ Len(ls) \in Nat
    BY CutFacts, Sizes
  <2>3. p # Upto(ls)[Len(ls)]
    <3>1. Len(p) # Size(ls, Len(ls))
      BY <2>1, <2>2
    <3>. QED  BY <3>1 DEF Size
  <2>4. ASSUME NEW i \in 1..Len(ls), IsGoal(ls[i]) PROVE Len(p) <= Size(ls, i - 1) + 8
    <3>1. i - 1 \in 0..Len(ls)
      BY <2>2
    <3>2. Size(ls, i - 1) \in Nat
      BY <3>1, Sizes
    <3>. QED  BY <2>1, <2>2, <2>4, <3>2
  <2>. QED  BY <2>3, <2>4 DEF NoVerdict
<1>3. CASE /\ l + 1 = Len(ls) /\ ls[l + 1] = [message |-> "error"] /\ ~cut
           /\ SubSeq(text, 1, Span(text, {Newline})) = <<"error">>
  <2>1. msg = {<<"error">>}
    BY <1>3
  <2>2. l \in 0..Len(ls) /\ Len(ls) \in Nat /\ l + 1 \in 1..Len(ls)
        /\ Messages(ls) \in Nat
    <3>1. l \in 0..Len(ls) /\ Messages(ls) \in Nat
      BY WarningsAreMessages
    <3>. QED  BY <3>1, NextLine, Sizes
  <2>3. \A i \in 1..Len(ls) : ~IsGoal(ls[i])
    <3>1. ~(l + 1 > Messages(ls))
      BY <2>2, MessagesFacts
    <3>2. \A i \in 1..Len(ls) : ~(i > Messages(ls))
      BY <1>3, <2>2, <3>1
    <3>. QED  BY <3>2, MessagesFacts
  <2>. QED  BY <1>3, <2>1, <2>2, <2>3 DEF NoVerdict
<1>. QED  BY <1>1, <1>2, <1>3
-----------------------------------------------------------------------------
InMessages ==
  /\ error = FALSE /\ message = {} /\ goals = <<>>
  /\ \E l \in 0..Len(lines) : Skipped(lines, printed, l) /\ at = Rest(lines, printed, l)
InGoals ==
  /\ error = FALSE
  /\ \/ \E r \in 0..Len(lines) :
          Reading(lines, printed, goals, r) /\ at = Rest(lines, printed, r)
     \/ at = <<>> /\ \E r \in 0..Len(lines) : GoalCut(lines, printed, goals, r)
     \/ at = <<>> /\ MessageCut(lines, printed, goals)
     \/ /\ at = <<"place">> /\ goals = <<>>
        /\ Short(lines, printed) /\ Unfinished(lines, printed)
AllRead ==
  \/ \E r \in 0..Len(lines) :
       Reading(lines, printed, goals, r) /\ Len(printed) <= Size(lines, r)
  \/ \E r \in 0..Len(lines) : AtHigh(lines, printed, goals, r)
  \/ \E r \in 0..Len(lines) : GoalCut(lines, printed, goals, r)
  \/ MessageCut(lines, printed, goals)
Parsed ==
  \/ error = TRUE /\ goals = <<>> /\ NoVerdict(lines, printed, message)
  \/ error = FALSE /\ AllRead

(* What holds of an answer of Why3's, which is cut somewhere or whole.     *)
Followed ==
  /\ goals \in Seq(GoalRecord)
  /\ stage = "messages" => InMessages
  /\ stage = "goals" => InGoals
  /\ stage \in {"parsed", "displayed"} => Parsed
  /\ stage = "displayed" => shown = IF error THEN <<>> ELSE goals
OutputInv ==
  /\ lines \in Seq(Line) /\ Ordered(lines)
  /\ Cut(lines, printed) \/ lines = <<>>
  /\ Cut(lines, printed) => Followed

(* The invariant holds at first.                                           *)
LEMMA InitOutputInv == OutputInit => OutputInv
<1>. SUFFICES ASSUME OutputInit PROVE OutputInv
  OBVIOUS
<1>1. lines \in Seq(Line) /\ Ordered(lines)
  <2>1. lines \in BoundedSeq(Line, MaxLines) /\ Ordered(lines)
    BY DEF OutputInit
  <2>2. PICK m \in 0..MaxLines : lines \in [1..m -> Line]
    BY <2>1 DEF BoundedSeq, SeqOf
  <2>3. m \in Nat
    BY AnswerAssumption
  <2>. QED  BY <2>1, <2>2, <2>3, SeqDef
<1>2. Cut(lines, printed) \/ lines = <<>>
  BY DEF OutputInit, Cut, Whole
<1>3. ASSUME Cut(lines, printed) PROVE Followed
  <2>1. /\ at = printed /\ stage = "messages" /\ error = FALSE /\ message = {} /\ goals = <<>>
    BY DEF OutputInit
  <2>2. Skipped(lines, printed, 0)
    <3>1. Size(lines, 0) = 0 /\ Len(lines) \in Nat /\ Len(printed) \in Nat
      BY <1>1, <1>3, Sizes, CutFacts
    <3>. QED  BY <3>1 DEF Skipped
  <2>3. at = Rest(lines, printed, 0)
    BY <1>1, <1>3, <2>1, LastRest
  <2>4. 0 \in 0..Len(lines)
    BY <1>1, Sizes
  <2>5. InMessages
    BY <2>1, <2>2, <2>3, <2>4 DEF InMessages
  <2>6. goals \in Seq(GoalRecord)
    BY <2>1, EmptySeq
  <2>. QED  BY <2>1, <2>5, <2>6 DEF Followed
<1>. QED  BY <1>1, <1>2, <1>3 DEF OutputInv

(* It stays when nothing happens,                                          *)
LEMMA StutterFollowed == Followed /\ UNCHANGED outputVars => Followed'
<1>. SUFFICES ASSUME Followed, UNCHANGED outputVars PROVE Followed'
  OBVIOUS
<1>. QED  BY DEF outputVars, Followed, InMessages, InGoals, AllRead, Parsed
-----------------------------------------------------------------------------
(* Where str is in the loop over the messages.                             *)
LEMMA InMessagesFacts ==
  ASSUME lines \in Seq(Line), Ordered(lines), Cut(lines, printed), Followed, stage = "messages"
  PROVE  /\ error = FALSE /\ message = {} /\ goals = <<>>
         /\ \E l \in 0..Len(lines) :
              /\ Skipped(lines, printed, l) /\ at = Rest(lines, printed, l)
              /\ StartsWith(at, "place") =>
                   at # <<>> /\ ~IsGoal(lines[l + 1]) /\ l + 1 \in 0..Len(lines)
              /\ ~StartsWith(at, "place") => at = <<>> \/ IsGoal(lines[l + 1])
<1>1. PICK l \in 0..Len(lines) : Skipped(lines, printed, l) /\ at = Rest(lines, printed, l)
  BY DEF Followed, InMessages
<1>2. ~StartsWith(<<>>, "place")
  <2>1. "place" \in Pieces
    BY WordKinds
  <2>. SUFFICES ASSUME NEW s \in Seq(Pieces), Len(s) = 0 PROVE ~StartsWith(s, "place")
    BY EmptySeq
  <2>2. StartsWith(s, "place") => Len(s) > 0
    BY <2>1, StartsWithFacts
  <2>3. \A n \in Nat : n = 0 => ~(n > 0)
    OBVIOUS
  <2>. QED  BY <2>2, <2>3
<1>3. at # <<>> => (StartsWith(at, "place") <=> ~IsGoal(lines[l + 1]))
  BY <1>1, FirstPiece
<1>4. at # <<>> => l + 1 \in 0..Len(lines)
  <2>. SUFFICES ASSUME at # <<>> PROVE l + 1 \in 0..Len(lines)
    OBVIOUS
  <2>1. l + 1 \in 1..Len(lines)
    BY <1>1, NextLine
  <2>. QED  BY <2>1
<1>5. StartsWith(at, "place") => at # <<>>
  BY <1>2
<1>. QED  BY <1>1, <1>3, <1>4, <1>5 DEF Followed, InMessages

(* and SkipMessage keeps it,                                               *)
LEMMA SkipMessageFollowed ==
  ASSUME lines \in Seq(Line), Ordered(lines), Cut(lines, printed), Followed, SkipMessage
  PROVE  Followed'
<1>. DEFINE text == PastLine(at)
<1>1. /\ stage = "messages" /\ StartsWith(at, "place")
      /\ StartsWith(text, "warning") /\ text # <<"warning">> /\ at' = PastLine(text)
      /\ UNCHANGED <<lines, printed, stage, error, message, goals, shown>>
  BY DEF SkipMessage
<1>. HIDE DEF text
<1>2. PICK l \in 0..Len(lines) :
        /\ Skipped(lines, printed, l) /\ at = Rest(lines, printed, l)
        /\ at # <<>> /\ ~IsGoal(lines[l + 1]) /\ l + 1 \in 0..Len(lines)
  BY <1>1, InMessagesFacts
<1>3. Skipped(lines, printed, l + 1) /\ at' = Rest(lines, printed, l + 1)
  <2>1. text = PastLine(at)
    BY DEF text
  <2>2. StartsWith(text, "warning") /\ text # <<"warning">> =>
          Skipped(lines, printed, l + 1) /\ PastLine(text) = Rest(lines, printed, l + 1)
    BY <1>2, <2>1, MessageStep
  <2>. QED  BY <1>1, <2>2
<1>4. InMessages'
  BY <1>1, <1>2, <1>3, InMessagesFacts DEF InMessages
<1>. QED  BY <1>1, <1>4 DEF Followed

(* and FindError,                                                          *)
LEMMA FindErrorFollowed ==
  ASSUME lines \in Seq(Line), Ordered(lines), Cut(lines, printed), Followed, FindError
  PROVE  Followed'
<1>. DEFINE text == PastLine(at)
            cut == Span(at, {Newline}) = Len(at) \/ text = <<"warning">>
<1>1. /\ stage = "messages" /\ StartsWith(at, "place")
      /\ ~StartsWith(text, "warning") \/ cut
      /\ ~cut => message' = {SubSeq(text, 1, Span(text, {Newline}))}
      /\ error' = TRUE /\ stage' = "parsed"
      /\ UNCHANGED <<lines, printed, at, goals, shown>>
  BY DEF FindError
<1>2. PICK l \in 0..Len(lines) :
        /\ Skipped(lines, printed, l) /\ at = Rest(lines, printed, l)
        /\ at # <<>> /\ ~IsGoal(lines[l + 1])
  BY <1>1, InMessagesFacts
<1>3. text = PastLine(at) /\ (cut <=> Span(at, {Newline}) = Len(at) \/ text = <<"warning">>)
  OBVIOUS
<1>. HIDE DEF text, cut
<1>4. NoVerdict(lines, printed, message')
  BY <1>1, <1>2, <1>3, ErrorStep
<1>5. goals = <<>>
  BY <1>1, InMessagesFacts
<1>6. Parsed'
  BY <1>1, <1>4, <1>5 DEF Parsed
<1>. QED  BY <1>1, <1>6 DEF Followed

(* and EndMessages,                                                        *)
LEMMA EndMessagesFollowed ==
  ASSUME lines \in Seq(Line), Ordered(lines), Cut(lines, printed), Followed, EndMessages
  PROVE  Followed'
<1>1. /\ stage = "messages" /\ stage' = "goals"
      /\ ~StartsWith(at, "place") \/ at = <<"place">>
      /\ UNCHANGED <<lines, printed, at, error, message, goals, shown>>
  BY DEF EndMessages
<1>2. /\ error = FALSE /\ goals = <<>>
  BY <1>1, InMessagesFacts
<1>3. PICK l \in 0..Len(lines) :
        /\ Skipped(lines, printed, l) /\ at = Rest(lines, printed, l)
        /\ StartsWith(at, "place") => at # <<>> /\ ~IsGoal(lines[l + 1])
        /\ ~StartsWith(at, "place") => at = <<>> \/ IsGoal(lines[l + 1])
  BY <1>1, InMessagesFacts
<1>4. CASE StartsWith(at, "place")
  <2>1. at = <<"place">> /\ at # <<>> /\ ~IsGoal(lines[l + 1])
    BY <1>1, <1>3, <1>4
  <2>. DEFINE text == PastLine(at)
  <2>2. text = PastLine(at)
    OBVIOUS
  <2>. HIDE DEF text
  <2>3. Short(lines, printed) /\ Unfinished(lines, printed)
    BY <1>3, <2>1, <2>2, MessageStep
  <2>4. InGoals'
    BY <1>1, <1>2, <2>1, <2>3 DEF InGoals
  <2>. QED  BY <1>1, <2>4 DEF Followed
<1>5. CASE ~StartsWith(at, "place")
  <2>1. \/ Reading(lines, printed, <<>>, l)
        \/ at = <<>> /\ Short(lines, printed)
    BY <1>3, <1>5, MessagesEnd
  <2>2. CASE Reading(lines, printed, <<>>, l)
    <3>1. InGoals'
      BY <1>1, <1>2, <1>3, <2>2 DEF InGoals
    <3>. QED  BY <1>1, <3>1 DEF Followed
  <2>3. CASE at = <<>> /\ Short(lines, printed)
    <3>1. MessageCut(lines, printed, <<>>)
      <4>1. Len(<<>>) <= 1
        OBVIOUS
      <4>. QED  BY <2>3, <4>1 DEF MessageCut
    <3>2. InGoals'
      BY <1>1, <1>2, <2>3, <3>1 DEF InGoals
    <3>. QED  BY <1>1, <3>2 DEF Followed
  <2>. QED  BY <2>1, <2>2, <2>3
<1>. QED  BY <1>4, <1>5

(* and ReadGoal,                                                           *)
LEMMA ReadGoalFollowed ==
  ASSUME lines \in Seq(Line), Ordered(lines), Cut(lines, printed), Followed, ReadGoal
  PROVE  Followed'
<1>. DEFINE goal == GoalAt(at)
            status == StatusAt(at)
            time == TimeAt(at)
<1>1. /\ stage = "goals" /\ at # <<>>
      /\ UNCHANGED <<lines, printed, error, message, shown>>
      /\ \/ /\ \E v \in Verdict(Word(status)) :
                  goals' = Append(goals, [goal |-> Word(goal), status |-> v])
            /\ IF Word(status) = <<"HighFailure">>
               THEN stage' = "parsed" /\ UNCHANGED at
               ELSE at' = PastLine(time) /\ UNCHANGED stage
         \/ stage' = "crashed" /\ UNCHANGED <<at, goals>>
  BY DEF ReadGoal, GoalAt, StatusAt, TimeAt
<1>3. InGoals /\ goals \in Seq(GoalRecord)
  BY <1>1 DEF Followed
<1>4. CASE stage' = "crashed" /\ UNCHANGED <<at, goals>>
  BY <1>3, <1>4 DEF Followed
<1>5. CASE /\ \E v \in Verdict(Word(status)) :
                goals' = Append(goals, [goal |-> Word(goal), status |-> v])
           /\ IF Word(status) = <<"HighFailure">>
              THEN stage' = "parsed" /\ UNCHANGED at
              ELSE at' = PastLine(time) /\ UNCHANGED stage
  <2>1. PICK v \in Verdict(Word(status)) :
          goals' = Append(goals, [goal |-> Word(goal), status |-> v])
    BY <1>5
  <2>2. CASE \E r \in 0..Len(lines) :
               Reading(lines, printed, goals, r) /\ at = Rest(lines, printed, r)
    <3>1. PICK r \in 0..Len(lines) :
            Reading(lines, printed, goals, r) /\ at = Rest(lines, printed, r)
      BY <2>2
    <3>2. r + 1 \in 0..Len(lines)
      <4>1. r + 1 \in 1..Len(lines)
        BY <1>1, <3>1, NextLine
      <4>. QED  BY <4>1
    <3>3. /\ goals' \in Seq(GoalRecord)
          /\ Word(status) = <<"HighFailure">> => AtHigh(lines, printed, goals', r + 1)
          /\ Word(status) # <<"HighFailure">> =>
               \/ /\ Reading(lines, printed, goals', r + 1)
                  /\ PastLine(time) = Rest(lines, printed, r + 1)
               \/ GoalCut(lines, printed, goals', r) /\ PastLine(time) = <<>>
      <4>. DEFINE gs2 == goals'
      <4>1. gs2 = Append(goals, [goal |-> Word(goal), status |-> v])
        BY <2>1
      <4>. HIDE DEF gs2
      <4>2. /\ gs2 \in Seq(GoalRecord)
            /\ Word(status) = <<"HighFailure">> => AtHigh(lines, printed, gs2, r + 1)
            /\ Word(status) # <<"HighFailure">> =>
                 \/ /\ Reading(lines, printed, gs2, r + 1)
                    /\ PastLine(time) = Rest(lines, printed, r + 1)
                 \/ GoalCut(lines, printed, gs2, r) /\ PastLine(time) = <<>>
        <5>1. /\ at # <<>> /\ at = Rest(lines, printed, r) /\ Reading(lines, printed, goals, r)
              /\ goals \in Seq(GoalRecord)
          BY <1>1, <1>3, <3>1
        <5>. QED  BY <4>1, <5>1, GoalStep
      <4>. QED  BY <4>2 DEF gs2
    <3>4. CASE Word(status) = <<"HighFailure">>
      <4>1. AllRead'
        BY <1>1, <3>2, <3>3, <3>4 DEF AllRead
      <4>2. Parsed'
        BY <1>1, <1>3, <4>1 DEF Parsed, InGoals
      <4>. QED  BY <1>1, <1>5, <3>3, <3>4, <4>2 DEF Followed
    <3>5. CASE Word(status) # <<"HighFailure">>
      <4>1. at' = PastLine(time) /\ stage' = "goals"
        BY <1>1, <1>5, <3>5
      <4>2. InGoals'
        BY <1>1, <1>3, <3>2, <3>3, <3>5, <4>1 DEF InGoals
      <4>. QED  BY <3>3, <4>1, <4>2 DEF Followed
    <3>. QED  BY <3>4, <3>5
  <2>3. CASE /\ at = <<"place">> /\ goals = <<>>
             /\ Short(lines, printed) /\ Unfinished(lines, printed)
    <3>1. goals' = Append(<<>>, [goal |-> Word(goal), status |-> v])
      BY <2>1, <2>3
    <3>2. /\ goals' \in Seq(GoalRecord) /\ Len(goals') = 1
          /\ Word(status) # <<"HighFailure">> /\ PastLine(time) = <<>>
      BY <2>3, <3>1, PlaceStep
    <3>3. at' = <<>> /\ stage' = "goals"
      BY <1>1, <1>5, <3>2
    <3>4. MessageCut(lines, printed, goals')
      BY <2>3, <3>2 DEF MessageCut
    <3>5. InGoals'
      BY <1>1, <1>3, <3>3, <3>4 DEF InGoals
    <3>. QED  BY <3>2, <3>3, <3>5 DEF Followed
  <2>. QED  BY <1>1, <1>3, <2>2, <2>3 DEF InGoals
<1>. QED  BY <1>1, <1>4, <1>5

(* and EndGoals,                                                           *)
LEMMA EndGoalsFollowed ==
  ASSUME lines \in Seq(Line), Ordered(lines), Cut(lines, printed), Followed, EndGoals
  PROVE  Followed'
<1>1. /\ stage = "goals" /\ stage' = "parsed" /\ at = <<>>
      /\ UNCHANGED <<lines, printed, at, error, message, goals, shown>>
  BY DEF EndGoals
<1>2. error = FALSE /\ InGoals /\ goals \in Seq(GoalRecord)
  BY <1>1 DEF Followed, InGoals
<1>3. ASSUME NEW r \in 0..Len(lines), Rest(lines, printed, r) = <<>>
      PROVE  Len(printed) <= Size(lines, r)
  <2>1. /\ Size(lines, r) \in Nat /\ Len(printed) \in Nat
        /\ Len(Rest(lines, printed, r)) =
             IF Size(lines, r) <= Len(printed) THEN Len(printed) - Size(lines, r) ELSE 0
    BY RestFacts, CutFacts
  <2>2. \A m, n \in Nat : (IF n <= m THEN m - n ELSE 0) = 0 => m <= n
    OBVIOUS
  <2>3. Len(Rest(lines, printed, r)) = 0
    BY <1>3
  <2>. QED  BY <2>1, <2>2, <2>3
<1>4. AllRead
  <2>1. <<"place">> # <<>>
    OBVIOUS
  <2>. QED  BY <1>1, <1>2, <1>3, <2>1 DEF InGoals, AllRead
<1>5. Parsed'
  BY <1>1, <1>2, <1>4 DEF Parsed, AllRead
<1>. QED  BY <1>1, <1>2, <1>5 DEF Followed

(* and Display,                                                            *)
LEMMA DisplayFollowed ==
  ASSUME lines \in Seq(Line), Ordered(lines), Cut(lines, printed), Followed, Display
  PROVE  Followed'
<1>1. /\ stage = "parsed" /\ stage' = "displayed" /\ shown' = (IF error THEN <<>> ELSE goals)
      /\ UNCHANGED <<lines, printed, at, error, message, goals>>
  BY DEF Display
<1>2. Parsed /\ goals \in Seq(GoalRecord)
  BY <1>1 DEF Followed
<1>3. Parsed'
  BY <1>1, <1>2 DEF Parsed, AllRead
<1>. QED  BY <1>1, <1>2, <1>3 DEF Followed

(* and so does every step.                                                 *)
LEMMA OutputStep == OutputInv /\ [OutputNext]_outputVars => OutputInv'
<1>. SUFFICES ASSUME OutputInv, [OutputNext]_outputVars PROVE OutputInv'
  OBVIOUS
<1>1. lines \in Seq(Line) /\ Ordered(lines) /\ (Cut(lines, printed) \/ lines = <<>>)
  BY DEF OutputInv
<1>2. UNCHANGED <<lines, printed>>
  BY DEF OutputNext, SkipMessage, FindError, EndMessages, OverrunPlace, ReadGoal, EndGoals,
         Display, outputVars
<1>3. ASSUME Cut(lines, printed) PROVE Followed'
  <2>. USE <1>1, <1>3
  <2>1. Followed
    BY DEF OutputInv
  <2>2. CASE SkipMessage
    BY <2>1, <2>2, SkipMessageFollowed
  <2>3. CASE FindError
    BY <2>1, <2>3, FindErrorFollowed
  <2>4. CASE EndMessages
    BY <2>1, <2>4, EndMessagesFollowed
  <2>5. CASE OverrunPlace
    BY <2>1, <2>5 DEF OverrunPlace, Followed
  <2>6. CASE ReadGoal
    BY <2>1, <2>6, ReadGoalFollowed
  <2>7. CASE EndGoals
    BY <2>1, <2>7, EndGoalsFollowed
  <2>8. CASE Display
    BY <2>1, <2>8, DisplayFollowed
  <2>9. CASE UNCHANGED outputVars
    BY <2>1, <2>9, StutterFollowed
  <2>. QED  BY <2>2, <2>3, <2>4, <2>5, <2>6, <2>7, <2>8, <2>9 DEF OutputNext
<1>. QED  BY <1>1, <1>2, <1>3 DEF OutputInv
-----------------------------------------------------------------------------
(* What is displayed is what was followed.                                 *)
LEMMA Displayed ==
  ASSUME OutputInv, stage = "displayed", lines # <<>> \/ Cut(lines, printed)
  PROVE  /\ lines \in Seq(Line) /\ Ordered(lines) /\ Cut(lines, printed)
         /\ goals \in Seq(GoalRecord) /\ Parsed /\ shown = IF error THEN <<>> ELSE goals
  BY DEF OutputInv, Followed

(* A goal without its verdict is read from a line that is not finished.    *)
LEMMA CutIsUnfinished ==
  ASSUME NEW ls \in Seq(Line), Ordered(ls), NEW p, Cut(ls, p), NEW gs, NEW r, GoalCut(ls, p, gs, r)
  PROVE  Unfinished(ls, p)
<1>1. /\ r \in Messages(ls)..Len(ls) /\ Size(ls, r) < Len(p) /\ Len(p) <= Size(ls, r) + 8
  BY DEF GoalCut, Right
<1>2. Messages(ls) \in Nat /\ Len(ls) \in Nat /\ r \in 0..Len(ls) /\ r \in Nat
  BY <1>1, Sizes, MessagesFacts
<1>3. Size(ls, r) \in Nat /\ Len(p) \in Nat /\ Len(p) <= Size(ls, Len(ls))
  BY <1>2, Sizes, CutFacts
<1>4. r # Len(ls)
  BY <1>1, <1>3
<1>5. r + 1 \in 1..Len(ls) /\ (r + 1) - 1 = r /\ r + 1 > Messages(ls)
  BY <1>1, <1>2, <1>4
<1>6. ls[r + 1] \in Line /\ IsGoal(ls[r + 1]) /\ Size(ls, r + 1) = Size(ls, r) + Len(Text(ls[r + 1]))
  BY <1>5, Sizes, MessagesFacts
<1>7. Len(Text(ls[r + 1])) \in Nat /\ Len(Text(ls[r + 1])) >= 14
  <2>1. \A n \in {14, 17} : n \in Nat /\ n >= 14
    OBVIOUS
  <2>. QED  BY <1>6, <2>1, GoalText DEF GoalPieces
<1>8. Len(p) < Size(ls, r + 1)
  BY <1>1, <1>3, <1>6, <1>7
<1>. QED  BY <1>1, <1>5, <1>8 DEF Unfinished

(* An answer that ends in a line that is not finished is cut before a      *)
(* verdict.                                                                *)
LEMMA UnfinishedIsCut ==
  ASSUME lines \in Seq(Line), Cut(lines, printed), Unfinished(lines, printed)
  PROVE  CutBeforeVerdict
<1>1. PICK l \in 1..Len(lines) :
        /\ Size(lines, l - 1) < Len(printed) /\ Len(printed) < Size(lines, l)
        /\ IsGoal(lines[l]) => Len(printed) <= Size(lines, l - 1) + 8
  BY DEF Unfinished
<1>2. /\ l \in DOMAIN lines /\ Len(lines) \in Nat /\ l - 1 \in 0..Len(lines)
      /\ lines[l] \in Line /\ Len(printed) \in Nat
      /\ Size(lines, l) = Size(lines, l - 1) + Len(Text(lines[l]))
  BY Sizes, CutFacts, LenProperties
<1>3. Size(lines, l - 1) \in Nat /\ Before(l) = Size(lines, l - 1) /\ Len(Text(lines[l])) \in Nat
  BY <1>2, Sizes, TextFacts DEF Before, Size
<1>4. Len(printed) > Before(l)
  BY <1>1, <1>2, <1>3
<1>5. IsGoal(lines[l]) => ~Reached(l)
  BY <1>1, <1>2, <1>3 DEF Reached
<1>6. ~(Len(printed) >= Before(l) + Len(Text(lines[l])))
  BY <1>1, <1>2, <1>3
<1>. QED  BY <1>2, <1>4, <1>5, <1>6 DEF CutBeforeVerdict

(* The three properties follow from the invariant.                         *)
LEMMA VerdictsShown == OutputInv => VerdictsReachTheUser
<1>. SUFFICES ASSUME OutputInv, stage = "displayed", NEW l \in DOMAIN lines,
                     IsGoal(lines[l]), Reached(l), lines[l].status \in Known,
                     \A j \in 1..(l - 1) : IsGoal(lines[j]) => lines[j].status # "HighFailure"
              PROVE  LET k == l - Messages(lines)
                     IN  /\ k \in DOMAIN shown
                         /\ shown[k].goal = <<lines[l].goal>>
                         /\ shown[k].status = IF lines[l].status = "HighFailure" THEN "Failure"
                                              ELSE lines[l].status
  BY DEF VerdictsReachTheUser
<1>. DEFINE M == Messages(lines)
<1>1. lines # <<>>
  OBVIOUS
<1>2. /\ lines \in Seq(Line) /\ Ordered(lines) /\ Cut(lines, printed)
      /\ goals \in Seq(GoalRecord) /\ Parsed /\ shown = IF error THEN <<>> ELSE goals
  BY <1>1, Displayed
<1>3. /\ l \in 1..Len(lines) /\ Len(lines) \in Nat /\ l - 1 \in 0..Len(lines)
      /\ M \in 0..Len(lines) /\ l > M /\ Len(printed) \in Nat
  BY <1>2, Sizes, LenProperties, MessagesFacts, CutFacts
<1>4. Len(printed) > Size(lines, l - 1) + 8 /\ Size(lines, l - 1) \in Nat
  BY <1>2, <1>3, Sizes DEF Reached, Before, Size
<1>. HIDE DEF M
<1>5. error = FALSE /\ AllRead /\ shown = goals
  <2>1. ~NoVerdict(lines, printed, message)
    BY <1>3, <1>4 DEF NoVerdict
  <2>. QED  BY <1>2, <2>1 DEF Parsed
<1>6. \E r \in 0..Len(lines) : Right(lines, printed, goals, r) /\ l <= r
  <2>1. ASSUME NEW r \in 0..Len(lines), Len(printed) <= Size(lines, r) + 8 PROVE l <= r
    <3>. SUFFICES ASSUME ~(l <= r) PROVE FALSE
      OBVIOUS
    <3>1. l - 1 \in r..Len(lines)
      BY <1>3
    <3>2. Size(lines, r) \in Nat /\ Size(lines, r) <= Size(lines, l - 1)
      BY <1>2, <3>1, SizesGrow
    <3>. QED  BY <1>3, <1>4, <2>1, <3>2
  <2>2. CASE \E r \in 0..Len(lines) :
               Reading(lines, printed, goals, r) /\ Len(printed) <= Size(lines, r)
    <3>1. PICK r \in 0..Len(lines) :
            Reading(lines, printed, goals, r) /\ Len(printed) <= Size(lines, r)
      BY <2>2
    <3>2. Size(lines, r) \in Nat
      BY <1>2, Sizes
    <3>3. Len(printed) <= Size(lines, r) + 8
      BY <1>3, <3>1, <3>2
    <3>. QED  BY <2>1, <3>1, <3>3 DEF Reading
  <2>3. CASE \E r \in 0..Len(lines) : AtHigh(lines, printed, goals, r)
    <3>1. PICK r \in 0..Len(lines) : AtHigh(lines, printed, goals, r)
      BY <2>3
    <3>2. Right(lines, printed, goals, r) /\ r > M /\ lines[r].status = "HighFailure"
      BY <3>1 DEF AtHigh, M
    <3>3. l <= r
      <4>. SUFFICES ASSUME ~(l <= r) PROVE FALSE
        OBVIOUS
      <4>1. r \in 1..(l - 1) /\ r \in 1..Len(lines)
        BY <1>3, <3>2
      <4>2. IsGoal(lines[r])
        BY <1>2, <3>2, <4>1, MessagesFacts DEF M
      <4>. QED  BY <3>2, <4>1, <4>2
    <3>. QED  BY <3>2, <3>3
  <2>4. CASE \E r \in 0..Len(lines) : GoalCut(lines, printed, goals, r)
    BY <2>1, <2>4 DEF GoalCut
  <2>5. CASE MessageCut(lines, printed, goals)
    <3>1. Len(printed) <= Size(lines, l - 1)
      BY <1>2, <1>3, <2>5, NoGoalBegun DEF MessageCut
    <3>. QED  BY <1>3, <1>4, <3>1
  <2>. QED  BY <1>5, <2>2, <2>3, <2>4, <2>5 DEF AllRead
<1>7. PICK r \in 0..Len(lines) : Right(lines, printed, goals, r) /\ l <= r
  BY <1>6
<1>8. l \in (M + 1)..r
  BY <1>3, <1>7
<1>9. /\ l - M \in 1..Len(goals) /\ goals[l - M].goal = <<lines[l].goal>>
      /\ goals[l - M].status \in Verdict(<<lines[l].status>>)
  BY <1>7, <1>8 DEF Right, M
<1>10. l - M \in DOMAIN goals
  BY <1>2, <1>9, LenProperties
<1>11. goals[l - M].status = IF lines[l].status = "HighFailure" THEN "Failure" ELSE lines[l].status
  BY <1>9, VerdictFacts
<1>. QED  BY <1>5, <1>9, <1>10, <1>11 DEF M

LEMMA ValidsShown == OutputInv => ValidIsWhy3s
<1>. SUFFICES ASSUME OutputInv, stage = "displayed", lines # <<>>, NEW k \in DOMAIN shown,
                     shown[k].status = "Valid", ~(k = Len(shown) /\ CutBeforeVerdict)
              PROVE  LET l == Messages(lines) + k
                     IN  /\ l \in DOMAIN lines
                         /\ shown[k].goal = <<lines[l].goal>>
                         /\ lines[l].status \notin Known \ {"Valid"}
  BY DEF ValidIsWhy3s
<1>. DEFINE M == Messages(lines)
<1>1. /\ lines \in Seq(Line) /\ Ordered(lines) /\ Cut(lines, printed)
      /\ goals \in Seq(GoalRecord) /\ Parsed /\ shown = IF error THEN <<>> ELSE goals
  BY Displayed
<1>2. /\ Len(lines) \in Nat /\ M \in 0..Len(lines) /\ DOMAIN lines = 1..Len(lines)
      /\ Len(goals) \in Nat /\ DOMAIN goals = 1..Len(goals)
  BY <1>1, LenProperties, MessagesFacts
<1>. HIDE DEF M
<1>3. error = FALSE /\ AllRead /\ shown = goals
  <2>1. DOMAIN <<>> = {}
    OBVIOUS
  <2>2. error # TRUE
    BY <1>1, <2>1
  <2>. QED  BY <1>1, <2>2 DEF Parsed
<1>4. k \in 1..Len(goals) /\ goals[k].status = "Valid" /\ (Unfinished(lines, printed) => k # Len(goals))
  BY <1>1, <1>2, <1>3, UnfinishedIsCut
<1>5. \E r \in 0..Len(lines) : Right(lines, printed, goals, r) /\ r \in M..Len(lines) /\ k <= r - M
  <2>1. ASSUME NEW r, Right(lines, printed, goals, r), Len(goals) = r - M
        PROVE  r \in M..Len(lines) /\ r \in 0..Len(lines) /\ k <= r - M
    <3>1. r \in M..Len(lines)
      BY <2>1 DEF Right, M
    <3>. QED  BY <1>2, <1>4, <2>1, <3>1
  <2>2. ASSUME NEW r \in 0..Len(lines), GoalCut(lines, printed, goals, r)
        PROVE  Right(lines, printed, goals, r) /\ r \in M..Len(lines) /\ k <= r - M
    <3>1. Unfinished(lines, printed)
      BY <1>1, <2>2, CutIsUnfinished
    <3>2. Right(lines, printed, goals, r) /\ r \in M..Len(lines) /\ Len(goals) = r - M + 1
      BY <2>2 DEF GoalCut, Right, M
    <3>3. k # Len(goals)
      BY <1>4, <3>1
    <3>. QED  BY <1>2, <1>4, <3>2, <3>3
  <2>3. ~MessageCut(lines, printed, goals)
    <3>. SUFFICES ASSUME MessageCut(lines, printed, goals) PROVE FALSE
      OBVIOUS
    <3>1. Len(goals) <= 1 /\ goals # <<>>
      BY <1>2, <1>3, <1>4 DEF MessageCut
    <3>2. Unfinished(lines, printed)
      BY <3>1 DEF MessageCut
    <3>. QED  BY <1>2, <1>4, <3>1, <3>2
  <2>. QED  BY <1>3, <2>1, <2>2, <2>3 DEF AllRead, Reading, AtHigh, M
<1>6. PICK r \in 0..Len(lines) : Right(lines, printed, goals, r) /\ r \in M..Len(lines) /\ k <= r - M
  BY <1>5
<1>. DEFINE l == M + k
<1>7. l \in (M + 1)..r /\ l - M = k /\ l \in 1..Len(lines) /\ l > M
  BY <1>2, <1>4, <1>6
<1>. HIDE DEF l
<1>8. goals[k].goal = <<lines[l].goal>> /\ goals[k].status \in Verdict(<<lines[l].status>>)
  BY <1>6, <1>7 DEF Right, M
<1>9. lines[l].status \notin Known \ {"Valid"}
  <2>. SUFFICES ASSUME lines[l].status \in Known PROVE lines[l].status = "Valid"
    OBVIOUS
  <2>1. "Valid" = IF lines[l].status = "HighFailure" THEN "Failure" ELSE lines[l].status
    BY <1>4, <1>8, VerdictFacts
  <2>. QED  BY <2>1
<1>. QED  BY <1>2, <1>3, <1>7, <1>8, <1>9 DEF l, M

LEMMA ErrorsShown == OutputInv => ErrorsReachTheUser
<1>. SUFFICES ASSUME OutputInv, stage = "displayed", printed = Whole
              PROVE  /\ error <=> \E l \in DOMAIN lines : lines[l] = [message |-> "error"]
                     /\ error => message = {<<"error">>} /\ shown = <<>>
  BY DEF ErrorsReachTheUser
<1>1. lines \in Seq(Line) /\ DOMAIN lines = 1..Len(lines) /\ Len(lines) \in Nat
      /\ printed = Upto(lines)[Len(lines)]
  BY LenProperties DEF OutputInv, Whole
<1>2. Cut(lines, printed)
  <2>1. Len(lines) \in 0..Len(lines)
    BY <1>1
  <2>2. printed \in Seq(Pieces) /\ Len(printed) \in Nat
    BY <1>1, <2>1, Sizes, LenProperties
  <2>3. printed = SubSeq(printed, 1, Len(printed)) /\ Len(printed) \in 0..Len(printed)
    BY <2>2, SubSeqFull
  <2>. QED  BY <1>1, <2>3 DEF Cut
<1>3. Ordered(lines) /\ Parsed /\ shown = IF error THEN <<>> ELSE goals
  BY <1>2, Displayed
<1>4. CASE error = TRUE
  <2>1. NoVerdict(lines, printed, message)
    BY <1>3, <1>4 DEF Parsed
  <2>. QED  BY <1>1, <1>3, <1>4, <2>1 DEF NoVerdict
<1>5. CASE error = FALSE
  <2>. SUFFICES ASSUME NEW l \in 1..Len(lines), lines[l] = [message |-> "error"] PROVE FALSE
    BY <1>1, <1>5
  <2>1. Len(printed) = Size(lines, Len(lines)) /\ Len(lines) \in 0..Len(lines)
    BY <1>1 DEF Size
  <2>2. ~IsGoal(lines[l])
    <3>1. [message |-> "error"] \in [message : Located]
      BY DEF Located
    <3>. QED  BY <3>1, LineKinds
  <2>3. Messages(lines) \in Nat /\ l \in 1..Messages(lines)
    <3>1. ~(l > Messages(lines)) /\ Messages(lines) \in Nat
      BY <1>1, <1>3, <2>2, MessagesFacts
    <3>. QED  BY <3>1
  <2>4. ~Skipped(lines, printed, Messages(lines))
    <3>1. [message |-> "error"] # [message |-> "warning"]
      <4>1. [message |-> "error"].message = "error" /\ [message |-> "warning"].message = "warning"
        OBVIOUS
      <4>. QED  BY <4>1
    <3>. QED  BY <2>3, <3>1 DEF Skipped
  <2>5. \A r : ~Right(lines, printed, goals, r)
    BY <2>4 DEF Right
  <2>6. ~MessageCut(lines, printed, goals)
    <3>. SUFFICES ASSUME Short(lines, printed) PROVE FALSE
      BY DEF MessageCut
    <3>1. Len(printed) < Size(lines, Len(lines)) /\ Len(printed) \in Nat
      BY <1>1, <1>2, <1>3, NoGoalBegun, CutFacts
    <3>. QED  BY <2>1, <3>1
  <2>. QED  BY <1>3, <1>5, <2>5, <2>6 DEF Parsed, AllRead, Reading, AtHigh, GoalCut
<1>. QED  BY <1>3, <1>4, <1>5 DEF Parsed

(* The parser is where it should be, and has read what it should, at each  *)
(* step.                                                                   *)
THEOREM OutputIsFollowed == OutputSpec => []OutputInv
<1>1. QED  BY InitOutputInv, OutputStep, PTL DEF OutputSpec

(* Wherever the answer ends, a verdict that came is displayed as what it is, *)
(* under its goal's name (VerdictsReachTheUser).                           *)
THEOREM VerdictsAlwaysReachTheUser == OutputSpec => []VerdictsReachTheUser
<1>1. QED  BY OutputIsFollowed, VerdictsShown, PTL

(* A goal is displayed as valid only if Why3 said so, except the last, when *)
(* the answer ends before its verdict (ValidIsWhy3s).                      *)
THEOREM ValidIsAlwaysWhy3s == OutputSpec => []ValidIsWhy3s
<1>1. QED  BY OutputIsFollowed, ValidsShown, PTL

(* An error in the file is displayed as one, with its message, and nothing *)
(* else is (ErrorsReachTheUser).                                           *)
THEOREM ErrorsAlwaysReachTheUser == OutputSpec => []ErrorsReachTheUser
<1>1. QED  BY OutputIsFollowed, ErrorsShown, PTL
=============================================================================
