----------------------------- MODULE Why3Answer -----------------------------
(***************************************************************************)
(* What whyr -p makes of Why3's answer: Why3Output (src/exec_why3.cpp) and *)
(* the end of main (src/main.cpp).                                         *)
(*                                                                         *)
(* The answer is the stream execWhy3 returns: all that the child printed,  *)
(* which ExecWhy3 shows to be whole, but the child may have died at any    *)
(* byte.  It is a sequence of words and single characters; a last word     *)
(* that was cut in two is still written as that word.  `at' is the cursor, *)
(* the part of the answer that str points to.  A cursor that passes the    *)
(* terminating NUL reads memory that is not the answer's: whyr crashes, or *)
(* finds another NUL there and goes on.                                    *)
(***************************************************************************)
EXTENDS Integers, SequencesExt

CONSTANTS Goals,     (* names of goals                                      *)
          MaxLines,  (* how many lines Why3 prints at most                  *)
          Aborts     (* what a child that is not Why3 prints                *)

Space == "space"
Newline == "newline"

(* The verdicts the parser compares with, and those of Why3 it does not.   *)
Known == {"Valid", "Unknown", "Timeout", "Failure", "HighFailure"}
Status == Known \cup {"OutOfMemory"}
Located == {"warning", "error"}

(* A line of a goal, or the two lines of a message with a place in the file. *)
GoalLine == [goal : Goals, status : Status, steps : BOOLEAN]
Line == GoalLine \cup [message : Located]
IsGoal(l) == "goal" \in DOMAIN l

ASSUME AnswerAssumption ==
  /\ MaxLines \in Nat /\ Aborts \subseteq Seq(STRING)
  /\ Goals \subseteq STRING
  /\ Goals \cap {Space, Newline} = {}

Text(l) ==
  IF IsGoal(l)
  THEN <<"file", Space, "Theory", Space, l.goal, Space, "colon", Space, l.status, Space,
         "bracket", "time">>
       \o (IF l.steps THEN <<"comma", Space, "steps">> ELSE <<>>) \o <<"bracket", Newline>>
  ELSE <<"place", Newline, l.message, Newline>>

VARIABLES lines,     (* what Why3 had to say                                *)
          printed,   (* the answer: how much of it came, or what did instead *)
          at,        (* str                                                 *)
          stage,     (* which loop of Why3Output str is in, or what main does *)
          error,     (* Why3Output.error                                    *)
          message,   (* Why3Output.message, {} if it is NULL                *)
          goals,     (* Why3Output.goals                                    *)
          shown      (* what main has displayed                             *)

outputVars == <<lines, printed, at, stage, error, message, goals, shown>>

(* The text of the first n of some lines, for each n.                      *)
Upto(ls) ==
  LET upto[n \in 0..Len(ls)] == IF n = 0 THEN <<>> ELSE upto[n - 1] \o Text(ls[n])
  IN  upto
Whole == Upto(lines)[Len(lines)]

(* Messages come first: Why3 reads the file before it calls a prover, and  *)
(* does not call one if there is an error.                                 *)
Ordered(ls) ==
  \A j, k \in DOMAIN ls : j < k =>
    /\ ~IsGoal(ls[k]) => ~IsGoal(ls[j])
    /\ ls[j] # [message |-> "error"]

OutputInit ==
  /\ lines \in {ls \in BoundedSeq(Line, MaxLines) : Ordered(ls)}
  /\ \/ \E n \in 0..Len(Whole) : printed = SubSeq(Whole, 1, n)
     \/ lines = <<>> /\ printed \in Aborts
  /\ at = printed
  /\ stage = "messages"
  /\ error = FALSE /\ message = {} /\ goals = <<>> /\ shown = <<>>
-----------------------------------------------------------------------------
(* strcspn(s, c), in words: what comes before the first word in C.         *)
Span(s, C) == LET stops == {k \in DOMAIN s : s[k] \in C}
              IN  IF stops = {} THEN Len(s)
                  ELSE (CHOOSE k \in stops : \A j \in stops : k <= j) - 1
Past(s, n) == SubSeq(s, n + 1, Len(s))
StartsWith(s, w) == IsPrefix(<<w>>, s)
PastLine(s) == Past(s, Span(s, {Newline}) + 1)

(* The line of a goal that `at' is taken to be at, in the places theory,   *)
(* goal and status; a word ends at the next space, on whatever line.       *)
Word(s) == SubSeq(s, 1, Span(s, {Space}))
AfterWord(s, n) == Past(s, Span(s, {Space}) + n)
Overruns(s, n) == Span(s, {Space}) + n > Len(s)

FaultyVerdictTakesTimeoutForFailure(status) ==
  IF status = <<>> THEN {"Valid"}
  ELSE IF status \in {<<"Timeout">>, <<"HighFailure">>} THEN {"Failure"}
  ELSE IF status \in {<<s>> : s \in Known} THEN {status[1]}
  ELSE {"Valid", "Unknown", "Timeout", "Failure", "other"}

(* The chain of strncmp, which compares as many characters as the word has: *)
(* no word at all is equal to "Valid".  There is no last else, so goal.status *)
(* then is what the stack held.                                            *)
Verdict(status) ==
  IF status = <<>> THEN {"Valid"}
  ELSE IF status = <<"HighFailure">> THEN {"Failure"}
  ELSE IF status \in {<<s>> : s \in Known} THEN {status[1]}
  ELSE {"Valid", "Unknown", "Timeout", "Failure", "other"}

FaultySkipMessageOnce ==
  /\ stage = "messages" /\ StartsWith(at, "place")
  /\ LET text == PastLine(at)
     IN  /\ StartsWith(text, "warning") /\ text # <<"warning">>
         /\ at' = PastLine(text)
  /\ stage' = "goals"
  /\ UNCHANGED <<lines, printed, error, message, goals, shown>>

(* while (strncmp(str, "File \"", 6) == 0) *)
SkipMessage ==
  /\ stage = "messages" /\ StartsWith(at, "place")
  /\ LET text == PastLine(at)
     IN  /\ StartsWith(text, "warning") /\ text # <<"warning">>
         /\ at' = PastLine(text)
  /\ UNCHANGED <<lines, printed, stage, error, message, goals, shown>>

(* error = true, and the second line is the message; or there is no second *)
(* line, or that of a warning does not end, and message stays NULL.        *)
FindError ==
  /\ stage = "messages" /\ StartsWith(at, "place")
  /\ LET text == PastLine(at)
         cut == Span(at, {Newline}) = Len(at) \/ text = <<"warning">>
     IN  /\ ~StartsWith(text, "warning") \/ cut
         /\ \/ cut /\ message' = {}
            \/ Span(at, {Newline}) < Len(at)
               /\ message' = {SubSeq(text, 1, Span(text, {Newline}))}
  /\ error' = TRUE
  /\ stage' = "parsed"
  /\ UNCHANGED <<lines, printed, at, goals, shown>>

(* str jumps over a place that was cut short, to where it may not read.    *)
OverrunPlace ==
  /\ stage = "messages" /\ at = <<"place">>
  /\ stage' = "crashed"
  /\ UNCHANGED <<lines, printed, at, error, message, goals, shown>>

(* The loop ends, also at a `File "' that was cut short itself.            *)
EndMessages ==
  /\ stage = "messages"
  /\ ~StartsWith(at, "place") \/ at = <<"place">>
  /\ stage' = "goals"
  /\ UNCHANGED <<lines, printed, at, error, message, goals, shown>>

FaultyReadGoalMissesNewline ==
  /\ stage = "goals" /\ at # <<>>
  /\ \E theory \in {AfterWord(at, 1)} : \E goal \in {AfterWord(theory, 1)} :
     \E status \in {AfterWord(goal, 3)} : \E time \in {AfterWord(status, 2)} :
     \E v \in Verdict(Word(status)) :
       /\ goals' = Append(goals, [goal |-> Word(goal), status |-> v])
       /\ at' = Past(time, Span(time, {Newline}))
  /\ UNCHANGED <<lines, printed, stage, error, message, shown>>

(* while ( *str != '\0'): one line.  After a HighFailure the rest of the   *)
(* answer is not looked at.                                                *)
ReadGoal ==
  /\ stage = "goals" /\ at # <<>>
  /\ \E theory \in {AfterWord(at, 1)} : \E goal \in {AfterWord(theory, 1)} :
     \E status \in {AfterWord(goal, 3)} : \E time \in {AfterWord(status, 2)} :
       \/ /\ \E v \in Verdict(Word(status)) :
               goals' = Append(goals, [goal |-> Word(goal), status |-> v])
          /\ IF Word(status) = <<"HighFailure">>
             THEN stage' = "parsed" /\ UNCHANGED at
             ELSE at' = PastLine(time) /\ UNCHANGED stage
       \/ /\ Overruns(at, 1) \/ Overruns(theory, 1) \/ Overruns(goal, 3) \/ Overruns(status, 2)
          /\ stage' = "crashed"
          /\ UNCHANGED <<at, goals>>
  /\ UNCHANGED <<lines, printed, error, message, shown>>

EndGoals ==
  /\ stage = "goals" /\ at = <<>>
  /\ stage' = "parsed"
  /\ UNCHANGED <<lines, printed, at, error, message, goals, shown>>

(* main displays the goals, or only that there was an error.               *)
Display ==
  /\ stage = "parsed"
  /\ shown' = IF error THEN <<>> ELSE goals
  /\ stage' = "displayed"
  /\ UNCHANGED <<lines, printed, at, error, message, goals>>

OutputNext == \/ SkipMessage \/ FindError \/ EndMessages
              \/ OverrunPlace \/ ReadGoal \/ EndGoals \/ Display

OutputSpec == OutputInit /\ [][OutputNext]_outputVars
-----------------------------------------------------------------------------
(* The answer goes on after the verdict on the goal of line l, or ends in   *)
(* line l before that is there, which makes it the last line displayed: of *)
(* the pieces of a goal's line, the verdict is the ninth.                  *)
Before(l) == Len(Upto(lines)[l - 1])
Reached(l) == Len(printed) > Before(l) + 8
CutBeforeVerdict == \E l \in DOMAIN lines :
  Len(printed) > Before(l) /\ ~(IF IsGoal(lines[l]) THEN Reached(l)
                                ELSE Len(printed) >= Before(l) + Len(Text(lines[l])))

(* How many of the lines are messages, which come first.                   *)
Messages(ls) == CHOOSE m \in 0..Len(ls) : \A l \in DOMAIN ls : IsGoal(ls[l]) <=> l > m

(* A verdict of Why3's on a goal reaches the user, under that goal's name   *)
(* and as what it is, wherever the answer ends after it: warnings in front *)
(* of it and the lines around it do not get in the way.  Only what follows  *)
(* a HighFailure is given up.                                              *)
VerdictsReachTheUser ==
  stage = "displayed" =>
    \A l \in DOMAIN lines :
      /\ IsGoal(lines[l]) /\ Reached(l) /\ lines[l].status \in Known
      /\ \A j \in 1..(l - 1) : IsGoal(lines[j]) => lines[j].status # "HighFailure"
      => LET k == l - Messages(lines)
         IN  /\ k \in DOMAIN shown
             /\ shown[k].goal = <<lines[l].goal>>
             /\ shown[k].status = IF lines[l].status = "HighFailure" THEN "Failure"
                                  ELSE lines[l].status

(* A goal is displayed as valid only if Why3 answered that it is valid, or *)
(* gave it a verdict that the parser has no name for.  The one exception   *)
(* is the last goal displayed, when the answer ends before its verdict.    *)
ValidIsWhy3s ==
  stage = "displayed" /\ lines # <<>> =>
    \A k \in DOMAIN shown : shown[k].status = "Valid" =>
      \/ LET l == Messages(lines) + k
         IN  /\ l \in DOMAIN lines
             /\ shown[k].goal = <<lines[l].goal>>
             /\ lines[l].status \notin Known \ {"Valid"}
      \/ k = Len(shown) /\ CutBeforeVerdict

(* An error that Why3 found in the file is displayed as one, with its       *)
(* message, and with no goal beside it; and nothing else is.               *)
ErrorsReachTheUser ==
  stage = "displayed" /\ printed = Whole =>
    /\ error <=> \E l \in DOMAIN lines : lines[l] = [message |-> "error"]
    /\ error => message = {<<"error">>} /\ shown = <<>>
=============================================================================
