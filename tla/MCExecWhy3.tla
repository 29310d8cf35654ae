----------------------------- MODULE MCExecWhy3 -----------------------------
(* A pipe of three bytes and reads of two; files shorter than a pipe and   *)
(* longer than one; answers that fill one to the brim and answers that do  *)
(* not fit.                                                                *)
EXTENDS ExecWhy3

MCCap == 3
MCChunk == 2
MCAbort == 1
MCInputs == {1, 4}
Small == {1}
AnswersThatFit == {0, 2, 3}
LongAnswers == {4}

(* Barring failures of pipe, fork, execlp and read: a file that Why3 reads *)
(* to the end gets its answer into the caller's stream.                    *)
AnswerArrives ==
  [](pc # "thrown") /\ [](~execFailed) /\ stopAt > size => <>(pc = "returned")

(* A Why3 that ran, even one that gave up on the file, is heard: whyr is   *)
(* not killed while it is still writing the file.                          *)
ErrorArrives == pc = "killed" => execFailed

(* What is in the caller's stream was printed by Why3. *)
OnlyWhy3Output == pc = "returned" => ~execFailed
=============================================================================
