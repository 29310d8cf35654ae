------------------------------ MODULE ExecWhy3 ------------------------------
(***************************************************************************)
(* execWhy3 (src/exec_why3.cpp): whyr forks, the child becomes Why3, and   *)
(* the two talk through two pipes.  The parent writes all of the input,    *)
(* closes its end, waits for the child to exit and only then reads the     *)
(* answer.                                                                 *)
(*                                                                         *)
(* Bytes are counted, not looked at.  A blocking system call is an action  *)
(* that is disabled while the call blocks.  The four pipe ends are inR,    *)
(* inW, outR and outW; holds says which process has a descriptor for which *)
(* end (the child's 0, 1 and 2 are copies of ends it holds to the last).   *)
(* Why3 and the kernel's pipes are external: Why3 reads standard input to  *)
(* the end or gives up somewhere, may print while it reads, and exits when *)
(* all is printed.                                                         *)
(***************************************************************************)
EXTENDS Naturals

CONSTANTS Cap,       (* what a pipe holds: 65536 bytes on Linux            *)
          Chunk,     (* the most one read takes: 127 bytes                 *)
          Inputs,    (* sizes of the Why3 file                             *)
          Answers,   (* sizes of what Why3 prints                          *)
          Abort      (* size of the message of an uncaught exception       *)

ASSUME SizeAssumption ==
  /\ Cap \in Nat \ {0} /\ Chunk \in Nat \ {0} /\ Abort \in Nat
  /\ Inputs \subseteq Nat /\ Answers \subseteq Nat

Ends == {"inR", "inW", "outR", "outW"}
Process == {"whyr", "why3"}

VARIABLES pc,        (* where the parent is in execWhy3                    *)
          why3,      (* where the child is                                 *)
          holds,     (* the pipe ends each process has open                *)
          size,      (* in.size()                                          *)
          toWrite,   (* bytes write() has yet to put into the in-pipe      *)
          inPipe,    (* bytes in the in-pipe                               *)
          got,       (* bytes Why3 has read                                *)
          eof,       (* Why3 has seen the end of its input                 *)
          stopAt,    (* where Why3 gives up reading; beyond size: never    *)
          answer,    (* how much the child prints                          *)
          sent,      (* bytes the child has printed                        *)
          outPipe,   (* bytes in the out-pipe                              *)
          out,       (* bytes appended to the caller's stream              *)
          execFailed (* execlp returned in the child                       *)

parentVars == <<pc, size, toWrite, out>>
childVars == <<why3, got, eof, stopAt, answer, sent, execFailed>>
vars == <<parentVars, childVars, holds, inPipe, outPipe>>

Open(e) == \E p \in Process : e \in holds[p]
Close(p, S) == holds' = [holds EXCEPT ![p] = @ \ S]
Lesser(a, b) == IF a < b THEN a ELSE b

Init ==
  /\ pc = "pipe"
  /\ why3 = "none"
  /\ holds = [p \in Process |-> {}]
  /\ size \in Inputs
  /\ toWrite = size
  /\ stopAt \in 0..(size + 1)
  /\ answer \in Answers
  /\ inPipe = 0 /\ outPipe = 0
  /\ got = 0 /\ sent = 0 /\ out = 0
  /\ eof = FALSE
  /\ execFailed = FALSE
-----------------------------------------------------------------------------
(* The parent *)

Pipe ==
  /\ pc = "pipe"
  /\ holds' = [holds EXCEPT !["whyr"] = Ends]
  /\ pc' = "fork"
  /\ UNCHANGED <<childVars, size, toWrite, out, inPipe, outPipe>>

(* Either call to pipe may fail; nothing the first one opened is closed. *)
PipeFails ==
  /\ pc = "pipe"
  /\ \E opened \in {{}, {"inR", "inW"}} :
       holds' = [holds EXCEPT !["whyr"] = opened]
  /\ pc' = "thrown"
  /\ UNCHANGED <<childVars, size, toWrite, out, inPipe, outPipe>>

Fork ==
  /\ pc = "fork"
  /\ holds' = [p \in Process |-> Ends]
  /\ pc' = "parent"
  /\ why3' = "forked"
  /\ UNCHANGED <<size, toWrite, out, inPipe, outPipe,
                 got, eof, stopAt, answer, sent, execFailed>>

ForkFails ==
  /\ pc = "fork"
  /\ pc' = "thrown"
  /\ UNCHANGED <<childVars, holds, size, toWrite, out, inPipe, outPipe>>

CloseChildEnds ==
  /\ pc = "parent"
  /\ Close("whyr", {"inR", "outW"})
  /\ pc' = "write"
  /\ UNCHANGED <<childVars, size, toWrite, out, inPipe, outPipe>>

FaultyWriteWithoutRoom ==
  /\ pc = "write"
  /\ Open("inR")
  /\ \E k \in 1..toWrite :
       /\ toWrite' = toWrite - k
       /\ inPipe' = inPipe + k
  /\ UNCHANGED <<childVars, holds, pc, size, out, outPipe>>

(* The one call to write blocks until everything is in the pipe. *)
Write ==
  /\ pc = "write"
  /\ Open("inR")
  /\ \E k \in 1..Lesser(toWrite, Cap - inPipe) :
       /\ toWrite' = toWrite - k
       /\ inPipe' = inPipe + k
  /\ UNCHANGED <<childVars, holds, pc, size, out, outPipe>>

(* SIGPIPE, which whyr neither ignores nor handles. *)
Killed ==
  /\ pc = "write" /\ toWrite > 0
  /\ ~Open("inR")
  /\ Close("whyr", Ends)
  /\ pc' = "killed"
  /\ UNCHANGED <<childVars, size, toWrite, out, inPipe, outPipe>>

FaultyCloseInputEarly ==
  /\ pc = "write"
  /\ Close("whyr", {"inW"})
  /\ pc' = "wait"
  /\ UNCHANGED <<childVars, size, toWrite, out, inPipe, outPipe>>

CloseInput ==
  /\ pc = "write" /\ toWrite = 0
  /\ Close("whyr", {"inW"})
  /\ pc' = "wait"
  /\ UNCHANGED <<childVars, size, toWrite, out, inPipe, outPipe>>

WaitPid ==
  /\ pc = "wait"
  /\ why3 = "exited"
  /\ pc' = "read"
  /\ UNCHANGED <<childVars, holds, size, toWrite, out, inPipe, outPipe>>

Read ==
  /\ pc = "read" /\ outPipe > 0
  /\ LET n == Lesser(Chunk, outPipe)
     IN out' = out + n /\ outPipe' = outPipe - n
  /\ UNCHANGED <<childVars, holds, pc, size, toWrite, inPipe>>

FaultyReturnAfterOneRead ==
  /\ pc = "read" /\ out > 0
  /\ Close("whyr", {"outR"})
  /\ pc' = "returned"
  /\ UNCHANGED <<childVars, size, toWrite, out, inPipe, outPipe>>

(* read returns 0: the pipe is empty and nobody can write to it. *)
ReturnAtEof ==
  /\ pc = "read" /\ outPipe = 0
  /\ ~Open("outW")
  /\ Close("whyr", {"outR"})
  /\ pc' = "returned"
  /\ UNCHANGED <<childVars, size, toWrite, out, inPipe, outPipe>>

ReadFails ==
  /\ pc = "read"
  /\ pc' = "thrown"
  /\ UNCHANGED <<childVars, holds, size, toWrite, out, inPipe, outPipe>>

Parent == \/ Pipe \/ PipeFails \/ Fork \/ ForkFails \/ CloseChildEnds
          \/ Write \/ Killed \/ CloseInput
          \/ WaitPid \/ Read \/ ReturnAtEof \/ ReadFails
-----------------------------------------------------------------------------
(* The child *)

FaultyRedirectKeepsEnds ==
  /\ why3 = "forked"
  /\ why3' = "exec"
  /\ UNCHANGED <<parentVars, holds, inPipe, outPipe,
                 got, eof, stopAt, answer, sent, execFailed>>

(* The dup2 and close calls. *)
Redirect ==
  /\ why3 = "forked"
  /\ Close("why3", {"inW", "outR"})
  /\ why3' = "exec"
  /\ UNCHANGED <<parentVars, inPipe, outPipe,
                 got, eof, stopAt, answer, sent, execFailed>>

Exec ==
  /\ why3 = "exec"
  /\ why3' = "reading"
  /\ UNCHANGED <<parentVars, holds, inPipe, outPipe,
                 got, eof, stopAt, answer, sent, execFailed>>

(* execlp returned: the exception is thrown in the child, where nothing    *)
(* catches it, and std::terminate writes to what is now the out-pipe.      *)
ExecFails ==
  /\ why3 = "exec"
  /\ why3' = "writing"
  /\ answer' = Abort
  /\ execFailed' = TRUE
  /\ UNCHANGED <<parentVars, holds, inPipe, outPipe, got, eof, stopAt, sent>>

ReadInput ==
  /\ why3 = "reading" /\ got < stopAt
  /\ \E k \in 1..inPipe :
       /\ got' = got + k
       /\ inPipe' = inPipe - k
  /\ UNCHANGED <<parentVars, holds, why3, outPipe,
                 eof, stopAt, answer, sent, execFailed>>

ReadEof ==
  /\ why3 = "reading" /\ got < stopAt
  /\ inPipe = 0
  /\ ~Open("inW")
  /\ eof' = TRUE
  /\ why3' = "writing"
  /\ UNCHANGED <<parentVars, holds, inPipe, outPipe,
                 got, stopAt, answer, sent, execFailed>>

(* A syntax error: Why3 does not read the rest. *)
StopReading ==
  /\ why3 = "reading" /\ got >= stopAt
  /\ why3' = "writing"
  /\ UNCHANGED <<parentVars, holds, inPipe, outPipe,
                 got, eof, stopAt, answer, sent, execFailed>>

WriteAnswer ==
  /\ why3 \in {"reading", "writing"}
  /\ sent < answer /\ outPipe < Cap
  /\ Open("outR")
  /\ sent' = sent + 1
  /\ outPipe' = outPipe + 1
  /\ UNCHANGED <<parentVars, holds, why3, inPipe,
                 got, eof, stopAt, answer, execFailed>>

(* Why3 is done, or gets SIGPIPE because whyr is gone. *)
Exit ==
  /\ \/ why3 = "writing" /\ sent = answer
     \/ why3 \in {"reading", "writing"} /\ sent < answer /\ ~Open("outR")
  /\ Close("why3", Ends)
  /\ why3' = "exited"
  /\ UNCHANGED <<parentVars, inPipe, outPipe,
                 got, eof, stopAt, answer, sent, execFailed>>

Child == \/ Redirect \/ Exec \/ ExecFails
         \/ ReadInput \/ ReadEof \/ StopReading \/ WriteAnswer \/ Exit

Next == Parent \/ Child

(* The kernel runs a process whose system call can return. *)
Spec == Init /\ [][Next]_vars /\ WF_vars(Parent) /\ WF_vars(Child)
-----------------------------------------------------------------------------
Over == {"returned", "thrown", "killed"}

TypeOK ==
  /\ pc \in {"pipe", "fork", "parent", "write", "wait", "read"} \cup Over
  /\ why3 \in {"none", "forked", "exec", "reading", "writing", "exited"}
  /\ holds \in [Process -> SUBSET Ends]
  /\ size \in Nat /\ toWrite \in Nat /\ got \in Nat /\ stopAt \in Nat
  /\ answer \in Nat /\ sent \in Nat /\ out \in Nat
  /\ inPipe \in 0..Cap /\ outPipe \in 0..Cap
  /\ eof \in BOOLEAN /\ execFailed \in BOOLEAN

(* When execWhy3 returns, the child is dead and every byte it had to print *)
(* is in the caller's stream, whatever order the two processes ran in.     *)
OutputComplete == pc = "returned" => why3 = "exited" /\ out = answer

(* Why3 takes no prefix of the file for the whole file: it sees the end of *)
(* its input only after the last byte.                                     *)
InputComplete == eof => got = size

(* execWhy3 comes to an end. *)
ComesToAnEnd == <>(pc \in Over)
=============================================================================
