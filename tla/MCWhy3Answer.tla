---------------------------- MODULE MCWhy3Answer ----------------------------
(* One name of a goal, three lines, and the message of a child in which execlp      *)
(* failed: "terminate called after throwing an instance of ...".           *)
EXTENDS Why3Answer

MCGoals == {"g"}
MCAborts ==
  {<<"terminate", Space, "called", Space, "after", Space, "throwing", Space, "an", Space, "instance">>}
=============================================================================
