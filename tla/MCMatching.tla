----------------------------- MODULE MCMatching -----------------------------
(* Three postings of one role, the third of them far away, and two texts, of  *)
(* which the model cannot answer about one.                                   *)
EXTENDS Matching

MCJobs == 1..3
MCRoleOf == [j \in MCJobs |-> "role"]

MCNamed == {{1}, {2, 3}}
=============================================================================
