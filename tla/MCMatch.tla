------------------------------ MODULE MCMatch -------------------------------
(* Matches of two or three.  Requests are numbered; ratings are chosen so  *)
(* that requests e1, e2 and e3 are within the basic range of each other     *)
(* and e4 only within reach of one that has failed before.                 *)
EXTENDS Match

Own == [e \in Entries |-> e]
MCElo == [e \in Entries |-> IF e = "e4" THEN 16 ELSE 10]
FarElo == [e \in Entries |-> CASE e = "e1" -> 10 [] e = "e2" -> 100 [] OTHER -> 200]
MCLevel == [e \in Entries |-> IF e = "e2" THEN 2 ELSE 1]
=============================================================================
