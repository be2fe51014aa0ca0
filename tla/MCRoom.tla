------------------------------- MODULE MCRoom -------------------------------
(* Two players of different camps, in one of two scenarios, so that TLC    *)
(* does not multiply what is hard about them: two loading requests that    *)
(* overlap each other and the six-second timer (up to three update chains) *)
(* while every agent stays and no building falls; or one request beside    *)
(* the timer, with buildings that fall, a client that drops and an agent   *)
(* that exits at any point.                                                *)
EXTENDS Room

VARIABLE scenario

MCInit == Init /\ scenario \in {"loading", "leaving"}

MCNext ==
  /\ Next /\ scenario' = scenario
  /\ IF scenario = "loading" THEN UNCHANGED <<fallen, offLine, gone>>
     ELSE co'["r2"] = co["r2"]

MCSpec == MCInit /\ [][MCNext]_<<vars, scenario>>

(* What the scenarios leave out is never a step that Fairness promises.    *)
MCFairSpec == MCSpec /\ Fairness
=============================================================================
