----------------------------- MODULE MCEconomy ------------------------------
(* A player who buys chests, one day long, through one agent.               *)
EXTENDS Economy

BoxHost == [c \in Coros |-> "agent"]
BoxMenu == {[c \in Coros |-> {"box"}]}
=============================================================================
