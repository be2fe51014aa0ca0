----------------------------- MODULE MCSession -----------------------------
(* Session for TLC: the connections are model values, the account has one    *)
(* battle and each connection one enterGame.                                  *)
EXTENDS Session
=============================================================================
