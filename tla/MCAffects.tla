----------------------------- MODULE MCAffects ------------------------------
(* One skill that slows and burns; nobody but the update chain.             *)
EXTENDS Affects

SlowAndBurn == [burn |-> <<"ctrl", "dot">>]
=============================================================================
