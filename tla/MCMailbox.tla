----------------------------- MODULE MCMailbox ------------------------------
(* Two workers, one that takes a message at a time and one that empties a   *)
(* mailbox; the timer; a service that is running and one to be launched.    *)
EXTENDS Mailbox, TLC

CONSTANTS h1, h2, w1, w2

MCBoot == <<h1>>
MCWeight == (w1 :> -1) @@ (w2 :> 0)
=============================================================================
