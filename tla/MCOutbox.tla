------------------------------ MODULE MCOutbox ------------------------------
(* A small instance of Outbox.                                             *)
EXTENDS Outbox, TLC

CONSTANTS h1, h2

\* The older row and the younger row of different webhooks.
TwoHooks == 1 :> h1 @@ 2 :> h2
=============================================================================
