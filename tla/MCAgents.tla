------------------------------ MODULE MCAgents ------------------------------
(***************************************************************************)
(* The topology with one caller: nobody else ever holds the lock.          *)
(***************************************************************************)
EXTENDS Agents
=============================================================================
