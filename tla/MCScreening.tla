---------------------------- MODULE MCScreening ----------------------------
(***************************************************************************)
(* The scorers for TLC: two custom rules, the default policy.              *)
(***************************************************************************)
EXTENDS Screening, PatternTables

TheRules == <<20, 5>>

ThreeHits == [t \in Topics |-> 3]
=============================================================================
