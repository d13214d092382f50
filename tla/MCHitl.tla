------------------------------ MODULE MCHitl -------------------------------
(***************************************************************************)
(* Hitl for TLC: the calls, watchers, responders and requests are model    *)
(* values, interchangeable except where liveness is checked.               *)
(***************************************************************************)
EXTENDS Hitl, TLC

\* Two replicas' calls of each kind behave alike.
Symmetry == Permutations(Calls) \cup Permutations(Watchers) \cup Permutations(Responders)
============================================================================
