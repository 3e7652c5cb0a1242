-------------------------- MODULE MCFacadeTimers --------------------------
(***************************************************************************)
(* FacadeTimers with two interchangeable timers, a second of three ticks and *)
(* delays within a second and of one second.                               *)
(***************************************************************************)
EXTENDS FacadeTimers, TLC

CONSTANTS m1, m2

Two      == {m1, m2}
Short    == {1, 3}
Symmetry == Permutations(Two)
=============================================================================
