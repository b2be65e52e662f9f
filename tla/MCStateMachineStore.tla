------------------------ MODULE MCStateMachineStore ------------------------
(***************************************************************************)
(* Model-checking instances of StateMachineStore.                           *)
(***************************************************************************)
EXTENDS StateMachineStore, TLC

KeySymmetry == Permutations(Keys)
=============================================================================
