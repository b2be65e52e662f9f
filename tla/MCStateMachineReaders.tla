------------------------ MODULE MCStateMachineReaders ------------------------
(***************************************************************************)
(* Model-checking instances of StateMachineReaders.                         *)
(***************************************************************************)
EXTENDS StateMachineReaders, TLC

KeySymmetry == Permutations(Keys)
=============================================================================
