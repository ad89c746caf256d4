---------------------------- MODULE MCCodexRuntime ----------------------------
(***************************************************************************)
(* CodexRuntime for TLC: the threads that run tools execute the same code, *)
(* so states that differ by a permutation of them are one state.           *)
(***************************************************************************)
EXTENDS CodexRuntime, TLC

ToolSymmetry == Permutations(Tools)
===============================================================================
