------------------------------ MODULE MCDurableJob -----------------------------
(* DurableJob for TLC: the callers are interchangeable.                       *)
EXTENDS DurableJob, TLC

CallerSymmetry == Permutations(Callers)
================================================================================
