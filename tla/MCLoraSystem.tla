---------------------------- MODULE MCLoraSystem ----------------------------
(* Instances of LoraSystem for TLC; callers and values are interchangeable. *)
EXTENDS LoraSystem, TLC

Symmetry == Permutations(Caller) \cup Permutations(Value)
=============================================================================
