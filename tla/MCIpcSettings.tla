--------------------------- MODULE MCIpcSettings ---------------------------
(***************************************************************************)
(* Instances of IpcSettings for TLC.  Callers are interchangeable, and so  *)
(* are values, which the service only copies: both are symmetry sets of    *)
(* the safety runs.                                                        *)
(***************************************************************************)
EXTENDS IpcSettings, TLC

Symmetry == Permutations(Caller) \cup Permutations(Value)
=============================================================================
