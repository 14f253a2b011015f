----------------------------- MODULE MCCapture -----------------------------
(***************************************************************************)
(* Instances of Capture for TLC.                                           *)
(***************************************************************************)
EXTENDS Capture, TLC

\* Hook processes are interchangeable (safety runs only).
HookSymmetry == Permutations(Hook)
=============================================================================
