------------------------------ MODULE MCOutbox ------------------------------
(***************************************************************************)
(* Instances of Outbox for TLC.                                            *)
(***************************************************************************)
EXTENDS Outbox, TLC

\* Processes and payload names are interchangeable (safety runs only).
Symmetry == Permutations(Hook) \cup Permutations(Payload)
=============================================================================
