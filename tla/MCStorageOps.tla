---------------------------- MODULE MCStorageOps ----------------------------
(***************************************************************************)
(* Instances of StorageOps for TLC.                                        *)
(***************************************************************************)
EXTENDS StorageOps, TLC

CONSTANTS f, g, p, q, h

\* Each transcript belongs to a project of its own.
OwnProject == (f :> p) @@ (g :> q)
=============================================================================
