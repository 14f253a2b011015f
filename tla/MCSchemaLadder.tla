--------------------------- MODULE MCSchemaLadder ---------------------------
(***************************************************************************)
(* Instances of SchemaLadder for TLC.                                      *)
(***************************************************************************)
EXTENDS SchemaLadder
=============================================================================
