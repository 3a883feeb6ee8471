----------------------------- MODULE MCSchemaInit -----------------------------
(* Instances of SchemaInit for TLC.                                          *)
EXTENDS SchemaInit

CONSTANTS c1, c2
===============================================================================
