------------------------------- MODULE MCLayer -------------------------------
(* The layer shell with the values of its configurations.                  *)
EXTENDS LayerProperties
=============================================================================
