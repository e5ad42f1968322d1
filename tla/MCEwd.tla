------------------------------- MODULE MCEwd --------------------------------
(* Values for the constants of Wayland that a configuration cannot write.  *)
EXTENDS EwdProperties

MCConnector == [g \in Globals |-> IF g = 1 THEN "eDP-1" ELSE "DP-1"]
=============================================================================
