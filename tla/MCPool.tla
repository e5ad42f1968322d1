------------------------------- MODULE MCPool --------------------------------
(* The thread pool with the values of Pool.cfg.                            *)
EXTENDS PoolProperties
=============================================================================
