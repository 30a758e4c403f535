-------------------------- MODULE MCServiceShutdown --------------------------
(* ServiceShutdown on small sets. *)
EXTENDS ServiceShutdown
=============================================================================
