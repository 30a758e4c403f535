-------------------------- MODULE MCServiceLifecycle --------------------------
(* ServiceLifecycle on small sets. *)
EXTENDS ServiceLifecycle
=============================================================================
