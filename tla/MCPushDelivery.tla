---------------------------- MODULE MCPushDelivery ----------------------------
(* PushDelivery on small sets. *)
EXTENDS PushDelivery
=============================================================================
