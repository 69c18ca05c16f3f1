---------------------------- MODULE MCItemGroups ----------------------------
(* ItemGroups with the literals of MCPools. *)
EXTENDS ItemGroups, MCPools
=============================================================================
