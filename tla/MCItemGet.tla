------------------------------ MODULE MCItemGet ------------------------------
(* ItemGet with the literals of MCPools. *)
EXTENDS ItemGetCalls, MCPools
=============================================================================
