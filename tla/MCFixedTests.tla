----------------------------- MODULE MCFixedTests -----------------------------
(* FixedTests with the literals of MCPools for the free test. *)
EXTENDS FixedTests, MCPools

MCAll == DOMAIN AllFixed
=============================================================================
