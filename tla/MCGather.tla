------------------------------ MODULE MCGather ------------------------------
(***************************************************************************)
(* Three peers, so that one fails, one answers and one stays silent.       *)
(***************************************************************************)
EXTENDS Gather

CONSTANTS p1, p2, p3

MCPeers == {p1, p2, p3}
=============================================================================
