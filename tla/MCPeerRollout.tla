--------------------------- MODULE MCPeerRollout ---------------------------
(***************************************************************************)
(* Two peers and two requests for packages of which two share a label.     *)
(***************************************************************************)
EXTENDS PeerRollout

CONSTANTS p1, p2, r1, r2, i1, i2, i3

MCPeers == {p1, p2}
MCRequests == {r1, r2}
MCItems == {i1, i2, i3}
MCLabel == [i \in MCItems |-> IF i = i3 THEN "other" ELSE "label"]
=============================================================================
