----------------------------- MODULE MCService -----------------------------
(***************************************************************************)
(* Two calls; a subscriber that the first may start and that outlives it   *)
(* or not.  p is a local peer, dialed at the start.  q is one that         *)
(* discovery names: of another organisation, dialed during calls,          *)
(* whose MSP id begins with the service's own (as Org10 does with Org1),   *)
(* and whose certificates parse or not.  One orderer, whose certificates   *)
(* parse or not.                                                           *)
(***************************************************************************)
EXTENDS Service

CONSTANTS c1, c2, s1

MCCalls == {c1, c2}
MCSubscribers == {s1}
MCCallOf == [s \in MCSubscribers |-> c1]
=============================================================================
