--------------------------- MODULE MCConfigChange ---------------------------
(***************************************************************************)
(* A channel with two consenters of the organisation "O" and the           *)
(* application organisation of the service, which has one anchor peer.     *)
(***************************************************************************)
EXTENDS ConfigChange

CONSTANTS r1, r2

MCSymmetry == Permutations({r1, r2})
MCRequests == {r1, r2}
MCGroups == {"Channel", "Orderer", "Application", "Org"}
MCPaths == MCGroups \cup {"ConsensusType", "Capabilities", "MSP", "AnchorPeers"}
MCParent ==
  [p \in MCPaths |->
     IF p \in {"ConsensusType", "Capabilities"} THEN "Orderer"
     ELSE IF p \in {"MSP", "AnchorPeers"} THEN "Org"
     ELSE IF p = "Org" THEN "Application"
     ELSE "Channel"]
MCOrgs == {"O"}

Consenter(h, i, type) ==
  [host |-> h, id |-> IF type = "smartbft" THEN i ELSE 0,
   msp |-> IF type = "smartbft" THEN "O" ELSE None, client |-> "own"]
MCInitialConfig(type) ==
  [p \in MCPaths |->
     [version |-> 0, mod |-> "Admins",
      data |-> CASE p = "ConsensusType" ->
                      [type |-> type,
                       nodes |-> <<Consenter("h1", 1, type), Consenter("h2", 2, type)>>]
                 [] p = "AnchorPeers" -> <<"b">>
                 [] OTHER -> None]]

MCOperations ==
  {[op |-> "add", host |-> "h3"], [op |-> "delete", host |-> "h1"],
   [op |-> "update", host |-> "h2"], [op |-> "anchors", peers |-> <<"a">>]}
MCFree == {"Org"}
MCOptional == {"Capabilities", "AnchorPeers"}
=============================================================================
