----------------------------- MODULE Submission -----------------------------
(***************************************************************************)
(* What a caller may rely on when a request submits one transaction: it is *)
(* handed to the ordering service at most once, reaches the ledgers only   *)
(* after that, and the caller is told "ok" only when it is a valid         *)
(* transaction in the ledger of every peer.  An error promises nothing:    *)
(* the transaction may still be committed, before or after the answer.     *)
(***************************************************************************)

CONSTANT Peers

VARIABLES submitted,  \* the envelope has been handed to the ordering service
          valid,      \* what validation will say of it
          holders,    \* the peers whose ledger holds it
          answer      \* what the caller was told

vars == <<submitted, valid, holders, answer>>

Init ==
  /\ submitted = FALSE
  /\ valid \in BOOLEAN
  /\ holders = {}
  /\ answer = "none"

Submit ==
  /\ ~submitted
  /\ answer = "none"
  /\ submitted' = TRUE
  /\ UNCHANGED <<valid, holders, answer>>

Land(p) ==
  /\ submitted
  /\ holders' = holders \cup {p}
  /\ UNCHANGED <<submitted, valid, answer>>

AnswerOk ==
  /\ answer = "none"
  /\ valid
  /\ holders = Peers
  /\ answer' = "ok"
  /\ UNCHANGED <<submitted, valid, holders>>

AnswerError ==
  /\ answer = "none"
  /\ answer' = "error"
  /\ UNCHANGED <<submitted, valid, holders>>

Next ==
  \/ Submit
  \/ \E p \in Peers : Land(p)
  \/ AnswerOk
  \/ AnswerError

Spec == Init /\ [][Next]_vars
=============================================================================
