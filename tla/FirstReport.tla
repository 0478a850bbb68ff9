---------------------------- MODULE FirstReport ----------------------------
(***************************************************************************)
(* What a caller may rely on when a request submits one transaction and    *)
(* takes the word of the first peer that reports it: a commit of a         *)
(* chaincode definition or an initialisation.  Peers report only what is   *)
(* in their ledgers; a refusal is a peer's word, or that of a broken       *)
(* stream.  "ok" is less than the caller would expect: it may stand for a  *)
(* report that was withheld or is still under way, and only an             *)
(* initialisation is sure to have been submitted.                          *)
(***************************************************************************)

CONSTANT Peers

VARIABLES request,    \* "commit" or "init"
          submitted,  \* the envelope has been handed to the ordering service
          valid,      \* what validation will say of it
          holders,    \* the peers whose ledger holds it
          report,     \* of each peer: its verdict, or how its stream ended
          underway,   \* a report has not got to who answers
          answer      \* what the caller was told

vars == <<request, submitted, valid, holders, report, underway, answer>>

Verdict == IF valid THEN "valid" ELSE "invalid"

Init ==
  /\ request \in {"commit", "init"}
  /\ submitted = FALSE
  /\ valid \in BOOLEAN
  /\ holders = {}
  /\ report = [p \in Peers |-> "none"]
  /\ underway = FALSE
  /\ answer = "none"

Submit ==
  /\ ~submitted
  /\ answer = "none"
  /\ submitted' = TRUE
  /\ UNCHANGED <<request, valid, holders, report, underway, answer>>

Land(p) ==
  /\ submitted
  /\ holders' = holders \cup {p}
  /\ UNCHANGED <<request, submitted, valid, report, underway, answer>>

(* "statusError" is an error that nobody is told of. *)
Report(p) ==
  /\ report[p] = "none"
  /\ \E r \in {Verdict, "ioError", "statusError"} :
       /\ r = Verdict => p \in holders
       /\ report' = [report EXCEPT ![p] = r]
  /\ UNCHANGED <<request, submitted, valid, holders, underway, answer>>

Reported(kinds) == \E p \in Peers : report[p] \in kinds

(* A report sets out, or arrives. *)
Deliver ==
  /\ underway' \in BOOLEAN
  /\ underway' => Reported({"valid", "invalid", "ioError"})
  /\ UNCHANGED <<request, submitted, valid, holders, report, answer>>

Answer ==
  /\ answer = "none"
  /\ \/ /\ answer' = "ok"
        /\ Reported({"valid", "statusError"}) \/ underway
        /\ request = "init" => submitted
     \/ answer' = "refused" /\ Reported({"invalid", "ioError"})
     \/ answer' = "failed"
  /\ UNCHANGED <<request, submitted, valid, holders, report, underway>>

Next ==
  \/ Submit
  \/ \E p \in Peers : Land(p) \/ Report(p)
  \/ Deliver
  \/ Answer

Spec == Init /\ [][Next]_vars
=============================================================================
