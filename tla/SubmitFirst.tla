---------------------------- MODULE SubmitFirst ----------------------------
(***************************************************************************)
(* A request that submits one transaction and waits until the first peer   *)
(* of the organisation reports it: the tail of LifecycleFull's commit, of  *)
(* LifecycleCommit and of initChaincode, with SubscribeTx in the goroutine *)
(* it starts.                                                              *)
(*                                                                         *)
(*   handler      waits for ready, broadcasts, waits for the result        *)
(*   subscriber   SubscribeTx: starts a waiter per peer, waits for them    *)
(*   collector    keeps the last code a waiter sent in SubscribeTx's code  *)
(*   waiters      DeliverStream, one per peer; the first to finish cancels *)
(*                the context of the streams                               *)
(*                                                                         *)
(* For a commit the handler and the subscriber share err and txCode; for   *)
(* an initialisation err is the handler's, and the code is looked at by    *)
(* the subscriber, in initChaincodeValidCheck.                             *)
(***************************************************************************)
EXTENDS DeliverStream

VARIABLES hctx,    \* the request's context, parent of sctx
          hpc,     \* the handler
          spc,     \* the subscriber
          todo,    \* peers the subscriber has not come to yet
          held,    \* what the collector has received and not yet assigned
          kept,    \* the variable code of SubscribeTx
          txCode,  \* what SubscribeTx returned
          err,     \* the handler's variable
          sent,    \* the value the subscriber offers on res
          kind     \* what the transaction is: commit or init

values == <<kept, txCode, err, sent, kind>>
own    == <<hctx, hpc, spc, todo, held, values>>
vars   == <<chain, waiters, process, own>>

(* "refused": a code other than VALID; "failed": any other error. *)
Answers == {"ok", "refused", "failed"}
Answered == hpc \in Answers

(* Faulty variant: the error is kept where a code belongs. *)
StoredRaw(c) == c

(* A code as a variable of type TxValidationCode holds it. *)
Stored(c) == IF c \in Errors THEN "minusOne" ELSE c

CodeValues == Verdicts \cup {"minusOne"}

TypeOK ==
  /\ DeliverTypeOK
  /\ hctx \in {"live", "cancelled"}
  /\ hpc \in {"waitReady", "send", "sending", "sendChecked", "waitRes"} \cup Answers
  /\ spc \in {"loop", "wait", "assign", "offer", "deliver", "end"}
  /\ todo \subseteq Peers
  /\ held \in CodeValues \cup {"none"}
  /\ kept \in CodeValues
  /\ txCode \in CodeValues
  /\ err \in {"nil", "error"}
  /\ sent \in {"nil", "error"}
  /\ kind \in {"commit", "init"}

(* The zero TxValidationCode is VALID. *)
Init ==
  /\ DeliverInit
  /\ hctx = "live"
  /\ hpc = "waitReady"
  /\ spc = "loop"
  /\ todo = Peers
  /\ held = "none"
  /\ kept = "valid"
  /\ txCode = "valid"
  /\ err = "nil"
  /\ sent = "nil"
  /\ kind \in {"commit", "init"}

----------------------------------------------------------------------------
(* SubscribeTx. *)

SubscriberAt(here) == ~crashed /\ spc = here

(* A peer whose GetDeliver fails on a cancelled context is passed over. *)
StartWaiter(p) ==
  /\ SubscriberAt("loop")
  /\ p \in todo
  /\ todo' = todo \ {p}
  /\ wpc' = [wpc EXCEPT ![p] = IF pool = "open" THEN "open" ELSE "done"]
  /\ UNCHANGED <<chain, stream, code, process, hctx, hpc, spc, held, values>>

AllStarted ==
  /\ SubscriberAt("loop")
  /\ todo = {}
  /\ spc' = "wait"
  /\ UNCHANGED <<chain, waiters, process, hctx, hpc, todo, held, values>>

(* Faulty variant: a waiter that ends does not stop the others. *)
EndsAlone(p) ==
  /\ wpc' = [wpc EXCEPT ![p] = "done"]
  /\ UNCHANGED <<chain, stream, code, process, hctx, hpc, spc, todo, values>>

Ends(p) ==
  /\ wpc' = [wpc EXCEPT ![p] = "done"]
  /\ sctx' = "cancelled"
  /\ UNCHANGED <<chain, stream, code, ready, crashed, pool, hctx, hpc, spc, todo, values>>

(* Faulty variant: the code -1 is sent for every error. *)
DeliverAny(p) ==
  /\ At(p, "report")
  /\ spc = "wait"
  /\ held = "none"
  /\ held' = Stored(code[p])
  /\ Ends(p)

(* waitFirst sends its code, -1 for an error without a gRPC status ... *)
Deliver(p) ==
  /\ At(p, "report")
  /\ code[p] # "statusError"
  /\ spc = "wait"
  /\ held = "none"
  /\ held' = Stored(code[p])
  /\ Ends(p)

(* Faulty variant: no error is ever sent. *)
WithdrawOnAnyError(p) ==
  /\ At(p, "report")
  /\ code[p] \in Errors
  /\ Ends(p)
  /\ UNCHANGED held

(* ... and sends nothing for any other; both stop the other streams. *)
Withdraw(p) ==
  /\ At(p, "report")
  /\ code[p] = "statusError"
  /\ Ends(p)
  /\ UNCHANGED held

(* The collector's assignment, unordered with the subscriber's reading. *)
Keep ==
  /\ ~crashed
  /\ held # "none"
  /\ kept' = held
  /\ held' = "none"
  /\ UNCHANGED <<chain, waiters, process, hctx, hpc, spc, todo, txCode, err, sent, kind>>

(* wg.Wait() is over: return code, nil.  The cancel deferred by SubscribeTx
   finds its context cancelled by the waiters, or nobody under it.           *)
Return ==
  /\ kind = "commit"
  /\ SubscriberAt("wait")
  /\ \A p \in Peers : wpc[p] = "done"
  /\ spc' = "offer"
  /\ txCode' = kept
  /\ err' = "nil"
  /\ UNCHANGED <<chain, waiters, process, hctx, hpc, todo, held, kept, sent, kind>>

(* The same for an initialisation: a code other than VALID is an error. *)
ReturnChecked ==
  /\ kind = "init"
  /\ SubscriberAt("wait")
  /\ \A p \in Peers : wpc[p] = "done"
  /\ spc' = "deliver"
  /\ txCode' = kept
  /\ sent' = IF kept = "valid" THEN "nil" ELSE "error"
  /\ UNCHANGED <<chain, waiters, process, hctx, hpc, todo, held, kept, err, kind>>

(* case res <- err reads err as it enters the select. *)
Offer ==
  /\ SubscriberAt("offer")
  /\ spc' = "deliver"
  /\ sent' = err
  /\ UNCHANGED <<chain, waiters, process, hctx, hpc, todo, held, kept, txCode, err, kind>>

(* Faulty variant: the send on res has no other branch. *)
AbandonNever == FALSE

Abandon ==
  /\ SubscriberAt("deliver")
  /\ hctx = "cancelled"
  /\ spc' = "end"
  /\ UNCHANGED <<chain, waiters, process, hctx, hpc, todo, held, values>>

SubscriberStep ==
  \/ \E p \in Peers : StartWaiter(p) \/ Deliver(p) \/ Withdraw(p)
  \/ AllStarted
  \/ Keep
  \/ Return
  \/ ReturnChecked
  \/ Offer
  \/ Abandon

----------------------------------------------------------------------------
(* The handler. *)

HandlerAt(here) == ~crashed /\ hpc = here

HandlerTo(next) ==
  /\ hpc' = next
  /\ UNCHANGED <<verdict, ledger, waiters, process, hctx, todo, held, kept, txCode, sent, kind>>

SeeReady ==
  /\ HandlerAt("waitReady")
  /\ ready
  /\ HandlerTo("send")
  /\ UNCHANGED <<tx, spc, err>>

Send ==
  /\ HandlerAt("send")
  /\ tx' = "sent"
  /\ HandlerTo("sending")
  /\ UNCHANGED <<spc, err>>

(* err = sendProposalToOrderers(...), which may have sent nothing; what the
   if then reads is whatever err holds by then.                             *)
SendNothing ==
  /\ HandlerAt("send")
  /\ err' = "error"
  /\ HandlerTo("sendChecked")
  /\ UNCHANGED <<tx, spc>>

SendReturns ==
  /\ HandlerAt("sending")
  /\ err' \in {"nil", "error"}
  /\ HandlerTo("sendChecked")
  /\ UNCHANGED <<tx, spc>>

CheckSend ==
  /\ HandlerAt("sendChecked")
  /\ HandlerTo(IF err = "nil" THEN "waitRes" ELSE "failed")
  /\ UNCHANGED <<tx, spc, err>>

(* err = <-res; then a commit looks at the error and the code.             *)
Answer ==
  CASE kind = "init"   /\ sent = "nil"   -> "ok"
    [] kind = "init"   /\ sent = "error" -> "refused"
    [] kind = "commit" /\ sent = "error" -> "failed"
    [] kind = "commit" /\ sent = "nil"   -> IF txCode = "valid" THEN "ok" ELSE "refused"

TakeResult ==
  /\ HandlerAt("waitRes")
  /\ spc = "deliver"
  /\ spc' = "end"
  /\ err' = sent
  /\ HandlerTo(Answer)
  /\ UNCHANGED tx

GiveUp ==
  /\ ~crashed
  /\ hpc \in {"waitReady", "waitRes"}
  /\ hctx = "cancelled"
  /\ HandlerTo("failed")
  /\ UNCHANGED <<tx, spc, err>>

HandlerStep ==
  \/ SeeReady
  \/ Send
  \/ SendNothing
  \/ SendReturns
  \/ CheckSend
  \/ TakeResult
  \/ GiveUp

----------------------------------------------------------------------------
(* The caller and the server around the handler, as in SubmitAll. *)

CancelContext ==
  /\ ~crashed
  /\ hctx = "live"
  /\ hctx' = "cancelled"
  /\ sctx' = "cancelled"
  /\ UNCHANGED <<chain, waiters, ready, crashed, pool, hpc, spc, todo, held, values>>

CallerCancels == ~Answered /\ CancelContext

ServerCancels == Answered /\ CancelContext

ClosePool ==
  /\ ~crashed
  /\ Answered
  /\ hctx = "cancelled"
  /\ pool = "open"
  /\ pool' = "closed"
  /\ UNCHANGED <<chain, waiters, ready, crashed, sctx, own>>

Next ==
  \/ HandlerStep
  \/ SubscriberStep
  \/ \E p \in Peers : WaiterStep(p) /\ UNCHANGED own
  \/ NetworkStep /\ UNCHANGED own
  \/ CallerCancels
  \/ ServerCancels
  \/ ClosePool

(* As in SubmitAll, with the collector as one more goroutine. *)
HandlerProgress ==
  \/ SeeReady
  \/ Send
  \/ SendNothing
  \/ SendReturns /\ hctx = "cancelled"
  \/ CheckSend
  \/ TakeResult
  \/ GiveUp

SubscriberProgress ==
  \/ \E p \in Peers : StartWaiter(p)
  \/ AllStarted
  \/ Return
  \/ ReturnChecked
  \/ Offer
  \/ Abandon

Fairness ==
  /\ WF_vars(HandlerProgress)
  /\ WF_vars(SubscriberProgress)
  /\ WF_vars(Keep)
  /\ WF_vars(ServerCancels)
  /\ \A p \in Peers :
       /\ WF_vars((WaiterProgress(p) /\ UNCHANGED own) \/ Deliver(p) \/ Withdraw(p))
       /\ WF_vars(~crashed /\ ServeSeek(p) /\ UNCHANGED own)
       /\ WF_vars(~crashed /\ Commit(p) /\ UNCHANGED own)

Spec == Init /\ [][Next]_vars
FairSpec == Spec /\ Fairness

----------------------------------------------------------------------------
(***************************************************************************)
(* Properties                                                              *)
(***************************************************************************)

(* A request answered with success has seen some peer report its transaction
   valid: "returns the validation code of the transaction and any encountered
   error" (delivery.go:14-15), "check tx by validation code"
   (lifecycle_full.go:468).                                                  *)
SuccessIsReported ==
  hpc = "ok" => \E p \in Peers : code[p] = "valid"

(* An unreported success has one of two causes: a stream that ended with a
   gRPC status, whose error waitFirst swallows, or the collector still
   holding a code when SubscribeTx returned (peer.go:49-59, 103-116).  And
   only a commit, whose err the subscriber overwrites, succeeds with a
   transaction that never left (lifecycle_full.go:444-461, 542-563).         *)
SwallowedError == \E p \in Peers : code[p] = "statusError"
UnkeptCode == held # "none" \/ kept # txCode

UnreportedOnlyIf ==
  hpc = "ok" =>
    /\ (\E p \in Peers : code[p] = "valid") \/ SwallowedError \/ UnkeptCode
    /\ kind = "init" => tx # "none"

(* A request is refused for its code only when validation refused the
   transaction or a stream broke without a gRPC status, which counts as the
   code -1: the streams that the first answer cancels never turn a valid
   transaction into a refusal (peer.go:103-116).                             *)
RefusalIsReported ==
  hpc = "refused" => verdict = "invalid" \/ \E p \in Peers : code[p] = "ioError"

(* What the caller is promised: FirstReport.  A refusal is some peer's, a
   peer's verdict is that of its ledger, a success rests on some peer's
   report, stored, withheld or under way, and the envelope is handed over once (peer.go:27-60, lifecycle_full.go:437-472, 542-566).     *)
First == INSTANCE FirstReport WITH
           request   <- kind,
           submitted <- tx # "none",
           valid     <- verdict = "valid",
           holders   <- {p \in Peers : ledger[p] # "before"},
           report    <- code,
           underway  <- UnkeptCode,
           answer    <- IF Answered THEN hpc ELSE "none"

ImplementsFirstReport == First!Spec

(* A request that is never answered nor cancelled waits for one of four
   things: ready, which nobody is left to close; silent orderers; a
   transaction that is never ordered; or every peer's stream that is still
   open began above its block.  Unlike SubmitAll, one seeing peer suffices.  *)
Stuck ==
  \/ hpc = "waitReady" /\ spc = "deliver" /\ ~ready
  \/ hpc = "sending"
  \/ hpc = "waitRes" /\ tx = "sent"
  \/ hpc = "waitRes" /\ \A p \in Peers : wpc[p] = "recv" /\ stream[p] = "blind"

WaitsOnlyWhenStuck == <>[]~Answered => <>[](crashed \/ Stuck)

(* Once its context has ended, every goroutine of a request ends, the
   collector having nothing left to store (peer.go:28-60: no early return
   skips the wait for the waiters).                                          *)
AllEnded ==
  /\ Answered
  /\ spc = "end"
  /\ held = "none"
  /\ \A p \in Peers : wpc[p] = "done"

CancelReleases == hctx = "cancelled" ~> (crashed \/ AllEnded)
============================================================================
