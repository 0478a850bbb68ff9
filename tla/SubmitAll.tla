----------------------------- MODULE SubmitAll -----------------------------
(***************************************************************************)
(* A request that submits one transaction and waits until every peer of    *)
(* the organisation reports it: the tail of LifecycleFull's approval, of   *)
(* LifecycleApproveForMyOrg and of proceedChannelUpdate (which the config  *)
(* handlers share), with SubscribeTxAll in the goroutine it starts.        *)
(*                                                                         *)
(*   handler      waits for ready, broadcasts, waits for the result        *)
(*   subscriber   SubscribeTxAll: starts a waiter per peer, collects their *)
(*                codes, hands the result to the handler                   *)
(*   waiters      DeliverStream, one per peer                              *)
(***************************************************************************)
EXTENDS DeliverStream

VARIABLES hpc,      \* the handler
          spc,      \* the subscriber
          todo,     \* peers for which it has not started a waiter yet
          result    \* what SubscribeTxAll returned: "nil" or "error"

own  == <<hpc, spc, todo, result>>
vars == <<chain, waiters, process, own>>

Answers == {"ok", "failed"}
Answered == hpc \in Answers

TypeOK ==
  /\ DeliverTypeOK
  /\ hpc \in {"waitReady", "send", "sending", "waitRes"} \cup Answers
  /\ spc \in {"loop", "collect", "deliver", "end"}
  /\ todo \subseteq Peers
  /\ result \in {"none", "nil", "error"}

(* The channels exist and the goroutine has been started. *)
Init ==
  /\ DeliverInit
  /\ hpc = "waitReady"
  /\ spc = "loop"
  /\ todo = Peers
  /\ result = "none"

----------------------------------------------------------------------------
(* SubscribeTxAll. *)

SubscriberAt(here) == ~crashed /\ spc = here

(***************************************************************************)
(* GetDeliver finds the connection in the pool (NewGrpcPool dialled every  *)
(* local peer) unless the pool was closed, which happens only after the    *)
(* handlers returned and their contexts ended: it then dials under a       *)
(* cancelled context and SubscribeTxAll returns, whatever it has started.  *)
(***************************************************************************)
StartWaiter(p) ==
  /\ SubscriberAt("loop")
  /\ p \in todo
  /\ IF pool = "open"
     THEN /\ todo' = todo \ {p}
          /\ wpc' = [wpc EXCEPT ![p] = "open"]
          /\ UNCHANGED <<spc, result>>
     ELSE /\ spc' = "deliver"
          /\ result' = "error"
          /\ UNCHANGED <<todo, wpc>>
  /\ UNCHANGED <<chain, stream, code, process, hpc>>

AllStarted ==
  /\ SubscriberAt("loop")
  /\ todo = {}
  /\ spc' = "collect"
  /\ UNCHANGED <<chain, waiters, process, hpc, todo, result>>

(* A waiter blocked on the unbuffered resChan meets the collecting loop. *)
Collect(p) ==
  /\ SubscriberAt("collect")
  /\ wpc[p] = "report"
  /\ wpc' = [wpc EXCEPT ![p] = "done"]
  /\ UNCHANGED <<chain, stream, code, process, own>>

Collected == {p \in Peers : wpc[p] = "done"}

(* Faulty variant: one valid report is enough. *)
VerdictOfAny ==
  IF \E p \in Collected : code[p] = "valid" THEN "nil" ELSE "error"

(* Faulty variant: a code is returned in place of an error. *)
VerdictRaw ==
  IF \A p \in Peers : code[p] = "valid" THEN "nil" ELSE "invalid"

Verdict ==
  IF Collected = Peers /\ \A p \in Peers : code[p] = "valid"
  THEN "nil" ELSE "error"

(* The last wg.Done lets the closing goroutine close resChan. *)
AllCollected ==
  /\ SubscriberAt("collect")
  /\ Peers \ todo \subseteq Collected
  /\ result' = Verdict
  /\ spc' = "deliver"
  /\ UNCHANGED <<chain, waiters, process, hpc, todo>>

(* Faulty variant: the send on res has no other branch. *)
AbandonNever == FALSE

(* Nobody takes the result: the other branch of the subscriber's select. *)
Abandon ==
  /\ SubscriberAt("deliver")
  /\ sctx = "cancelled"
  /\ spc' = "end"
  /\ UNCHANGED <<chain, waiters, process, hpc, todo, result>>

SubscriberStep ==
  \/ \E p \in Peers : StartWaiter(p) \/ Collect(p)
  \/ AllStarted
  \/ AllCollected
  \/ Abandon

----------------------------------------------------------------------------
(* The handler. *)

HandlerAt(here) == ~crashed /\ hpc = here

HandlerTo(next) ==
  /\ hpc' = next
  /\ UNCHANGED <<verdict, ledger, waiters, process, todo, result>>

(* Faulty variant: the handler does not wait for ready. *)
SeeReadyAtOnce ==
  /\ HandlerAt("waitReady")
  /\ HandlerTo("send")
  /\ UNCHANGED <<tx, spc>>

SeeReady ==
  /\ HandlerAt("waitReady")
  /\ ready
  /\ HandlerTo("send")
  /\ UNCHANGED <<tx, spc>>

(* sendProposalToOrderers, whose inside is module OrdererBroadcast.  It may
   fail before anything is sent, and fail although an orderer took it.      *)
SendNothing ==
  /\ HandlerAt("send")
  /\ HandlerTo("failed")
  /\ UNCHANGED <<tx, spc>>

Send ==
  /\ HandlerAt("send")
  /\ tx' = "sent"
  /\ HandlerTo("sending")
  /\ UNCHANGED spc

SendOk ==
  /\ HandlerAt("sending")
  /\ HandlerTo("waitRes")
  /\ UNCHANGED <<tx, spc>>

SendFailed ==
  /\ HandlerAt("sending")
  /\ HandlerTo("failed")
  /\ UNCHANGED <<tx, spc>>

(* Faulty variant: the error received from res is not looked at. *)
TakeAnyResult ==
  /\ HandlerAt("waitRes")
  /\ spc = "deliver"
  /\ spc' = "end"
  /\ HandlerTo("ok")
  /\ UNCHANGED tx

(* case err = <-res: the handler meets the subscriber. *)
TakeResult ==
  /\ HandlerAt("waitRes")
  /\ spc = "deliver"
  /\ spc' = "end"
  /\ HandlerTo(IF result = "nil" THEN "ok" ELSE "failed")
  /\ UNCHANGED tx

(* case <-ctx.Done() of either select. *)
GiveUp ==
  /\ ~crashed
  /\ hpc \in {"waitReady", "waitRes"}
  /\ sctx = "cancelled"
  /\ HandlerTo("failed")
  /\ UNCHANGED <<tx, spc>>

HandlerStep ==
  \/ SeeReady
  \/ SendNothing
  \/ Send
  \/ SendOk
  \/ SendFailed
  \/ TakeResult
  \/ GiveUp

----------------------------------------------------------------------------
(* The caller and the server around the handler. *)

CancelContext ==
  /\ ~crashed
  /\ sctx = "live"
  /\ sctx' = "cancelled"
  /\ UNCHANGED <<chain, waiters, ready, crashed, pool, own>>

(* The caller hangs up, or its deadline passes. *)
CallerCancels == ~Answered /\ CancelContext

(* The gRPC server ends the context of a request that was answered. *)
ServerCancels == Answered /\ CancelContext

(* main closes the pool once GracefulStop has let the handlers return. *)
ClosePool ==
  /\ ~crashed
  /\ Answered
  /\ sctx = "cancelled"
  /\ pool = "open"
  /\ pool' = "closed"
  /\ UNCHANGED <<chain, waiters, ready, crashed, sctx, own>>

Next ==
  \/ HandlerStep
  \/ SubscriberStep
  \/ \E p \in Peers : WaiterStep(p) /\ UNCHANGED own
  \/ NetworkStep /\ UNCHANGED own
  \/ CallerCancels
  \/ ServerCancels
  \/ ClosePool

(***************************************************************************)
(* The Go scheduler runs every runnable goroutine, a broadcast returns once *)
(* its context ends, a request that returned has its context cancelled, and *)
(* peers serve seeks and commit what was ordered.  Nothing is assumed of    *)
(* the caller, of the orderers (they may never answer, or never order what  *)
(* they took) or of failures.                                               *)
(***************************************************************************)
HandlerProgress ==
  \/ SeeReady
  \/ Send
  \/ SendNothing
  \/ SendFailed /\ sctx = "cancelled"
  \/ TakeResult
  \/ GiveUp

SubscriberProgress ==
  \/ \E p \in Peers : StartWaiter(p)
  \/ AllStarted
  \/ AllCollected
  \/ Abandon

Fairness ==
  /\ WF_vars(HandlerProgress)
  /\ WF_vars(SubscriberProgress)
  /\ WF_vars(ServerCancels)
  /\ \A p \in Peers :
       /\ WF_vars((WaiterProgress(p) /\ UNCHANGED own) \/ Collect(p))
       /\ WF_vars(~crashed /\ ServeSeek(p) /\ UNCHANGED own)
       /\ WF_vars(~crashed /\ Commit(p) /\ UNCHANGED own)

Spec == Init /\ [][Next]_vars
FairSpec == Spec /\ Fairness

----------------------------------------------------------------------------
(***************************************************************************)
(* Properties                                                              *)
(***************************************************************************)

(* A request is answered with success only when every peer's stream has
   reported the transaction valid: all ledgers hold it, and the error of no
   stream, the refusal of no peer and no early return was lost on the way
   (lifecycle_full.go:215-222 over SubscribeTxAll, peer.go:65-101).         *)
SuccessIsUnanimous ==
  hpc = "ok" =>
    /\ verdict = "valid"
    /\ \A p \in Peers : code[p] = "valid" /\ ledger[p] # "before"

(* The envelope leaves only after some peer's stream has been asked for its
   blocks, so no transaction is sent that nobody watches: the purpose of the
   ready channel (lifecycle_full.go:204-211, peer.go:143-154).              *)
WatchedBeforeSent ==
  tx # "none" => \E p \in Peers : stream[p] # "none"

(* A request that is never answered nor cancelled waits for one of four
   things only: all streams failed before any subscribed, so ready is never
   closed although the result is there; the orderers are silent; the
   transaction is never ordered; or a peer's stream began above its block.
   In particular no failure of a stream after ready leaves it waiting.      *)
Stuck ==
  \/ hpc = "waitReady" /\ spc = "deliver" /\ ~ready
  \/ hpc = "sending"
  \/ hpc = "waitRes" /\ tx = "sent"
  \/ hpc = "waitRes" /\ \E p \in Peers : wpc[p] = "recv" /\ stream[p] = "blind"

WaitsOnlyWhenStuck == <>[]~Answered => <>[](crashed \/ Stuck)

(* Once its context has ended, every goroutine of a request ends: none stays
   blocked on resChan, res or a stream.  The exception is SubscribeTxAll's
   early return at peer.go:73-76, which abandons the waiters it started.    *)
AllEnded ==
  /\ Answered
  /\ spc = "end"
  /\ \A p \in Peers : wpc[p] \in {"idle", "done"}

ReturnedEarly == spc \in {"deliver", "end"} /\ todo # {}

CancelReleases == sctx = "cancelled" ~> (crashed \/ AllEnded \/ ReturnedEarly)

(* Why SuccessIsUnanimous holds: a waiter returns "valid" only from a block it
   has seen, SubscribeTxAll returns nil only when every waiter has, and the
   handler answers with what SubscribeTxAll returned.                        *)
CodesAreTrue ==
  \A p \in Peers :
    code[p] = "valid" => verdict = "valid" /\ ledger[p] # "before"

ResultIsUnanimous ==
  result = "nil" =>
    /\ spc \in {"deliver", "end"}
    /\ \A p \in Peers : code[p] = "valid" /\ wpc[p] = "done"

AnswerIsResult == hpc = "ok" => result = "nil"

(* Why WatchedBeforeSent holds. *)
ReadyIsWatched ==
  /\ \A p \in Peers :
       wpc[p] \in {"check", "close", "recv"} => stream[p] # "none"
  /\ ready => \E p \in Peers : stream[p] # "none"
  /\ hpc = "send" \/ tx # "none" => ready

(* Why the envelope is handed over once. *)
SentOnce == hpc \in {"waitReady", "send"} => tx = "none"

Inv ==
  /\ TypeOK
  /\ \A p \in Peers : stream[p] # "stale"
  /\ CodesAreTrue
  /\ ResultIsUnanimous
  /\ AnswerIsResult
  /\ ReadyIsWatched
  /\ SentOnce

(* One close of the ready channel per request: no waiter panics the process
   ("It returns any encountered error", delivery.go:15-16).                 *)
NoPanic == ~crashed

(* The caller is promised what Submission promises. *)
S == INSTANCE Submission WITH
       submitted <- tx # "none",
       valid     <- verdict = "valid",
       holders   <- {p \in Peers : ledger[p] # "before"},
       answer    <- CASE hpc = "ok" -> "ok"
                      [] hpc = "failed" -> "error"
                      [] OTHER -> "none"

ImplementsSubmission == S!Spec
============================================================================
