------------------------- MODULE SubmitFirstProofs -------------------------
(***************************************************************************)
(* SubmitFirst, proved for every set of peers: its types, what a refusal   *)
(* means, that a success nobody reported has one of two causes, and that   *)
(* the whole implements FirstReport.                                       *)
(*                                                                         *)
(* Only the last needs NoStaleMatch: commits and initialisations have ids  *)
(* of their own, which no block holds before they are ordered.             *)
(***************************************************************************)
EXTENDS SubmitFirst, TLAPS

(***************************************************************************)
(* The inductive invariant                                                 *)
(***************************************************************************)

Seen == \E p \in Peers : code[p] = "valid"
Bad  == \E p \in Peers : code[p] \in {"invalid", "ioError"}

(* A goroutine that has returned has its code, unless the pool was closed. *)
CodesFit ==
  \A p \in Peers :
    /\ p \in todo => wpc[p] = "idle"
    /\ code[p] = "invalid" => verdict = "invalid"
    /\ code[p] # "none" => wpc[p] \in {"report", "done"}
    /\ wpc[p] = "report" \/ (wpc[p] = "done" /\ pool = "open") => code[p] # "none"

(* A code in a variable is one that a peer's stream gave.                  *)
ValuesFit ==
  /\ held \in {"invalid", "minusOne"} => Bad
  /\ kept \in {"invalid", "minusOne"} => Bad
  /\ txCode \in {"invalid", "minusOne"} => Bad
  /\ held = "valid" => Seen

(* A bad code that was sent is still there unless a good one came.         *)
SentIsKept ==
  (\E p \in Peers : wpc[p] = "done" /\ code[p] \in {"invalid", "ioError"}) /\ ~Seen =>
    held # "none" \/ kept # "valid"

HandlerFits ==
  /\ spc \in {"offer", "deliver", "end"} => \A p \in Peers : wpc[p] = "done"
  /\ ~Answered => pool = "open"
  /\ hpc = "ok" => spc = "end" /\ txCode = "valid" /\ \A p \in Peers : code[p] # "none"
  /\ hpc = "refused" => Bad

(* An initialisation's handler is told of the code, and has sent what it   *)
(* waits for: nobody else assigns its err.                                 *)
InitFits ==
  kind = "init" =>
    /\ spc # "offer" /\ (spc = "deliver" => (sent = "nil" <=> txCode = "valid"))
    /\ hpc = "sending" => tx # "none"
    /\ hpc = "sendChecked" /\ err = "nil" => tx # "none"
    /\ hpc \in {"waitRes", "ok", "refused"} => tx # "none"

Core == TypeOK /\ CodesFit /\ ValuesFit /\ SentIsKept /\ HandlerFits

Inv == Core /\ InitFits

LEMMA InitInv == Init => Inv
<1> SUFFICES ASSUME Init PROVE Inv
  OBVIOUS
<1>1. ready \in BOOLEAN /\ crashed \in BOOLEAN
  BY Zenon DEF Init, DeliverInit
<1>2. TypeOK
  BY <1>1 DEF Init, DeliverInit, TypeOK, DeliverTypeOK, CodeValues, Verdicts
<1>3. CodesFit /\ ValuesFit /\ SentIsKept /\ HandlerFits
  BY DEF Init, DeliverInit, CodesFit, ValuesFit, SentIsKept, HandlerFits, Answered, Answers
<1>4. InitFits
  BY DEF Init, InitFits
<1> QED BY <1>2, <1>3, <1>4 DEF Inv, Core

(* The network sees nothing of the codes. *)
LEMMA NetworkInv ==
  ASSUME Inv, NetworkStep, UNCHANGED own
  PROVE  Core'
<1>1. UNCHANGED <<verdict, wpc, code, process, own>>
  BY DEF NetworkStep, Order, Commit, Bury, ServeSeek, chain, waiters
<1>2. TypeOK'
  <2> USE DEF Inv, Core, TypeOK, DeliverTypeOK, own, values, chain, waiters, process
  <2>1. CASE Order
    BY <2>1 DEF Order
  <2>2. ASSUME NEW p \in Peers, Commit(p) \/ Bury(p) PROVE TypeOK'
    BY <2>2 DEF Commit, Bury
  <2>3. ASSUME NEW p \in Peers, ServeSeek(p) PROVE TypeOK'
    BY <2>3 DEF ServeSeek, ViewFrom
  <2> QED BY <2>1, <2>2, <2>3 DEF NetworkStep
<1> QED BY <1>1, <1>2 DEF Inv, Core, CodesFit, ValuesFit, SentIsKept, HandlerFits, Seen, Bad, Answered, own, values, process

(* A waiter returns with a code, or goes on to the next operation. *)
LEMMA WaiterInv ==
  ASSUME Inv, NEW q \in Peers, WaiterStep(q), UNCHANGED own
  PROVE  Core'
<1>1. TypeOK'
  <2> USE DEF Inv, Core, TypeOK, DeliverTypeOK, own, values, chain, Verdicts, Codes, Errors, At, Moves, Returns
  <2>1. CASE OpenStream(q)
    BY <2>1 DEF OpenStream
  <2>2. CASE OpenFails(q) \/ SendFails(q)
    BY <2>2 DEF OpenFails, SendFails
  <2>3. CASE SendSeek(q)
    BY <2>3 DEF SendSeek
  <2>4. CASE CheckReady(q)
    BY <2>4 DEF CheckReady
  <2>5. CASE CloseReady(q)
    BY <2>5 DEF CloseReady
  <2>6. CASE Receive(q)
    BY <2>6 DEF Receive, Shows
  <2>7. CASE RecvFails(q) \/ RecvCancelled(q)
    BY <2>7 DEF RecvFails, RecvCancelled
  <2> QED BY <2>1, <2>2, <2>3, <2>4, <2>5, <2>6, <2>7 DEF WaiterStep
<1>2. /\ UNCHANGED <<verdict, pool, own>>
      /\ wpc[q] \in {"open", "seek", "check", "close", "recv"}
      /\ \/ wpc' = [wpc EXCEPT ![q] = "report"] /\
            \E c \in Codes : code' = [code EXCEPT ![q] = c] /\ (c = "invalid" => verdict = "invalid")
         \/ /\ \E n \in {"seek", "check", "close", "recv"} : wpc' = [wpc EXCEPT ![q] = n]
            /\ UNCHANGED code
  <2> USE DEF At, Moves, Returns, chain
  <2>1. CASE OpenStream(q) \/ SendSeek(q)
    BY <2>1 DEF OpenStream, SendSeek
  <2>2. CASE CheckReady(q) \/ CloseReady(q)
    BY <2>2 DEF CheckReady, CloseReady
  <2>3. CASE (OpenFails(q) \/ SendFails(q)) \/ (RecvFails(q) \/ RecvCancelled(q))
    BY <2>3 DEF OpenFails, SendFails, RecvFails, RecvCancelled, Codes, Errors
  <2>4. CASE Receive(q)
    <3>1. PICK c \in Shows(q) : Returns(q, c) /\ wpc[q] = "recv"
      BY <2>4 DEF Receive
    <3>2. c \in {verdict, "valid"}
      BY <3>1 DEF Shows
    <3>3. c \in Codes /\ (c = "invalid" => verdict = "invalid")
      BY <3>2 DEF Codes, Verdicts, Inv, Core, TypeOK, DeliverTypeOK
    <3> QED BY <3>1, <3>3
  <2> QED BY <2>1, <2>2, <2>3, <2>4 DEF WaiterStep
<1>3. wpc \in [Peers -> {"idle", "open", "seek", "check", "close", "recv", "report", "done"}]
      /\ code \in [Peers -> Codes \cup {"none"}]
  BY DEF Inv, Core, TypeOK, DeliverTypeOK
<1>4. code[q] = "none"
  BY <1>2 DEF Inv, Core, CodesFit
<1>5. /\ \A p \in Peers \ {q} : wpc'[p] = wpc[p] /\ code'[p] = code[p]
      /\ wpc[q] # "done" /\ wpc'[q] # "done"
  BY <1>2, <1>3
<1>6. CodesFit'
  <2>1. /\ code'[q] = "invalid" => verdict = "invalid"
        /\ code'[q] # "none" => wpc'[q] = "report"
        /\ wpc'[q] # "done" /\ (wpc'[q] = "report" => code'[q] # "none")
        /\ q \notin todo
    BY <1>2, <1>3, <1>4 DEF Codes, Verdicts, Errors, Inv, Core, CodesFit
  <2> QED BY <1>2, <1>5, <2>1 DEF Inv, Core, CodesFit, own
<1>7. (Bad => Bad') /\ (Seen => Seen') /\ \A p \in Peers : code[p] # "none" => code'[p] # "none"
  BY <1>2, <1>4, <1>5 DEF Bad, Seen
<1>8. ValuesFit' /\ HandlerFits'
  BY <1>2, <1>5, <1>7 DEF Inv, Core, ValuesFit, HandlerFits, Answered, own, values
<1>9. SentIsKept'
  BY <1>2, <1>5, <1>7 DEF Inv, Core, SentIsKept, own, values
<1> QED BY <1>1, <1>6, <1>8, <1>9 DEF Inv, Core

(* Steps of the subscriber and the collector. *)
LEMMA StartInv ==
  ASSUME Inv, NEW q \in Peers, StartWaiter(q)
  PROVE  Core'
<1> USE DEF Inv, Core
<1>1. /\ UNCHANGED <<verdict, code, pool, hpc, spc, held, kept, txCode>> /\ spc = "loop"
      /\ q \in todo /\ todo' = todo \ {q}
      /\ wpc' = [wpc EXCEPT ![q] = IF pool = "open" THEN "open" ELSE "done"]
  BY DEF StartWaiter, SubscriberAt, chain, process, values
<1>2. TypeOK'
  BY DEF StartWaiter, SubscriberAt, chain, process, values, TypeOK, DeliverTypeOK
<1>3. \A p \in Peers : wpc'[p] = IF p = q THEN (IF pool = "open" THEN "open" ELSE "done") ELSE wpc[p]
  BY <1>1 DEF TypeOK, DeliverTypeOK
<1>4. wpc[q] = "idle" /\ code[q] = "none"
  BY <1>1 DEF CodesFit
<1>5. CodesFit'
  BY <1>1, <1>3, <1>4 DEF CodesFit
<1>6. SentIsKept'
  BY <1>1, <1>3, <1>4 DEF SentIsKept, Seen
<1>7. ValuesFit' /\ HandlerFits'
  BY <1>1 DEF ValuesFit, HandlerFits, Bad, Seen, Answered
<1> QED BY <1>2, <1>5, <1>6, <1>7

(* A waiter ends: its code goes to the collector, or is withheld because   *)
(* it is an error with a gRPC status.                                      *)
LEMMA EndsInv ==
  ASSUME Inv, NEW q \in Peers, Deliver(q) \/ Withdraw(q)
  PROVE  Core'
<1> USE DEF Inv, Core
<1>1. /\ UNCHANGED <<verdict, code, pool, hpc, spc, todo, kept, txCode>>
      /\ wpc[q] = "report" /\ wpc' = [wpc EXCEPT ![q] = "done"]
      /\ \/ spc = "wait" /\ held' = Stored(code[q]) /\ code[q] # "statusError"
         \/ code[q] = "statusError" /\ UNCHANGED held
  BY DEF Deliver, Withdraw, Ends, At, chain, values
<1>2. /\ wpc \in [Peers -> {"idle", "open", "seek", "check", "close", "recv", "report", "done"}]
      /\ code \in [Peers -> Codes \cup {"none"}] /\ verdict \in Verdicts
  BY DEF TypeOK, DeliverTypeOK
<1>3. \A p \in Peers : wpc'[p] = IF p = q THEN "done" ELSE wpc[p]
  BY <1>1, <1>2
<1>4. CodesFit'
  BY <1>1, <1>3 DEF CodesFit
<1>5. (Bad <=> Bad') /\ (Seen <=> Seen')
  BY <1>1 DEF Bad, Seen
<1>6. code[q] # "none"
  BY <1>1 DEF CodesFit
<1>7. CASE code[q] = "statusError" /\ UNCHANGED held
  <2>1. ValuesFit' /\ HandlerFits'
    BY <1>1, <1>3, <1>5, <1>7 DEF ValuesFit, HandlerFits, Answered
  <2>2. SentIsKept'
    BY <1>1, <1>3, <1>5, <1>7 DEF SentIsKept
  <2>3. TypeOK'
    BY <1>1, <1>2, <1>7 DEF Deliver, Withdraw, Ends, At, chain, values, TypeOK, DeliverTypeOK
  <2> QED BY <1>4, <2>1, <2>2, <2>3
<1>8. CASE spc = "wait" /\ held' = Stored(code[q]) /\ code[q] # "statusError"
  <2>1. \/ code[q] \in {"valid", "invalid"} /\ held' = code[q]
        \/ code[q] = "ioError" /\ held' = "minusOne"
    BY <1>2, <1>6, <1>8 DEF Stored, Codes, Errors, Verdicts
  <2>2. held' \in CodeValues /\ held' # "none"
    BY <2>1 DEF CodeValues, Verdicts
  <2>3. (held' \in {"invalid", "minusOne"} => Bad) /\ (held' = "valid" => Seen)
    BY <2>1 DEF CodesFit, Bad, Seen
  <2>4. ValuesFit' /\ HandlerFits'
    BY <1>1, <1>5, <1>8, <2>3 DEF ValuesFit, HandlerFits, Answered
  <2>5. SentIsKept'
    BY <2>2 DEF SentIsKept
  <2>6. TypeOK'
    BY <1>1, <1>2, <2>2 DEF Deliver, Withdraw, Ends, At, chain, values, TypeOK, DeliverTypeOK
  <2> QED BY <1>4, <2>4, <2>5, <2>6
<1> QED BY <1>1, <1>7, <1>8

LEMMA SubscriberInv ==
  ASSUME Inv, SubscriberStep
  PROVE  Core'
<1> USE DEF Inv, Core
<1>1. CASE AllStarted
  <2>1. UNCHANGED <<chain, waiters, process, hctx, hpc, todo, held, values>> /\ spc' = "wait"
    BY <1>1 DEF AllStarted
  <2>2. TypeOK'
    BY <2>1 DEF TypeOK, DeliverTypeOK, chain, waiters, process, values
  <2> QED BY <1>1, <2>1, <2>2 DEF AllStarted, SubscriberAt, CodesFit, ValuesFit, SentIsKept, HandlerFits,
            Bad, Seen, Answered, chain, waiters, process, values
<1>2. CASE Keep
  <2>1. /\ UNCHANGED <<chain, waiters, process, hctx, hpc, spc, todo, txCode, err, sent, kind>>
        /\ kept' = held /\ held # "none" /\ held' = "none"
    BY <1>2 DEF Keep
  <2>2. TypeOK'
    BY <2>1 DEF TypeOK, DeliverTypeOK, chain, waiters, process
  <2>3. CodesFit' /\ HandlerFits' /\ ValuesFit'
    BY <2>1 DEF CodesFit, HandlerFits, ValuesFit, Bad, Seen, Answered, chain, waiters, process
  <2>4. SentIsKept'
    BY <2>1 DEF SentIsKept, ValuesFit, Seen, chain, waiters
  <2> QED BY <2>2, <2>3, <2>4
<1>3. CASE Return \/ ReturnChecked
  <2>1. /\ UNCHANGED <<chain, waiters, process, hctx, hpc, todo, held, kept, kind>>
        /\ spc = "wait" /\ \A p \in Peers : wpc[p] = "done"
        /\ spc' \in {"offer", "deliver"} /\ txCode' = kept
        /\ err' \in {"nil", err} /\ sent' \in {"nil", "error", sent}
    BY <1>3 DEF Return, ReturnChecked, SubscriberAt
  <2>2. TypeOK'
    BY <2>1 DEF TypeOK, DeliverTypeOK, chain, waiters, process
  <2> QED BY <2>1, <2>2 DEF CodesFit, HandlerFits, ValuesFit, SentIsKept, Bad, Seen, Answered, chain, waiters, process
<1>4. CASE Offer \/ Abandon
  <2>1. /\ UNCHANGED <<chain, waiters, process, hctx, hpc, todo, held, kept, txCode, err, kind>>
        /\ spc \in {"offer", "deliver"} /\ spc' \in {"deliver", "end"} /\ sent' \in {err, sent}
    BY <1>4 DEF Offer, Abandon, SubscriberAt, values
  <2>2. TypeOK'
    BY <2>1 DEF TypeOK, DeliverTypeOK, chain, waiters, process
  <2> QED BY <2>1, <2>2 DEF CodesFit, HandlerFits, ValuesFit, SentIsKept, Bad, Seen, Answered, chain, waiters, process
<1> QED BY <1>1, <1>2, <1>3, <1>4, StartInv, EndsInv DEF SubscriberStep

(* What the handler says when it takes the result. *)
LEMMA AnswerIs ==
  ASSUME Inv, TakeResult
  PROVE  \/ hpc' = "failed"
         \/ hpc' = "refused" /\ txCode # "valid"
         \/ hpc' = "ok" /\ txCode = "valid" /\ (kind = "init" => tx # "none")
<1>1. spc = "deliver" /\ hpc = "waitRes" /\ hpc' = Answer
  BY DEF TakeResult, HandlerAt, HandlerTo
<1>2. kind \in {"commit", "init"} /\ sent \in {"nil", "error"}
  BY DEF Inv, Core, TypeOK
<1>3. kind = "init" => (sent = "nil" <=> txCode = "valid") /\ tx # "none"
  BY <1>1 DEF Inv, InitFits
<1>4. CASE kind = "init"
  BY <1>1, <1>2, <1>3, <1>4 DEF Answer
<1>5. CASE kind = "commit"
  BY <1>1, <1>2, <1>5 DEF Answer
<1> QED BY <1>2, <1>4, <1>5

(* Steps of the handler; an answer ends it, and finds the pool open.       *)
LEMMA HandlerInv ==
  ASSUME Inv, HandlerStep
  PROVE  Core'
<1> USE DEF Inv, Core
<1>1. /\ UNCHANGED <<verdict, ledger, waiters, process, hctx, todo, held, kept, txCode, sent, kind>>
      /\ tx' \in {tx, "sent"} /\ err' \in {"nil", "error"}
      /\ hpc \in {"waitReady", "send", "sending", "sendChecked", "waitRes"}
  BY DEF HandlerStep, SeeReady, Send, SendNothing, SendReturns, CheckSend, TakeResult, GiveUp,
         HandlerAt, HandlerTo, TypeOK
<1>2. \/ UNCHANGED spc /\ hpc' \in {"send", "sending", "sendChecked", "waitRes", "failed"}
      \/ /\ spc = "deliver" /\ spc' = "end"
         /\ hpc' \in {"failed", "refused", "ok"}
         /\ hpc' = "refused" => txCode # "valid"
         /\ hpc' = "ok" => txCode = "valid"
  <2>1. CASE TakeResult
    BY <2>1, AnswerIs DEF TakeResult
  <2> QED
    BY <2>1 DEF HandlerStep, SeeReady, Send, SendNothing, SendReturns, CheckSend, GiveUp,
         HandlerAt, HandlerTo
<1>3. TypeOK'
  BY <1>1, <1>2 DEF TypeOK, DeliverTypeOK, waiters, process, Answers
<1>4. CodesFit' /\ ValuesFit' /\ SentIsKept'
  BY <1>1 DEF CodesFit, ValuesFit, SentIsKept, Bad, Seen, waiters, process
<1>5. HandlerFits'
  <2>1. pool = "open"
    BY <1>1 DEF HandlerFits, Answered, Answers
  <2>2. txCode # "valid" => Bad
    BY DEF ValuesFit, TypeOK, CodeValues, Verdicts
  <2>3. spc \in {"offer", "deliver", "end"} => \A p \in Peers : wpc[p] = "done" /\ code[p] # "none"
    BY <2>1 DEF HandlerFits, CodesFit
  <2> QED BY <1>1, <1>2, <2>1, <2>2, <2>3 DEF HandlerFits, Answered, Answers, Bad, waiters, process
<1> QED BY <1>3, <1>4, <1>5

(* The end of the context and of the pool. *)
LEMMA ServerInv ==
  ASSUME Inv, (CallerCancels \/ ServerCancels) \/ ClosePool
  PROVE  Core'
<1> USE DEF Inv, Core
<1>1. /\ UNCHANGED <<tx, verdict, ledger, stream, wpc, code, ready, crashed, hpc, spc, todo, held, kept, txCode, err, sent, kind>>
      /\ hctx' \in {hctx, "cancelled"} /\ sctx' \in {sctx, "cancelled"}
      /\ pool' = pool \/ (pool' = "closed" /\ Answered)
  BY DEF CallerCancels, ServerCancels, CancelContext, ClosePool, chain, waiters, own, values
<1>2. TypeOK'
  BY <1>1 DEF TypeOK, DeliverTypeOK
<1> QED BY <1>1, <1>2 DEF CodesFit, ValuesFit, SentIsKept, HandlerFits, Bad, Seen, Answered

LEMMA CoreNext ==
  ASSUME Inv, [Next]_vars
  PROVE  Core'
<1>1. CASE UNCHANGED vars
  BY <1>1 DEF vars, own, values, chain, waiters, process, Inv, Core, TypeOK, DeliverTypeOK,
       CodesFit, ValuesFit, SentIsKept, HandlerFits, Bad, Seen, Answered
<1> QED BY <1>1, NetworkInv, WaiterInv, SubscriberInv, HandlerInv, ServerInv DEF Next

(* What an initialisation's handler waits for has been sent: no step takes *)
(* that back, and only the handler assigns its err.                        *)
LEMMA InitFitsNext ==
  ASSUME Inv, [Next]_vars
  PROVE  InitFits'
<1> USE DEF Inv, InitFits
<1>1. CASE HandlerStep
  <2> USE DEF HandlerAt, HandlerTo
  <2>1. CASE SeeReady \/ Send \/ SendNothing \/ SendReturns
    BY <2>1 DEF SeeReady, Send, SendNothing, SendReturns
  <2>2. CASE CheckSend \/ TakeResult \/ GiveUp
    BY <2>2 DEF CheckSend, TakeResult, GiveUp, Answer
  <2> QED BY <1>1, <2>1, <2>2 DEF HandlerStep
<1>2. CASE SubscriberStep
  <2>1. CASE Return \/ ReturnChecked
    BY <2>1 DEF Return, ReturnChecked, chain
  <2>2. CASE Offer
    BY <2>2 DEF Offer, SubscriberAt, chain
  <2>3. ASSUME NEW p \in Peers, (StartWaiter(p) \/ Deliver(p)) \/ Withdraw(p)
        PROVE  InitFits'
    BY <2>3 DEF StartWaiter, Deliver, Withdraw, Ends, chain, values
  <2>4. CASE AllStarted \/ Keep \/ Abandon
    BY <2>4 DEF AllStarted, Keep, Abandon, chain, values
  <2> QED BY <1>2, <2>1, <2>2, <2>3, <2>4 DEF SubscriberStep
<1>3. ASSUME UNCHANGED own, tx' = tx \/ tx' = "ordered"
      PROVE  InitFits'
  BY <1>3 DEF own, values
<1>4. ASSUME NEW p \in Peers, WaiterStep(p)
      PROVE  tx' = tx
  BY <1>4 DEF WaiterStep, OpenStream, OpenFails, SendSeek, SendFails, CheckReady, CloseReady,
    Receive, RecvFails, RecvCancelled, Moves, Returns, chain
<1>5. ASSUME NetworkStep
      PROVE  tx' = tx \/ tx' = "ordered"
  BY <1>5 DEF NetworkStep, Order, Commit, Bury, ServeSeek, chain
<1>6. CASE (CallerCancels \/ ServerCancels) \/ ClosePool
  BY <1>6 DEF CallerCancels, ServerCancels, CancelContext, ClosePool, chain, own, values
<1>7. CASE UNCHANGED vars
  BY <1>3, <1>7 DEF vars, chain
<1> QED BY <1>1, <1>2, <1>3, <1>4, <1>5, <1>6, <1>7 DEF Next

LEMMA NextInv == Inv /\ [Next]_vars => Inv'
BY CoreNext, InitFitsNext DEF Inv

(* When all have returned and the code handed on is VALID, a peer said so, *)
(* or an error was swallowed, or a code has not been stored yet.           *)
LEMMA Causes ==
  ASSUME Inv, txCode = "valid", \A p \in Peers : wpc[p] = "done" /\ code[p] # "none"
  PROVE  Seen \/ SwallowedError \/ UnkeptCode
<1> SUFFICES ASSUME ~Seen, ~SwallowedError, ~UnkeptCode
             PROVE  FALSE
  OBVIOUS
<1>1. PICK p \in Peers : TRUE
  BY PeersAssumption
<1>2. code[p] \in {"invalid", "ioError"}
  BY DEF Inv, Core, TypeOK, DeliverTypeOK, Codes, Verdicts, Errors, Seen, SwallowedError
<1>3. held = "none" /\ kept = "valid"
  BY DEF UnkeptCode
<1> QED BY <1>2, <1>3 DEF Inv, Core, SentIsKept

(***************************************************************************)
(* The theorems                                                            *)
(***************************************************************************)

(* The channels, contexts, shared variables and goroutines of the request  *)
(* are always in one of the states the model gives them (SubscribeTx,      *)
(* waitFirst, commit).                                                     *)
THEOREM TypeCorrect == Spec => []TypeOK
<1>1. Inv => TypeOK
  BY DEF Inv, Core
<1> QED BY InitInv, NextInv, <1>1, PTL DEF Spec

(* A request is refused for its code only when validation refused the      *)
(* transaction or some peer's stream broke: whatever the number of peers   *)
(* and the order in which their goroutines end, the streams that the first *)
(* answer cancels never turn into a refusal (waitFirst, SubscribeTx).      *)
THEOREM RefusalsAreReported == Spec => []RefusalIsReported
<1>1. Inv => RefusalIsReported
  BY DEF Inv, Core, HandlerFits, CodesFit, Bad, RefusalIsReported
<1> QED BY InitInv, NextInv, <1>1, PTL DEF Spec

(* A success that no peer reported is due to a swallowed error or to a     *)
(* code the collector had not yet stored; with any number of peers there   *)
(* is no third way (SubscribeTx, waitFirst).                               *)
THEOREM NoThirdCause == Spec => []UnreportedOnlyIf
<1>1. Inv => UnreportedOnlyIf
  BY Causes DEF Inv, Core, InitFits, HandlerFits, UnreportedOnlyIf, Seen
<1> QED BY InitInv, NextInv, <1>1, PTL DEF Spec

(***************************************************************************)
(* SubmitFirst implements FirstReport                                      *)
(***************************************************************************)

NoStaleMatch == Stale = {}

(* Until it broadcasts, the request has sent nothing, and only a stale     *)
(* peer's stream shows a code before the transaction is ordered.           *)
SentOnce == hpc \in {"waitReady", "send"} => tx = "none"
StaleFits == \A p \in Peers : stream[p] = "stale" => p \in Stale

Inv2 == Inv /\ SentOnce /\ StaleFits

LEMMA InitInv2 == Init => Inv2
BY InitInv DEF Init, DeliverInit, Inv2, SentOnce, StaleFits

(* The streams that a waiter's step leaves alone. *)
LEMMA WaiterLeaves ==
  ASSUME NEW q \in Peers, WaiterStep(q)
  PROVE  UNCHANGED chain /\ (UNCHANGED stream \/ stream' = [stream EXCEPT ![q] = "seeking"])
BY DEF WaiterStep, OpenStream, OpenFails, SendSeek, SendFails, CheckReady, CloseReady,
  Receive, RecvFails, RecvCancelled, Moves, Returns

LEMMA SubscriberLeaves ==
  ASSUME SubscriberStep
  PROVE  UNCHANGED <<chain, stream, code, hpc, kind>>
BY DEF SubscriberStep, StartWaiter, AllStarted, Deliver, Withdraw, Ends, Keep, Return,
  ReturnChecked, Offer, Abandon, waiters, values

LEMMA ServerLeaves ==
  ASSUME (CallerCancels \/ ServerCancels) \/ ClosePool
  PROVE  UNCHANGED <<chain, stream, code, hpc, held, kept, txCode, kind>>
BY DEF CallerCancels, ServerCancels, CancelContext, ClosePool, waiters, own, values

LEMMA NextInv2 == Inv2 /\ [Next]_vars => Inv2'
<1> SUFFICES ASSUME Inv2, [Next]_vars
             PROVE  SentOnce' /\ StaleFits'
  BY NextInv DEF Inv2
<1> USE DEF Inv2, SentOnce, StaleFits
<1>1. CASE HandlerStep
  <2>1. CASE TakeResult
    BY <2>1, AnswerIs DEF TakeResult, HandlerAt, HandlerTo, waiters
  <2> QED BY <1>1, <2>1 DEF HandlerStep, SeeReady, Send, SendNothing, SendReturns, CheckSend, GiveUp,
            HandlerAt, HandlerTo, waiters
<1>2. CASE SubscriberStep
  BY <1>2, SubscriberLeaves DEF chain
<1>3. ASSUME NEW q \in Peers, WaiterStep(q), UNCHANGED own
      PROVE  SentOnce' /\ StaleFits'
  BY <1>3, WaiterLeaves DEF chain, own, Inv, Core, TypeOK, DeliverTypeOK
<1>4. CASE NetworkStep /\ UNCHANGED own
  <2>1. ASSUME NEW q \in Peers, ServeSeek(q)
        PROVE  SentOnce' /\ StaleFits'
    BY <1>4, <2>1 DEF ServeSeek, ViewFrom, own, chain, Inv, Core, TypeOK, DeliverTypeOK
  <2>2. ASSUME NEW q \in Peers, Commit(q) \/ Bury(q)
        PROVE  SentOnce' /\ StaleFits'
    BY <1>4, <2>2 DEF Commit, Bury, own, waiters
  <2>3. CASE Order
    BY <1>4, <2>3 DEF Order, own, waiters
  <2> QED BY <1>4, <2>1, <2>2, <2>3 DEF NetworkStep
<1>5. CASE (CallerCancels \/ ServerCancels) \/ ClosePool
  BY <1>5, ServerLeaves DEF chain
<1>6. CASE UNCHANGED vars
  BY <1>6 DEF vars, chain, waiters, own
<1> QED BY <1>1, <1>2, <1>3, <1>4, <1>5, <1>6 DEF Next

(* A step that changes none of what FirstReport sees is a stutter of it,   *)
(* and one that only moves a code towards the handler is a Deliver.        *)
LEMMA Delivers ==
  ASSUME Inv', UNCHANGED <<chain, code, hpc, kind>>
  PROVE  [First!Next]_First!vars
<1>1. UnkeptCode' => (Seen \/ Bad)'
  BY DEF UnkeptCode, Inv, Core, ValuesFit, TypeOK, CodeValues, Verdicts
<1>2. Seen' \/ Bad' => First!Reported({"valid", "invalid", "ioError"})
  BY DEF Seen, Bad, First!Reported
<1>3. UnkeptCode' \in BOOLEAN
  BY DEF UnkeptCode
<1>4. First!Deliver
  BY <1>1, <1>2, <1>3 DEF First!Deliver, chain, Answered
<1> QED BY <1>4 DEF First!Next

LEMMA NetworkReports ==
  ASSUME Inv2, Inv', NetworkStep, UNCHANGED own
  PROVE  [First!Next]_First!vars
<1> USE DEF own, values, waiters, process
<1>1. CASE Order
  BY <1>1 DEF Order, First!vars, UnkeptCode, Answered
<1>2. ASSUME NEW q \in Peers, Commit(q)
      PROVE  [First!Next]_First!vars
  <2>1. {p \in Peers : ledger'[p] # "before"} = {p \in Peers : ledger[p] # "before"} \cup {q}
    BY <1>2 DEF Commit, Inv2, Inv, Core, TypeOK, DeliverTypeOK
  <2>2. First!Land(q)
    BY <1>2, <2>1 DEF Commit, First!Land, UnkeptCode, Answered
  <2> QED BY <2>2 DEF First!Next
<1>3. ASSUME NEW q \in Peers, Bury(q)
      PROVE  [First!Next]_First!vars
  <2>1. {p \in Peers : ledger'[p] # "before"} = {p \in Peers : ledger[p] # "before"}
    BY <1>3 DEF Bury, Inv2, Inv, Core, TypeOK, DeliverTypeOK
  <2> QED BY <1>3, <2>1 DEF Bury, First!vars, UnkeptCode, Answered
<1>4. ASSUME NEW q \in Peers, ServeSeek(q)
      PROVE  [First!Next]_First!vars
  BY <1>4, Delivers DEF ServeSeek
<1> QED BY <1>1, <1>2, <1>3, <1>4 DEF NetworkStep

(* A goroutine that returns makes its peer's report. *)
LEMMA WaiterReports ==
  ASSUME NoStaleMatch, Inv2, Inv', NEW q \in Peers, WaiterStep(q), UNCHANGED own
  PROVE  [First!Next]_First!vars
<1> USE DEF own, values
<1>1. ASSUME NEW c \in {verdict, "ioError", "statusError"},
             c = verdict => ledger[q] # "before",
             Returns(q, c), wpc[q] \in {"open", "seek", "check", "close", "recv"}
      PROVE  [First!Next]_First!vars
  <2>1. code[q] = "none"
    BY <1>1 DEF Inv2, Inv, Core, CodesFit
  <2>2. First!Verdict = verdict
    BY DEF First!Verdict, Inv2, Inv, Core, TypeOK, DeliverTypeOK, Verdicts
  <2>3. First!Report(q)
    BY <1>1, <2>1, <2>2 DEF First!Report, Returns, Moves, chain, UnkeptCode, Answered
  <2> QED BY <2>3 DEF First!Next
<1>2. CASE (OpenFails(q) \/ SendFails(q)) \/ (RecvFails(q) \/ RecvCancelled(q))
  <2>1. \E c \in {"ioError", "statusError"} : Returns(q, c)
    BY <1>2 DEF OpenFails, SendFails, RecvFails, RecvCancelled, Errors
  <2>2. wpc[q] \in {"open", "seek", "recv"} /\ verdict \notin {"ioError", "statusError"}
    BY <1>2 DEF OpenFails, SendFails, RecvFails, RecvCancelled, At, Inv2, Inv, Core, TypeOK,
      DeliverTypeOK, Verdicts
  <2> QED BY <1>1, <2>1, <2>2
<1>3. CASE Receive(q)
  <2>1. PICK c \in Shows(q) : Returns(q, c)
    BY <1>3 DEF Receive
  <2>2. c = verdict /\ ledger[q] # "before"
    BY <2>1 DEF Shows, NoStaleMatch, Inv2, StaleFits
  <2> QED BY <1>1, <1>3, <2>1, <2>2 DEF Receive, At
<1>4. CASE (OpenStream(q) \/ SendSeek(q)) \/ (CheckReady(q) \/ CloseReady(q))
  BY <1>4, Delivers DEF OpenStream, SendSeek, CheckReady, CloseReady, Moves
<1> QED BY <1>2, <1>3, <1>4 DEF WaiterStep

(* The handler sends once, and its answer has its reason. *)
LEMMA HandlerReports ==
  ASSUME Inv2, HandlerStep
  PROVE  [First!Next]_First!vars
<1> USE DEF HandlerTo, HandlerAt, waiters
<1>1. CASE SeeReady \/ SendNothing \/ SendReturns
  BY <1>1 DEF SeeReady, SendNothing, SendReturns, First!vars, Answered, Answers, UnkeptCode
<1>2. CASE Send
  <2>1. First!Submit
    BY <1>2 DEF Send, First!Submit, Inv2, SentOnce, Answered, Answers, UnkeptCode
  <2> QED BY <2>1 DEF First!Next
<1>3. ASSUME ~Answered, hpc' = "failed", UNCHANGED <<tx, verdict, ledger, code, held, kept, txCode, kind>>
      PROVE  [First!Next]_First!vars
  BY <1>3 DEF First!Answer, First!Next, Answered, Answers, UnkeptCode
<1>4. CASE CheckSend
  BY <1>3, <1>4 DEF CheckSend, First!vars, Answered, Answers, UnkeptCode
<1>5. CASE GiveUp
  BY <1>3, <1>5 DEF GiveUp, Answered, Answers
<1>6. CASE TakeResult
  <2> USE DEF Inv2, Inv, Core
  <2>1. /\ UNCHANGED <<tx, verdict, ledger, code, held, kept, txCode, kind>>
        /\ hpc = "waitRes" /\ spc = "deliver" /\ hpc' = Answer /\ ~Answered
    BY <1>6 DEF TakeResult, Answered, Answers
  <2>2. \/ hpc' = "failed"
        \/ hpc' = "refused" /\ txCode # "valid"
        \/ hpc' = "ok" /\ txCode = "valid" /\ (kind = "init" => tx # "none")
    BY <1>6, AnswerIs
  <2>3. CASE hpc' = "refused" /\ txCode # "valid"
    <3>1. Bad
      BY <2>3 DEF ValuesFit, TypeOK, CodeValues, Verdicts
    <3>2. First!Answer
      BY <2>1, <2>3, <3>1 DEF First!Answer, First!Reported, Bad, Answered, Answers, UnkeptCode
    <3> QED BY <3>2 DEF First!Next
  <2>4. CASE hpc' = "ok" /\ txCode = "valid" /\ (kind = "init" => tx # "none")
    <3>1. \A p \in Peers : wpc[p] = "done" /\ code[p] # "none"
      BY <2>1 DEF HandlerFits, CodesFit
    <3>2. First!Reported({"valid", "statusError"}) \/ UnkeptCode
      BY <2>4, <3>1, Causes DEF First!Reported, Seen, SwallowedError
    <3>3. First!Answer
      BY <2>1, <2>4, <3>2 DEF First!Answer, Answered, Answers, UnkeptCode
    <3> QED BY <3>3 DEF First!Next
  <2> QED BY <1>3, <2>1, <2>2, <2>3, <2>4
<1> QED BY <1>1, <1>2, <1>4, <1>5, <1>6 DEF HandlerStep

(* Whatever the number of peers and the order in which their goroutines    *)
(* end: the envelope is handed over once and before any ledger has it, a   *)
(* refusal is some peer's word or a broken stream, a success is a peer's   *)
(* word, a withheld error or a code that was late, and an initialisation   *)
(* that succeeds was sent (SubscribeTx, waitFirst, commit,                 *)
(* initChaincode).                                                         *)
THEOREM RefinesFirstReport ==
  ASSUME NoStaleMatch
  PROVE  Spec => ImplementsFirstReport
<1>1. Init => First!Init
  BY DEF Init, DeliverInit, First!Init, Verdicts, Answered, Answers, UnkeptCode
<1>2. Inv2 /\ [Next]_vars => [First!Next]_First!vars
  <2> SUFFICES ASSUME Inv2, [Next]_vars
               PROVE  [First!Next]_First!vars
    OBVIOUS
  <2>0. Inv'
    BY NextInv DEF Inv2
  <2>1. CASE HandlerStep
    BY <2>1, HandlerReports
  <2>2. CASE SubscriberStep
    BY <2>0, <2>2, SubscriberLeaves, Delivers
  <2>3. ASSUME NEW q \in Peers, WaiterStep(q), UNCHANGED own
        PROVE  [First!Next]_First!vars
    BY <2>0, <2>3, WaiterReports
  <2>4. CASE NetworkStep /\ UNCHANGED own
    BY <2>0, <2>4, NetworkReports
  <2>5. CASE (CallerCancels \/ ServerCancels) \/ ClosePool
    BY <2>0, <2>5, ServerLeaves, Delivers
  <2>6. CASE UNCHANGED vars
    BY <2>0, <2>6, Delivers DEF vars, waiters, own, values
  <2> QED BY <2>1, <2>2, <2>3, <2>4, <2>5, <2>6 DEF Next
<1> QED BY <1>1, <1>2, InitInv2, NextInv2, PTL DEF Spec, ImplementsFirstReport, First!Spec
=============================================================================
