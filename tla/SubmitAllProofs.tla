-------------------------- MODULE SubmitAllProofs --------------------------
(***************************************************************************)
(* SubmitAll, proved for every set of peers: its types, the meaning of a   *)
(* success, that nothing is sent unwatched, and that it implements         *)
(* Submission.                                                             *)
(*                                                                         *)
(* The transactions here have ids of their own (NoStaleMatch): the empty   *)
(* id of a config update can match a block older than the update, and      *)
(* nothing of this holds for it.                                           *)
(***************************************************************************)
EXTENDS SubmitAll, TLAPS

NoStaleMatch == Stale = {}

(***************************************************************************)
(* Types                                                                   *)
(***************************************************************************)

(* The network's steps keep every variable in its type. *)
LEMMA NetworkType == TypeOK /\ NetworkStep /\ UNCHANGED own => TypeOK'
<1> SUFFICES ASSUME TypeOK, NetworkStep, UNCHANGED own
             PROVE  TypeOK'
  OBVIOUS
<1> USE DEF TypeOK, DeliverTypeOK, own, chain, waiters, process, Verdicts, Codes, Errors
<1>1. CASE Order
  BY <1>1 DEF Order
<1>2. ASSUME NEW p \in Peers, Commit(p)
      PROVE  TypeOK'
  BY <1>2 DEF Commit
<1>3. ASSUME NEW p \in Peers, Bury(p)
      PROVE  TypeOK'
  BY <1>3 DEF Bury
<1>4. ASSUME NEW p \in Peers, ServeSeek(p)
      PROVE  TypeOK'
  BY <1>4 DEF ServeSeek, ViewFrom
<1>5. QED
  BY <1>1, <1>2, <1>3, <1>4 DEF NetworkStep

(* A waiter's steps keep every variable in its type. *)
LEMMA WaiterType ==
  ASSUME TypeOK, NEW p \in Peers, WaiterStep(p), UNCHANGED own
  PROVE  TypeOK'
<1> USE DEF TypeOK, DeliverTypeOK, own, chain, Verdicts, Codes, Errors, At, Moves, Returns
<1>1. CASE OpenStream(p)
  BY <1>1 DEF OpenStream
<1>2. CASE OpenFails(p)
  BY <1>2 DEF OpenFails
<1>3. CASE SendSeek(p)
  BY <1>3 DEF SendSeek
<1>4. CASE SendFails(p)
  BY <1>4 DEF SendFails
<1>5. CASE CheckReady(p)
  BY <1>5 DEF CheckReady
<1>6. CASE CloseReady(p)
  BY <1>6 DEF CloseReady
<1>7. CASE Receive(p)
  BY <1>7 DEF Receive, Shows
<1>8. CASE RecvFails(p)
  BY <1>8 DEF RecvFails
<1>9. CASE RecvCancelled(p)
  BY <1>9 DEF RecvCancelled
<1>10. QED
  BY <1>1, <1>2, <1>3, <1>4, <1>5, <1>6, <1>7, <1>8, <1>9 DEF WaiterStep

(* The subscriber's steps keep every variable in its type. *)
LEMMA SubscriberType == TypeOK /\ SubscriberStep => TypeOK'
<1> SUFFICES ASSUME TypeOK, SubscriberStep
             PROVE  TypeOK'
  OBVIOUS
<1> USE DEF TypeOK, DeliverTypeOK, own, chain, waiters, process, Answers, SubscriberAt
<1>1. ASSUME NEW p \in Peers, StartWaiter(p)
      PROVE  TypeOK'
  BY <1>1 DEF StartWaiter
<1>2. ASSUME NEW p \in Peers, Collect(p)
      PROVE  TypeOK'
  BY <1>2 DEF Collect
<1>3. CASE AllStarted
  BY <1>3 DEF AllStarted
<1>4. CASE AllCollected
  BY <1>4 DEF AllCollected, Verdict
<1>5. CASE Abandon
  BY <1>5 DEF Abandon
<1>6. QED
  BY <1>1, <1>2, <1>3, <1>4, <1>5 DEF SubscriberStep

(* The handler's steps keep every variable in its type. *)
LEMMA HandlerType == TypeOK /\ HandlerStep => TypeOK'
<1> SUFFICES ASSUME TypeOK, HandlerStep
             PROVE  TypeOK'
  OBVIOUS
<1> USE DEF TypeOK, DeliverTypeOK, waiters, process, Answers, HandlerAt, HandlerTo
<1>1. CASE SeeReady
  BY <1>1 DEF SeeReady
<1>2. CASE SendNothing
  BY <1>2 DEF SendNothing
<1>3. CASE Send
  BY <1>3 DEF Send
<1>4. CASE SendOk
  BY <1>4 DEF SendOk
<1>5. CASE SendFailed
  BY <1>5 DEF SendFailed
<1>6. CASE TakeResult
  BY <1>6 DEF TakeResult
<1>7. CASE GiveUp
  BY <1>7 DEF GiveUp
<1>8. QED
  BY <1>1, <1>2, <1>3, <1>4, <1>5, <1>6, <1>7 DEF HandlerStep

(* So do the end of the context and of the pool. *)
LEMMA ServerType ==
  TypeOK /\ (CallerCancels \/ ServerCancels \/ ClosePool) => TypeOK'
  BY DEF TypeOK, DeliverTypeOK, own, chain, waiters, CallerCancels, ServerCancels,
         CancelContext, ClosePool

LEMMA InitType == Init => TypeOK
<1> SUFFICES ASSUME Init
             PROVE  TypeOK
  OBVIOUS
<1>1. ready \in BOOLEAN /\ crashed \in BOOLEAN
  BY Zenon DEF Init, DeliverInit
<1>2. QED
  BY <1>1 DEF Init, DeliverInit, TypeOK, DeliverTypeOK

(* Every variable stays in its type: the channels, contexts and goroutines of
   the request are in one of the states the model gives them.                *)
THEOREM TypeCorrect == Spec => []TypeOK
<1>1. Init => TypeOK
  BY InitType
<1>2. TypeOK /\ [Next]_vars => TypeOK'
  <2> SUFFICES ASSUME TypeOK, [Next]_vars
               PROVE  TypeOK'
    OBVIOUS
  <2>1. CASE UNCHANGED vars
    BY <2>1 DEF vars, own, chain, waiters, process, TypeOK, DeliverTypeOK
  <2>2. QED
    BY <2>1, NetworkType, WaiterType, SubscriberType, HandlerType, ServerType DEF Next
<1>3. QED
  BY <1>1, <1>2, PTL DEF Spec

(***************************************************************************)
(* The inductive invariant                                                 *)
(***************************************************************************)

(* A stream shows the awaited id only in the transaction's own block, and a
   ledger only gains blocks: the network keeps the invariant.                *)
LEMMA NetworkInv ==
  ASSUME NoStaleMatch, Inv, NetworkStep, UNCHANGED own
  PROVE  Inv'
<1>1. TypeOK'
  BY NetworkType DEF Inv
<1> USE DEF own, chain, waiters, process
<1>2. CASE Order
  BY <1>1, <1>2 DEF Order, Inv, CodesAreTrue, ResultIsUnanimous, AnswerIsResult, ReadyIsWatched, SentOnce
<1>3. ASSUME NEW q \in Peers, Commit(q) \/ Bury(q)
      PROVE  Inv'
  <2>1. UNCHANGED <<tx, verdict, stream, wpc, code, ready, hpc, spc, result>>
    BY <1>3 DEF Commit, Bury
  <2>2. \A p \in Peers : ledger[p] # "before" => ledger'[p] # "before"
    BY <1>3 DEF Commit, Bury, Inv, TypeOK, DeliverTypeOK
  <2>3. QED
    BY <1>1, <2>1, <2>2 DEF Inv, CodesAreTrue, ResultIsUnanimous, AnswerIsResult, ReadyIsWatched, SentOnce
<1>4. ASSUME NEW q \in Peers, ServeSeek(q)
      PROVE  Inv'
  <2>1. \A p \in Peers : stream'[p] # "stale"
    BY <1>4 DEF ServeSeek, ViewFrom, Inv, TypeOK, DeliverTypeOK, NoStaleMatch
  <2>2. \A p \in Peers : stream[p] # "none" => stream'[p] # "none"
    BY <1>4 DEF ServeSeek, ViewFrom, Inv, TypeOK, DeliverTypeOK
  <2>3. UNCHANGED <<tx, verdict, ledger, wpc, code, ready, hpc, spc, result>>
    BY <1>4 DEF ServeSeek
  <2>4. QED
    BY <1>1, <2>1, <2>2, <2>3 DEF Inv, CodesAreTrue, ResultIsUnanimous, AnswerIsResult, ReadyIsWatched, SentOnce
<1>5. QED
  BY <1>2, <1>3, <1>4 DEF NetworkStep

(* Whatever a waiter returns, the code "valid" comes from the block it saw.  *)
LEMMA ReturnInv ==
  ASSUME Inv, NEW q \in Peers, NEW c \in Codes, Returns(q, c), UNCHANGED own, TypeOK',
         wpc[q] \in {"open", "seek", "recv"},
         c = "valid" => verdict = "valid" /\ ledger[q] # "before"
  PROVE  Inv'
<1> USE DEF Returns, Moves, own, chain
<1>1. UNCHANGED <<tx, verdict, ledger, stream, ready, hpc, spc, result>>
  OBVIOUS
<1>2. /\ wpc' = [wpc EXCEPT ![q] = "report"]
      /\ code' = [code EXCEPT ![q] = c]
      /\ wpc \in [Peers -> {"idle", "open", "seek", "check", "close", "recv", "report", "done"}]
      /\ code \in [Peers -> Codes \cup {"none"}]
  BY DEF Inv, TypeOK, DeliverTypeOK
<1>3. CodesAreTrue'
  BY <1>1, <1>2 DEF Inv, CodesAreTrue
<1>4. ResultIsUnanimous'
  BY <1>1, <1>2 DEF Inv, ResultIsUnanimous
<1>5. AnswerIsResult' /\ ReadyIsWatched' /\ SentOnce'
  BY <1>1, <1>2 DEF Inv, AnswerIsResult, ReadyIsWatched, SentOnce
<1>6. QED
  BY <1>1, <1>3, <1>4, <1>5 DEF Inv

(* A step of the goroutine that keeps its code and does not end it. *)
LEMMA MoveInv ==
  ASSUME Inv, NEW q \in Peers, NEW next \in {"seek", "check", "close", "recv"},
         Moves(q, next), UNCHANGED <<own, code>>, TypeOK',
         wpc[q] \in {"open", "seek", "check", "close"},
         \A p \in Peers : stream'[p] # "stale" /\ (stream[p] # "none" => stream'[p] # "none"),
         next # "seek" => stream'[q] # "none",
         ready' => ready \/ stream[q] # "none",
         ready => ready'
  PROVE  Inv'
<1> USE DEF Moves, own, chain
<1>1. UNCHANGED <<tx, verdict, ledger, code, hpc, spc, result>>
  OBVIOUS
<1>2. /\ wpc' = [wpc EXCEPT ![q] = next]
      /\ wpc \in [Peers -> {"idle", "open", "seek", "check", "close", "recv", "report", "done"}]
  BY DEF Inv, TypeOK, DeliverTypeOK
<1>3. CodesAreTrue' /\ AnswerIsResult' /\ SentOnce'
  BY <1>1 DEF Inv, CodesAreTrue, AnswerIsResult, SentOnce
<1>4. ResultIsUnanimous'
  BY <1>1, <1>2 DEF Inv, ResultIsUnanimous
<1>5. ReadyIsWatched'
  BY <1>1, <1>2 DEF Inv, ReadyIsWatched
<1>6. QED
  BY <1>3, <1>4, <1>5 DEF Inv

(* A waiter's steps keep the invariant. *)
LEMMA WaiterInv ==
  ASSUME Inv, NEW q \in Peers, WaiterStep(q), UNCHANGED own
  PROVE  Inv'
<1>1. TypeOK'
  BY WaiterType DEF Inv
<1> USE <1>1 DEF At, Codes, Verdicts, Errors
<1>2. CASE OpenStream(q)
  BY <1>2, MoveInv DEF OpenStream, Inv
<1>3. CASE OpenFails(q)
  BY <1>3, ReturnInv DEF OpenFails
<1>4. CASE SendSeek(q)
  BY <1>4, MoveInv DEF SendSeek, Inv, TypeOK, DeliverTypeOK
<1>5. CASE SendFails(q)
  BY <1>5, ReturnInv DEF SendFails
<1>6. CASE CheckReady(q)
  BY <1>6, MoveInv DEF CheckReady, Inv, ReadyIsWatched, SentOnce
<1>7. CASE CloseReady(q)
  BY <1>7, MoveInv DEF CloseReady, Inv, ReadyIsWatched, SentOnce
<1>8. CASE Receive(q)
  <2>1. stream[q] = "live" /\ ledger[q] # "before" /\ Returns(q, verdict)
    BY <1>8 DEF Receive, Shows, Inv
  <2>2. verdict \in Codes
    BY DEF Inv, TypeOK, DeliverTypeOK
  <2>3. QED
    BY <1>8, <2>1, <2>2, ReturnInv DEF Receive, Shows
<1>9. CASE RecvFails(q)
  BY <1>9, ReturnInv DEF RecvFails
<1>10. CASE RecvCancelled(q)
  BY <1>10, ReturnInv DEF RecvCancelled
<1>11. QED
  BY <1>2, <1>3, <1>4, <1>5, <1>6, <1>7, <1>8, <1>9, <1>10 DEF WaiterStep

(* The subscriber returns nil only on codes that are all "valid". *)
LEMMA SubscriberInv ==
  ASSUME Inv, SubscriberStep
  PROVE  Inv'
<1>1. TypeOK'
  BY SubscriberType DEF Inv
<1> USE <1>1 DEF own, chain, waiters, process, SubscriberAt
<1>2. ASSUME NEW q \in Peers, StartWaiter(q)
      PROVE  Inv'
  <2>1. UNCHANGED <<tx, verdict, ledger, stream, code, ready, hpc>> /\ result' # "nil"
    BY <1>2 DEF StartWaiter, Inv, ResultIsUnanimous
  <2>2. \A p \in Peers : wpc'[p] \in {"check", "close", "recv"} => wpc[p] \in {"check", "close", "recv"}
    BY <1>2 DEF StartWaiter, Inv, TypeOK, DeliverTypeOK
  <2>3. hpc # "ok"
    BY <1>2 DEF StartWaiter, Inv, ResultIsUnanimous, AnswerIsResult
  <2>4. QED
    BY <2>1, <2>2, <2>3 DEF Inv, CodesAreTrue, ResultIsUnanimous, AnswerIsResult, ReadyIsWatched, SentOnce
<1>3. ASSUME NEW q \in Peers, Collect(q)
      PROVE  Inv'
  BY <1>3 DEF Collect, Inv, TypeOK, DeliverTypeOK, CodesAreTrue, ResultIsUnanimous, AnswerIsResult, ReadyIsWatched, SentOnce
<1>4. CASE AllStarted
  BY <1>4 DEF AllStarted, Inv, CodesAreTrue, ResultIsUnanimous, AnswerIsResult, ReadyIsWatched, SentOnce
<1>5. CASE AllCollected
  <2>1. result' = "nil" => \A p \in Peers : code[p] = "valid" /\ wpc[p] = "done"
    BY <1>5 DEF AllCollected, Verdict, Collected
  <2>2. hpc # "ok"
    BY <1>5 DEF AllCollected, Inv, ResultIsUnanimous, AnswerIsResult
  <2>3. QED
    BY <1>5, <2>1, <2>2 DEF AllCollected, Inv, CodesAreTrue, ResultIsUnanimous, AnswerIsResult, ReadyIsWatched, SentOnce
<1>6. CASE Abandon
  BY <1>6 DEF Abandon, Inv, CodesAreTrue, ResultIsUnanimous, AnswerIsResult, ReadyIsWatched, SentOnce
<1>7. QED
  BY <1>2, <1>3, <1>4, <1>5, <1>6 DEF SubscriberStep

(* The handler sends after ready and answers with the subscriber's result. *)
LEMMA HandlerInv ==
  ASSUME Inv, HandlerStep
  PROVE  Inv'
<1>1. TypeOK'
  BY HandlerType DEF Inv
<1>2. UNCHANGED <<verdict, ledger, stream, wpc, code, ready, result>>
  BY DEF HandlerStep, SeeReady, SendNothing, Send, SendOk, SendFailed, TakeResult, GiveUp,
         HandlerTo, waiters, process
<1>3. CodesAreTrue' /\ \A p \in Peers : stream'[p] # "stale"
  BY <1>2 DEF Inv, CodesAreTrue
<1>4. spc' = spc \/ spc' = "end"
  BY DEF HandlerStep, SeeReady, SendNothing, Send, SendOk, SendFailed, TakeResult, GiveUp
<1>5. ResultIsUnanimous'
  BY <1>2, <1>4 DEF Inv, ResultIsUnanimous
<1>6. hpc' = "ok" => result = "nil"
  BY DEF HandlerStep, SeeReady, SendNothing, Send, SendOk, SendFailed, TakeResult, GiveUp,
         HandlerTo
<1>7. hpc' = "send" \/ tx' # "none" => ready
  BY DEF HandlerStep, SeeReady, SendNothing, Send, SendOk, SendFailed, TakeResult, GiveUp,
         HandlerTo, HandlerAt, Inv, ReadyIsWatched
<1>8. ReadyIsWatched'
  BY <1>2, <1>7 DEF Inv, ReadyIsWatched
<1>9. SentOnce'
  BY DEF HandlerStep, SeeReady, SendNothing, Send, SendOk, SendFailed, TakeResult, GiveUp,
         HandlerTo, HandlerAt, Inv, SentOnce
<1>10. QED
  BY <1>1, <1>2, <1>3, <1>5, <1>6, <1>8, <1>9 DEF Inv, AnswerIsResult

(* The end of the context and of the pool touch nothing the invariant sees. *)
LEMMA ServerInv ==
  ASSUME Inv, CallerCancels \/ ServerCancels \/ ClosePool
  PROVE  Inv'
<1>1. TypeOK'
  BY ServerType DEF Inv
<1>2. UNCHANGED <<chain, waiters, ready, own>>
  BY DEF CallerCancels, ServerCancels, CancelContext, ClosePool
<1>3. QED
  BY <1>1, <1>2 DEF Inv, CodesAreTrue, ResultIsUnanimous, AnswerIsResult, ReadyIsWatched, SentOnce,
                    chain, waiters, own

(* The invariant holds at the start and every step keeps it. *)
LEMMA InvInductive ==
  ASSUME NoStaleMatch
  PROVE  (Init => Inv) /\ (Inv /\ [Next]_vars => Inv')
<1>1. Init => Inv
  <2> SUFFICES ASSUME Init
               PROVE  Inv
    OBVIOUS
  <2>1. TypeOK
    BY InitType
  <2>2. QED
    BY <2>1 DEF Init, DeliverInit, Inv, CodesAreTrue, ResultIsUnanimous, AnswerIsResult,
                ReadyIsWatched, SentOnce
<1>2. ASSUME Inv, [Next]_vars
      PROVE  Inv'
  <2>1. CASE UNCHANGED vars
    BY <1>2, <2>1 DEF vars, own, chain, waiters, process, Inv, TypeOK, DeliverTypeOK, CodesAreTrue,
                ResultIsUnanimous, AnswerIsResult, ReadyIsWatched, SentOnce
  <2>2. CASE HandlerStep
    BY <1>2, <2>2, HandlerInv
  <2>3. CASE SubscriberStep
    BY <1>2, <2>3, SubscriberInv
  <2>4. ASSUME NEW q \in Peers, WaiterStep(q), UNCHANGED own
        PROVE  Inv'
    BY <1>2, <2>4, WaiterInv
  <2>5. CASE NetworkStep /\ UNCHANGED own
    BY <1>2, <2>5, NetworkInv
  <2>6. CASE CallerCancels \/ ServerCancels \/ ClosePool
    BY <1>2, <2>6, ServerInv
  <2>7. QED
    BY <1>2, <2>1, <2>2, <2>3, <2>4, <2>5, <2>6 DEF Next
<1>3. QED
  BY <1>1, <1>2

(***************************************************************************)
(* What follows from it                                                    *)
(***************************************************************************)

THEOREM InvHolds ==
  ASSUME NoStaleMatch
  PROVE  Spec => []Inv
<1>1. Init => Inv
  BY InvInductive
<1>2. Inv /\ [Next]_vars => Inv'
  BY InvInductive
<1>3. QED
  BY <1>1, <1>2, PTL DEF Spec

(* A request is answered with success only when every peer of the
   organisation has reported its transaction valid and holds it: SubscribeTxAll
   loses no error of any stream on the way to the handler.                   *)
THEOREM SuccessProved ==
  ASSUME NoStaleMatch
  PROVE  Spec => []SuccessIsUnanimous
<1>1. Inv => SuccessIsUnanimous
  BY PeersAssumption DEF Inv, CodesAreTrue, ResultIsUnanimous, AnswerIsResult, SuccessIsUnanimous
<1>2. QED
  BY <1>1, InvHolds, PTL

(* The envelope leaves only after some peer's deliver stream was asked for
   its blocks.                                                               *)
THEOREM WatchedProved ==
  ASSUME NoStaleMatch
  PROVE  Spec => []WatchedBeforeSent
<1>1. Inv => WatchedBeforeSent
  BY DEF Inv, ReadyIsWatched, WatchedBeforeSent
<1>2. QED
  BY <1>1, InvHolds, PTL

(***************************************************************************)
(* SubmitAll implements Submission                                         *)
(***************************************************************************)

(* A step that changes none of what Submission sees is a stutter of it. *)
LEMMA Stutter ==
  ASSUME UNCHANGED <<hpc, verdict, ledger>>, (tx' # "none") = (tx # "none")
  PROVE  UNCHANGED S!vars
  BY DEF S!vars

LEMMA NetworkRefines ==
  ASSUME Inv, NetworkStep, UNCHANGED own
  PROVE  [S!Next]_S!vars
<1> USE DEF own, waiters, process
<1>1. CASE Order
  BY <1>1, Stutter DEF Order
<1>2. ASSUME NEW q \in Peers, Commit(q)
      PROVE  [S!Next]_S!vars
  <2>1. /\ tx # "none" /\ tx' = tx
        /\ {p \in Peers : ledger'[p] # "before"}
             = {p \in Peers : ledger[p] # "before"} \cup {q}
    BY <1>2 DEF Commit, Inv, TypeOK, DeliverTypeOK
  <2>2. S!Land(q)
    BY <1>2, <2>1 DEF Commit, S!Land
  <2>3. QED
    BY <2>2 DEF S!Next
<1>3. ASSUME NEW q \in Peers, Bury(q)
      PROVE  [S!Next]_S!vars
  <2>1. /\ tx' = tx /\ verdict' = verdict /\ hpc' = hpc
        /\ {p \in Peers : ledger'[p] # "before"} = {p \in Peers : ledger[p] # "before"}
    BY <1>3 DEF Bury, Inv, TypeOK, DeliverTypeOK
  <2>2. QED
    BY <2>1 DEF S!vars
<1>4. ASSUME NEW q \in Peers, ServeSeek(q)
      PROVE  [S!Next]_S!vars
  BY <1>4, Stutter DEF ServeSeek, chain
<1>5. QED
  BY <1>1, <1>2, <1>3, <1>4 DEF NetworkStep

LEMMA HandlerRefines ==
  ASSUME Inv, HandlerStep
  PROVE  [S!Next]_S!vars
<1> USE DEF HandlerTo, HandlerAt
<1>1. CASE SeeReady
  BY <1>1 DEF SeeReady, S!vars
<1>2. CASE Send
  <2>1. tx = "none"
    BY <1>2 DEF Send, Inv, SentOnce
  <2>2. S!Submit
    BY <1>2, <2>1 DEF Send, S!Submit
  <2>3. QED
    BY <2>2 DEF S!Next
<1>3. CASE SendOk
  BY <1>3 DEF SendOk, S!vars
<1>4. ASSUME hpc' = "failed", hpc \notin Answers, UNCHANGED <<tx, verdict, ledger>>
      PROVE  [S!Next]_S!vars
  BY <1>4 DEF S!AnswerError, S!Next, Answers
<1>5. CASE SendNothing \/ SendFailed \/ GiveUp
  BY <1>4, <1>5 DEF SendNothing, SendFailed, GiveUp, Answers
<1>6. CASE TakeResult
  <2>1. CASE result = "nil"
    <3>1. verdict = "valid" /\ \A p \in Peers : ledger[p] # "before"
      BY <2>1, PeersAssumption DEF Inv, ResultIsUnanimous, CodesAreTrue
    <3>2. S!AnswerOk
      BY <1>6, <2>1, <3>1 DEF TakeResult, S!AnswerOk
    <3>3. QED
      BY <3>2 DEF S!Next
  <2>2. CASE result # "nil"
    BY <1>4, <1>6, <2>2 DEF TakeResult, Answers
  <2>3. QED
    BY <2>1, <2>2
<1>7. QED
  BY <1>1, <1>2, <1>3, <1>5, <1>6 DEF HandlerStep

(* A request keeps the promise of Submission: its envelope is handed over
   once, and "ok" is only said of a valid transaction in every ledger.       *)
THEOREM RefinesSubmission ==
  ASSUME NoStaleMatch
  PROVE  Spec => ImplementsSubmission
<1>1. Init => S!Init
  BY DEF Init, DeliverInit, S!Init, Verdicts
<1>2. Inv /\ [Next]_vars => [S!Next]_S!vars
  <2> SUFFICES ASSUME Inv, [Next]_vars
               PROVE  [S!Next]_S!vars
    OBVIOUS
  <2>1. CASE HandlerStep
    BY <2>1, HandlerRefines
  <2>2. CASE NetworkStep /\ UNCHANGED own
    BY <2>2, NetworkRefines
  <2>3. CASE SubscriberStep
    BY <2>3, Stutter DEF SubscriberStep, StartWaiter, Collect, AllStarted, AllCollected, Abandon,
                         chain, own
  <2>4. ASSUME NEW q \in Peers, WaiterStep(q), UNCHANGED own
        PROVE  [S!Next]_S!vars
    BY <2>4, Stutter DEF WaiterStep, OpenStream, OpenFails, SendSeek, SendFails, CheckReady,
                         CloseReady, Receive, Shows, RecvFails, RecvCancelled, Returns, Moves, chain, own
  <2>5. CASE CallerCancels \/ ServerCancels \/ ClosePool
    BY <2>5, Stutter DEF CallerCancels, ServerCancels, CancelContext, ClosePool, chain, own
  <2>6. CASE UNCHANGED vars
    BY <2>6, Stutter DEF vars, chain, own
  <2>7. QED
    BY <2>1, <2>2, <2>3, <2>4, <2>5, <2>6 DEF Next
<1>3. QED
  BY <1>1, <1>2, InvHolds, PTL DEF Spec, ImplementsSubmission, S!Spec
============================================================================
