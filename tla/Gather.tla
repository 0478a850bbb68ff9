------------------------------- MODULE Gather -------------------------------
(***************************************************************************)
(* The five handlers that ask every peer at once and join the answers:     *)
(*                                                                         *)
(*   endorse    EndorsePeers                                               *)
(*   joined     ChannelJoined                                              *)
(*   installed  ChaincodeInstalled                                         *)
(*   install    ChaincodeInstall and ChaincodeInstallExternal              *)
(*   join       processBlockJoin                                           *)
(*                                                                         *)
(* One goroutine per peer sends what it got on an unbuffered channel.  In  *)
(* the first two a failure is returned to an errgroup, which cancels the   *)
(* calls of the others; in the last three it is a result like any other,   *)
(* and only installed gives up at the first.  A collector appends the      *)
(* results: the handler itself, with a closer goroutine that waits for the *)
(* workers, or a goroutine of its own, for which the handler waits.        *)
(***************************************************************************)
EXTENDS Sequences, Integers

CONSTANTS Peers, None

ASSUME NoneAssumption == None \notin Peers

VARIABLES
  kind,       \* which of the five handlers
  ctx,        \* the request's context: "live" or "cancelled"
  hpc,        \* the handler
  wpc,        \* per peer: "idle", "call", "send", "done"
  outcome,    \* per peer: what its call returned
  collector,  \* who ranges over the channel: "off", "recv", "append", "flush", "done"
  held,       \* the result received and not appended yet
  taken,      \* the results appended, in order
  closer,     \* the goroutine that closes the channel: "off", "wait", "close", "done"
  closed      \* whether the channel is closed

workers == <<wpc, outcome>>
collecting == <<collector, held, taken>>
closing == <<closer, closed>>
vars == <<kind, ctx, hpc, workers, collecting, closing>>

Kinds == {"endorse", "joined", "installed", "install", "join"}
Group == {"endorse", "joined"}        \* failures go to an errgroup
Inline == {"installed", "install"}    \* the handler collects

TypeOK ==
  /\ kind \in Kinds
  /\ ctx \in {"live", "cancelled"}
  /\ hpc \in {"start", "collect", "wait", "close", "drain", "ok", "error"}
  /\ wpc \in [Peers -> {"idle", "call", "send", "done"}]
  /\ outcome \in [Peers -> {"none", "ok", "blank", "err"}]
  /\ collector \in {"off", "recv", "append", "flush", "done"}
  /\ held \in Peers \cup {None}
  /\ taken \in Seq(Peers)
  /\ closer \in {"off", "wait", "close", "done"}
  /\ closed \in BOOLEAN

Init ==
  /\ kind \in Kinds
  /\ ctx = "live"
  /\ hpc = "start"
  /\ wpc = [p \in Peers |-> "idle"]
  /\ outcome = [p \in Peers |-> "none"]
  /\ collector = "off"
  /\ held = None
  /\ taken = <<>>
  /\ closer = "off"
  /\ closed = FALSE

Answered == hpc \in {"ok", "error"}
WorkersDone == \A p \in Peers : wpc[p] = "done"
Failed == \E p \in Peers : outcome[p] = "err"

-----------------------------------------------------------------------------
(* Starting *)

Start(p) ==
  /\ hpc = "start" /\ wpc[p] = "idle"
  /\ wpc' = [wpc EXCEPT ![p] = "call"]
  /\ UNCHANGED <<kind, ctx, hpc, outcome, collecting, closing>>

(* ChannelJoined takes the connection itself, between two workers' starts, *)
(* and returns at once when there is none.                                 *)
StartFails(p) ==
  /\ kind = "joined"
  /\ hpc = "start" /\ wpc[p] = "idle"
  /\ hpc' = "error"
  /\ UNCHANGED <<kind, ctx, workers, collecting, closing>>

AllStarted ==
  /\ hpc = "start"
  /\ \A p \in Peers : wpc[p] # "idle"
  /\ hpc' = IF kind \in Inline THEN "collect" ELSE "wait"
  /\ collector' = "recv"
  /\ closer' = IF kind \in Inline \cup {"joined"} THEN "wait" ELSE "off"
  /\ UNCHANGED <<kind, ctx, workers, held, taken, closed>>

-----------------------------------------------------------------------------
(* Workers *)

(* Faulty variants: the group, or the request, does not end the calls. *)
CallsEndWithRequest == ctx = "cancelled"
CallsEndWithGroup == kind \in Group /\ Failed

(* The context of the calls has ended. *)
CallsEnd == ctx = "cancelled" \/ (kind \in Group /\ Failed)

(* What a peer's call comes to.  ChannelJoined asks a peer for its channels *)
(* and then for the height of each: a failure of the second is logged, and *)
(* the channel goes into the answer with an empty height ("blank").        *)
Results == {"ok", "err"} \cup IF kind = "joined" THEN {"blank"} ELSE {}

(* A failure of a group is remembered by the group, else it is a result.   *)
Call(p, result) ==
  /\ wpc[p] = "call"
  /\ outcome' = [outcome EXCEPT ![p] = result]
  /\ wpc' = [wpc EXCEPT ![p] = IF result = "err" /\ kind \in Group THEN "done" ELSE "send"]
  /\ UNCHANGED <<kind, ctx, hpc, collecting, closing>>

(* A peer may be silent as long as the call's context lives. *)
CallEnds(p) == CallsEnd /\ Call(p, "err")

(* The worker's send meets the collector's receive. *)
Receive(p) ==
  /\ wpc[p] = "send" /\ collector = "recv"
  /\ wpc' = [wpc EXCEPT ![p] = "done"]
  /\ collector' = "append"
  /\ held' = p
  /\ UNCHANGED <<kind, ctx, hpc, outcome, taken, closing>>

-----------------------------------------------------------------------------
(* Collecting *)

(* Faulty variant: every inline collector gives up at the first failure. *)
GivesUpInline(p) == kind \in Inline /\ outcome[p] = "err"

GivesUp(p) == kind = "installed" /\ outcome[p] = "err"

AppendResult ==
  /\ collector = "append"
  /\ \/ /\ GivesUp(held)
        /\ collector' = "done" /\ hpc' = "error" /\ taken' = taken
     \/ /\ ~GivesUp(held)
        /\ collector' = "recv" /\ hpc' = hpc /\ taken' = Append(taken, held)
  /\ held' = None
  /\ UNCHANGED <<kind, ctx, workers, closing>>

(* Faulty variant: the zero value of a closed channel is taken for a result. *)
EmptyAtClose ==
  /\ collector = "recv" /\ closed
  /\ taken' = Append(taken, None)
  /\ collector' = "flush" /\ hpc' = hpc
  /\ UNCHANGED <<kind, ctx, workers, held, closing>>

(* The range over a closed channel ends. *)
RangeEnds ==
  /\ collector = "recv" /\ closed
  /\ \/ kind \in Inline /\ collector' = "done" /\ hpc' = "ok"
     \/ kind \notin Inline /\ collector' = "flush" /\ hpc' = hpc
  /\ UNCHANGED <<kind, ctx, workers, held, taken, closing>>

-----------------------------------------------------------------------------
(* Closing and answering *)

(* The closer of the inline collectors waits for the workers. *)
CloserWaits ==
  /\ kind \in Inline /\ closer = "wait" /\ WorkersDone
  /\ closer' = "close"
  /\ UNCHANGED <<kind, ctx, hpc, workers, collecting, closed>>

CloserCloses ==
  /\ closer = "close"
  /\ closer' = "done" /\ closed' = TRUE
  /\ UNCHANGED <<kind, ctx, hpc, workers, collecting>>

(* g.Wait and wg.Wait; only a group has an error to return. *)
Wait ==
  /\ hpc = "wait" /\ WorkersDone
  /\ hpc' = IF kind \in Group /\ Failed THEN "error" ELSE "close"
  /\ UNCHANGED <<kind, ctx, workers, collecting, closing>>

(* ChannelJoined tells its closer to close. *)
Close ==
  /\ hpc = "close"
  /\ hpc' = "drain"
  /\ \/ kind = "joined" /\ closer = "wait" /\ closer' = "close" /\ closed' = closed
     \/ kind # "joined" /\ closer' = closer /\ closed' = TRUE
  /\ UNCHANGED <<kind, ctx, workers, collecting>>

(* Faulty variant: the handler does not wait for the collector. *)
AnswerAtOnce ==
  /\ hpc = "drain" /\ hpc' = "ok"
  /\ UNCHANGED <<kind, ctx, workers, collecting, closing>>

(* doneChan. *)
Drain ==
  /\ hpc = "drain" /\ collector = "flush"
  /\ hpc' = "ok" /\ collector' = "done"
  /\ UNCHANGED <<kind, ctx, workers, held, taken, closing>>

CallerCancels ==
  /\ ctx = "live" /\ ctx' = "cancelled"
  /\ UNCHANGED <<kind, hpc, workers, collecting, closing>>

ServerCancels ==
  /\ Answered
  /\ ctx = "live" /\ ctx' = "cancelled"
  /\ UNCHANGED <<kind, hpc, workers, collecting, closing>>

WorkerStep(p) == Start(p) \/ CallEnds(p) \/ Receive(p)

HandlerStep ==
  \/ AllStarted \/ AppendResult \/ RangeEnds \/ CloserWaits \/ CloserCloses
  \/ Wait \/ Close \/ Drain

Next ==
  \/ \E p \in Peers :
       WorkerStep(p) \/ StartFails(p) \/ \E result \in Results : Call(p, result)
  \/ HandlerStep
  \/ CallerCancels \/ ServerCancels

Spec == Init /\ [][Next]_vars

(* Goroutines that can run do, a call ends when its context has ended, and *)
(* a request's context ends after its handler.  A peer need not answer.    *)
Fairness ==
  /\ \A p \in Peers : WF_vars(WorkerStep(p))
  /\ WF_vars(HandlerStep)
  /\ WF_vars(ServerCancels)

FairSpec == Spec /\ Fairness

-----------------------------------------------------------------------------
(* Properties *)

NoError(p) == outcome[p] = "ok" \/ (kind = "joined" /\ outcome[p] = "blank")

(* An answer without error has exactly one result of every peer, though    *)
(* results are appended by another goroutine than the one that answers;    *)
(* and of a handler that reports errors as a whole, no failed ones, though *)
(* ChannelJoined's may lack a height.                                      *)
OkIsComplete ==
  hpc = "ok" =>
    /\ \A p \in Peers : \E i \in 1 .. Len(taken) : taken[i] = p
    /\ \A i, j \in 1 .. Len(taken) : taken[i] = taken[j] => i = j
    /\ kind \in Group \cup {"installed"} =>
         \A p \in Peers : NoError(p)

(* One failure ends a request that cannot succeed any more, also when all  *)
(* other peers stay silent.                                                *)
FailureEnds == (Failed /\ kind \in Group \cup {"installed"}) ~> Answered

(* A request whose caller has gone ends. *)
CancelEnds == ctx = "cancelled" ~> Answered

(* What goes on for ever after the answer: nothing after an answer without *)
(* error; after an error of a group the collector, and the closer of       *)
(* ChannelJoined; after a connection that ChannelJoined did not get, and   *)
(* after any error of installed, the workers that have a result to send    *)
(* that nobody receives, and the closer that waits for them.               *)
Quiet ==
  /\ \A p \in Peers : wpc[p] \in {"idle", "done"}
  /\ collector \in {"off", "done"}
  /\ closer \in {"off", "done"}

Unread == \A p \in Peers : wpc[p] \in {"idle", "send", "done"}

LeftBehind ==
  \/ kind \in Group /\ WorkersDone /\ Failed
  \/ kind = "joined" /\ (\E p \in Peers : wpc[p] = "idle") /\ Unread
  \/ kind = "installed" /\ Failed /\ Unread

OnlyErrorsLeave == Answered ~> [](Quiet \/ (hpc = "error" /\ LeftBehind))
=============================================================================
