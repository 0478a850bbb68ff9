-------------------------- MODULE OrdererBroadcast --------------------------
(***************************************************************************)
(* sendProposalToOrderers (service/plane/lifecycle_full.go) and the        *)
(* OrdererBroadcast it calls (pkg/util/orderer.go): the envelope goes to   *)
(* one orderer of a Raft channel or to all of a BFT one, a goroutine per   *)
(* orderer reports on a buffered channel, and the caller counts.           *)
(*                                                                         *)
(* Fill is the room of the channel; the order of the reports inside it is  *)
(* abstracted to a set, as the caller looks at their number only.          *)
(***************************************************************************)
EXTENDS Integers, FiniteSets

CONSTANT MaxOrderers  \* a channel configuration lists 1..MaxOrderers orderers

ASSUME MaxOrderersAssumption == MaxOrderers \in Nat \ {0}

(* Orderers are their indexes in the list. *)
Orderers == 0 .. MaxOrderers - 1

VARIABLES n,          \* the number of orderers in the channel configuration
          consType,   \* its consensus type
          pc,         \* the caller
          targets,    \* the orderers OrdererBroadcast was given
          quorum,     \* and the quorum
          worker,     \* the goroutine of each orderer
          outcome,    \* what it reports
          inFlight,   \* orderers an envelope is under way to
          accepted,   \* orderers that took it for ordering
          ctx         \* the request's context

vars == <<n, consType, pc, targets, quorum, worker, outcome, inFlight, accepted, ctx>>

Returned == pc \in {"nil", "error"}

config == <<n, consType, ctx>>

TypeOK ==
  /\ n \in 1 .. MaxOrderers
  /\ consType \in {"raft", "bft", "other"}
  /\ pc \in {"choose", "collect", "nil", "error", "panicked"}
  /\ targets \subseteq Orderers
  /\ quorum \in Int
  /\ worker \in [Orderers -> {"idle", "dial", "send", "recv", "report",
                              "queued", "counted"}]
  /\ outcome \in [Orderers -> {"none", "good", "bad"}]
  /\ inFlight \subseteq Orderers
  /\ accepted \subseteq Orderers
  /\ ctx \in {"live", "cancelled"}

Init ==
  /\ n \in 1 .. MaxOrderers
  /\ consType \in {"raft", "bft", "other"}
  /\ pc = "choose"
  /\ targets = {}
  /\ quorum = 0
  /\ worker = [o \in Orderers |-> "idle"]
  /\ outcome = [o \in Orderers |-> "none"]
  /\ inFlight = {}
  /\ accepted = {}
  /\ ctx = "live"

----------------------------------------------------------------------------
(* sendProposalToOrderers. *)

(* The faults f that k BFT orderers tolerate, and ceil((k + f + 1) / 2). *)
FaultsBft(k) == (k - 1) \div 3

(* Faulty variant: the division rounds down. *)
QuorumBftFloor(k) == (k + FaultsBft(k) + 1) \div 2

QuorumBft(k) == (k + FaultsBft(k) + 2) \div 2

Broadcast(to, q) ==
  /\ pc' = "collect"
  /\ targets' = to
  /\ quorum' = q
  /\ worker' = [o \in Orderers |-> IF o \in to THEN "dial" ELSE "idle"]
  /\ UNCHANGED <<config, outcome, inFlight, accepted>>

(* orderers[rand.Intn(len(orderers)-1)]: the index is below len - 1, and Intn
   panics unless its argument is positive.                                   *)
ChooseRaft ==
  /\ pc = "choose"
  /\ consType = "raft"
  /\ \E o \in 0 .. n - 2 : Broadcast({o}, 1)

PanicRaft ==
  /\ pc = "choose"
  /\ consType = "raft"
  /\ n - 1 <= 0
  /\ pc' = "panicked"
  /\ UNCHANGED <<config, targets, quorum, worker, outcome, inFlight, accepted>>

ChooseBft ==
  /\ pc = "choose"
  /\ consType = "bft"
  /\ Broadcast(0 .. n - 1, QuorumBft(n))

(* An unknown consensus type, or an orderer the pool has no connection for. *)
ChooseNone ==
  /\ pc = "choose"
  /\ pc' = "error"
  /\ UNCHANGED <<config, targets, quorum, worker, outcome, inFlight, accepted>>

----------------------------------------------------------------------------
(* The goroutines of OrdererBroadcast. *)

WorkerTo(o, next) ==
  /\ worker' = [worker EXCEPT ![o] = next]
  /\ UNCHANGED <<config, pc, targets, quorum, accepted>>

Reports(o, res) ==
  /\ WorkerTo(o, "report")
  /\ outcome' = [outcome EXCEPT ![o] = res]
  /\ UNCHANGED inFlight

(* Faulty variant: the streams live on a context of their own. *)
StreamsDetached == Returned

(* Faulty variant: the call does not cancel its streams when it returns. *)
StreamsOutlive == ctx = "cancelled"

(* The context of the streams ends with the request's or with the call. *)
StreamsCancelled == ctx = "cancelled" \/ Returned

Dial(o) ==
  /\ worker[o] = "dial"
  /\ ~StreamsCancelled
  /\ WorkerTo(o, "send")
  /\ UNCHANGED <<outcome, inFlight>>

SendEnvelope(o) ==
  /\ worker[o] = "send"
  /\ WorkerTo(o, "recv")
  /\ inFlight' = inFlight \cup {o}
  /\ UNCHANGED outcome

(* Any of the three calls fails, or the orderer answers another status. *)
Fails(o) ==
  /\ worker[o] \in {"dial", "send", "recv"}
  /\ Reports(o, "bad")

RecvSuccess(o) ==
  /\ worker[o] = "recv"
  /\ o \in accepted
  /\ Reports(o, "good")

Fill == Cardinality({o \in Orderers : worker[o] = "queued"})

Capacity == Cardinality(targets)

Enqueue(o) ==
  /\ worker[o] = "report"
  /\ Fill < Capacity
  /\ WorkerTo(o, "queued")
  /\ UNCHANGED <<outcome, inFlight>>

(* The orderer's side; an envelope under way may still arrive after the
   stream was given up.                                                      *)
Accept(o) ==
  /\ o \in inFlight
  /\ accepted' = accepted \cup {o}
  /\ inFlight' = inFlight \ {o}
  /\ UNCHANGED <<config, pc, targets, quorum, worker, outcome>>

----------------------------------------------------------------------------
(* The counting loop. *)

Good(w) == {o \in targets : w[o] = "counted" /\ outcome[o] = "good"}

(* Faulty variant: one success more than the quorum. *)
MoreThanEnough(w) == Cardinality(Good(w)) > quorum

Enough(w) == Cardinality(Good(w)) >= quorum

(* Faulty variant: the last report is returned as it is. *)
AfterLoopRaw(w) == IF Good(w) # {} THEN "nil" ELSE "bad"

(* All have reported: one success is enough for nil, quorum or not. *)
AfterLoop(w) == IF Good(w) # {} THEN "nil" ELSE "error"

Count(o) ==
  /\ pc = "collect"
  /\ worker[o] = "queued"
  /\ worker' = [worker EXCEPT ![o] = "counted"]
  /\ pc' = CASE outcome[o] = "good" /\ Enough(worker') -> "nil"
             [] \A t \in targets : worker'[t] = "counted" -> AfterLoop(worker')
             [] OTHER -> "collect"
  /\ UNCHANGED <<config, targets, quorum, outcome, inFlight, accepted>>

Cancel ==
  /\ ctx = "live"
  /\ ctx' = "cancelled"
  /\ UNCHANGED <<n, consType, pc, targets, quorum, worker, outcome, inFlight, accepted>>

Choose == ChooseRaft \/ PanicRaft \/ ChooseBft \/ ChooseNone

WorkerStep(o) ==
  \/ Dial(o)
  \/ SendEnvelope(o)
  \/ Fails(o)
  \/ RecvSuccess(o)
  \/ Enqueue(o)

Next ==
  \/ Choose
  \/ \E o \in Orderers : WorkerStep(o) \/ Accept(o) \/ Count(o)
  \/ Cancel

(***************************************************************************)
(* Goroutines run; dialling and sending end one way or the other, and a    *)
(* cancelled stream fails.  Recv may wait for ever on a silent orderer.    *)
(***************************************************************************)
Fairness ==
  /\ WF_vars(Choose)
  /\ \A o \in Orderers :
       /\ WF_vars(Dial(o) \/ SendEnvelope(o))
       /\ WF_vars(Fails(o) /\ StreamsCancelled)
       /\ WF_vars(Enqueue(o))
       /\ WF_vars(Count(o))

Spec == Init /\ [][Next]_vars
FairSpec == Spec /\ Fairness

----------------------------------------------------------------------------
(***************************************************************************)
(* Properties                                                              *)
(***************************************************************************)

(* Orderers that the caller has counted and that took the envelope. *)
Acknowledged == {o \in Good(worker) : o \in accepted}

(* Any two sets of so many of the n orderers share more than a third of all,
   (n - 1) / 3 rounded down or more: at least one that is not faulty.        *)
Overlap(size) == 3 * (2 * size - n) >= n

(* What an answer means (orderer.go:137-158).  nil: some orderer took the
   envelope, and in a BFT channel so many did that any other success shares a
   correct orderer with this one, or else every orderer has reported, and the
   caller settles for fewer (which its comment, "waits for a quorum", leaves
   out).  An error: every orderer the envelope was sent to has failed, so none
   was acknowledged and lost in counting.                                    *)
AnswerMatchesOrderers ==
  /\ pc = "nil" =>
       /\ Acknowledged # {}
       /\ consType = "bft" => \/ Overlap(Cardinality(Acknowledged))
                              \/ \A o \in targets : worker[o] = "counted"
  /\ pc = "error" => \A o \in targets : outcome[o] = "bad"

(* Why it holds: a goroutine that is past its calls has an outcome, a good one
   only from an orderer that accepted, and the caller leaves the loop with an
   error only when it has counted every report.                              *)
ReportsAreTrue ==
  \A o \in Orderers :
    /\ outcome[o] = "good" => o \in accepted
    /\ outcome[o] # "none" <=> worker[o] \in {"report", "queued", "counted"}

OnlyTargetsWork ==
  /\ \A o \in Orderers : worker[o] # "idle" => o \in targets
  /\ pc = "choose" => targets = {}

(* A BFT channel's call goes to all its orderers with the quorum of them. *)
BftAsksAll ==
  consType = "bft" /\ pc \in {"collect", "nil"} =>
    targets = 0 .. n - 1 /\ quorum = QuorumBft(n)

Inv ==
  /\ TypeOK
  /\ BftAsksAll
  /\ ReportsAreTrue
  /\ OnlyTargetsWork
  /\ pc = "error" => \A o \in targets : worker[o] = "counted"
  /\ AnswerMatchesOrderers

(* The call does not wait for slow or silent orderers once a quorum has
   reported success (orderer.go:145-149).                                    *)
QuorumReturns ==
  (pc = "collect" /\ Cardinality({o \in targets : outcome[o] = "good"}) >= quorum)
    ~> Returned

(* No goroutine outlives the call for long: the channel has room for every
   report, read or not, and the deferred cancel ends the streams
   (orderer.go:99-103).                                                      *)
WorkersEnd ==
  Returned ~> \A o \in Orderers : worker[o] \in {"idle", "queued", "counted"}

(* A cancelled request is not kept by orderers that never answer. *)
CancelReturns == ctx = "cancelled" ~> Returned \/ pc = "panicked"
============================================================================
