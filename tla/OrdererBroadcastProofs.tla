----------------------- MODULE OrdererBroadcastProofs -----------------------
(***************************************************************************)
(* OrdererBroadcast, proved for every number of orderers: its types, that  *)
(* the answer tells the truth about the orderers, and what quorumBft       *)
(* computes.                                                               *)
(***************************************************************************)
EXTENDS OrdererBroadcast, FiniteSetTheorems, TLAPS

(***************************************************************************)
(* quorumBft                                                               *)
(***************************************************************************)

(* quorumBft (lifecycle_full.go:358-362) is a Byzantine quorum of k orderers
   of which f = (k-1)/3 may be faulty: two quorums share more than f orderers,
   so at least a correct one, and the correct orderers alone make a quorum.  *)
THEOREM QuorumBftIsByzantine ==
  ASSUME NEW k \in Nat \ {0}
  PROVE  /\ QuorumBft(k) \in Nat
         /\ 2 * QuorumBft(k) - k > FaultsBft(k)
         /\ QuorumBft(k) <= k - FaultsBft(k)
<1>1. PICK f \in Nat : f = FaultsBft(k) /\ 3 * f <= k - 1 /\ k - 1 < 3 * f + 3
  BY DEF FaultsBft
<1>2. PICK q \in Nat : q = QuorumBft(k) /\ 2 * q <= k + f + 2 /\ k + f + 2 < 2 * q + 2
  BY <1>1 DEF QuorumBft
<1>3. QED
  BY <1>1, <1>2

(* It is a quorum size: at least one orderer, and no more than there are. *)
LEMMA QuorumBftRange ==
  ASSUME NEW k \in Nat \ {0}
  PROVE  QuorumBft(k) \in 1 .. k
<1>1. FaultsBft(k) \in Nat
  BY DEF FaultsBft
<1>2. QED
  BY <1>1, QuorumBftIsByzantine

(* As many as the quorum, or more, overlap with any others that many. *)
LEMMA QuorumOverlaps ==
  ASSUME n \in Nat \ {0}, NEW size \in Nat, size >= QuorumBft(n)
  PROVE  Overlap(size)
<1>1. PICK f \in Nat : f = FaultsBft(n) /\ n - 1 < 3 * f + 3
  BY DEF FaultsBft
<1>2. PICK q \in Nat : q = QuorumBft(n) /\ 2 * q - n > f
  BY <1>1, QuorumBftIsByzantine
<1>3. 2 * size - n >= f + 1
  BY <1>2
<1>4. QED
  BY <1>1, <1>3 DEF Overlap

(***************************************************************************)
(* Types                                                                   *)
(***************************************************************************)

(* The choice of the orderers keeps every variable in its type. *)
LEMMA ChooseType == TypeOK /\ Choose => TypeOK'
<1> SUFFICES ASSUME TypeOK, Choose
             PROVE  TypeOK'
  OBVIOUS
<1> USE MaxOrderersAssumption DEF TypeOK, Orderers, config
<1>1. CASE ChooseRaft
  BY <1>1 DEF ChooseRaft, Broadcast
<1>2. CASE PanicRaft
  BY <1>2 DEF PanicRaft
<1>3. CASE ChooseBft
  <2>1. QuorumBft(n) \in Int
    BY QuorumBftRange
  <2>2. QED
    BY <1>3, <2>1 DEF ChooseBft, Broadcast
<1>4. CASE ChooseNone
  BY <1>4 DEF ChooseNone
<1>5. QED
  BY <1>1, <1>2, <1>3, <1>4 DEF Choose

(* So does everything an orderer or its goroutine does, and the counting. *)
LEMMA OrdererType ==
  ASSUME TypeOK, NEW o \in Orderers, WorkerStep(o) \/ Accept(o) \/ Count(o)
  PROVE  TypeOK'
<1> USE DEF TypeOK, config, WorkerTo, Reports
<1>1. CASE Dial(o)
  BY <1>1 DEF Dial
<1>2. CASE SendEnvelope(o)
  BY <1>2 DEF SendEnvelope
<1>3. CASE Fails(o)
  BY <1>3 DEF Fails
<1>4. CASE RecvSuccess(o)
  BY <1>4 DEF RecvSuccess
<1>5. CASE Enqueue(o)
  BY <1>5 DEF Enqueue
<1>6. CASE Accept(o)
  BY <1>6 DEF Accept
<1>7. CASE Count(o)
  BY <1>7 DEF Count, AfterLoop
<1>8. QED
  BY <1>1, <1>2, <1>3, <1>4, <1>5, <1>6, <1>7 DEF WorkerStep

(* Every variable stays in its type: a call is in one of its stages, a report
   is good or bad, and only orderers of the configuration are involved.      *)
THEOREM TypeCorrect == Spec => []TypeOK
<1>1. Init => TypeOK
  BY MaxOrderersAssumption DEF Init, TypeOK
<1>2. TypeOK /\ [Next]_vars => TypeOK'
  <2>1. TypeOK /\ Cancel => TypeOK'
    BY DEF TypeOK, Cancel
  <2>2. TypeOK /\ UNCHANGED vars => TypeOK'
    BY DEF TypeOK, vars
  <2>3. QED
    BY <2>1, <2>2, ChooseType, OrdererType DEF Next
<1>3. QED
  BY <1>1, <1>2, PTL DEF Spec

(***************************************************************************)
(* The answer                                                              *)
(***************************************************************************)

(* The choice of the orderers finds no goroutine started and starts some. *)
LEMMA ChooseInv == Inv /\ Choose => Inv'
<1> SUFFICES ASSUME Inv, Choose
             PROVE  Inv'
  OBVIOUS
<1>1. TypeOK'
  BY ChooseType DEF Inv
<1>2. /\ targets = {}
      /\ \A o \in Orderers : outcome[o] = "none" /\ worker[o] = "idle"
  BY DEF Choose, ChooseRaft, PanicRaft, ChooseBft, ChooseNone, Inv, ReportsAreTrue, OnlyTargetsWork,
         TypeOK
<1>3. UNCHANGED outcome /\ pc' # "choose" /\ pc' # "nil" /\ (pc' = "error" => targets' = {})
  BY <1>2 DEF Choose, ChooseRaft, PanicRaft, ChooseBft, ChooseNone, Broadcast
<1>4. \A o \in Orderers : worker'[o] \in {"idle", "dial"}
  BY <1>2 DEF Choose, ChooseRaft, PanicRaft, ChooseBft, ChooseNone, Broadcast, Inv, TypeOK
<1>5. ReportsAreTrue'
  BY <1>2, <1>3, <1>4 DEF ReportsAreTrue
<1>6. OnlyTargetsWork'
  BY <1>2, <1>3 DEF Choose, ChooseRaft, PanicRaft, ChooseBft, ChooseNone, Broadcast, OnlyTargetsWork
<1>7. BftAsksAll'
  BY <1>3 DEF Choose, ChooseRaft, PanicRaft, ChooseBft, ChooseNone, Broadcast, config, BftAsksAll
<1>8. QED
  BY <1>1, <1>3, <1>5, <1>6, <1>7 DEF Inv, AnswerMatchesOrderers

(* An answer stays true while no report is counted and none is withdrawn.    *)
LEMMA AnswerKept ==
  ASSUME AnswerMatchesOrderers, UNCHANGED <<n, consType, pc, targets>>,
         Acknowledged' = Acknowledged,
         \A t \in targets : /\ worker[t] = "counted" => worker'[t] = "counted"
                            /\ outcome[t] # "none" => outcome'[t] = outcome[t]
  PROVE  AnswerMatchesOrderers'
BY DEF AnswerMatchesOrderers, Overlap

(* A goroutine reports "good" only what its orderer accepted, and no goroutine
   moves once the caller has counted it.                                     *)
LEMMA WorkerInv ==
  ASSUME Inv, NEW o \in Orderers, WorkerStep(o)
  PROVE  Inv'
<1> USE DEF WorkerTo, Reports
<1>1. TypeOK'
  BY OrdererType DEF Inv
<1>2. /\ worker[o] \in {"dial", "send", "recv", "report"}
      /\ \E w \in {"send", "recv", "report", "queued"} : worker' = [worker EXCEPT ![o] = w]
      /\ UNCHANGED <<config, pc, targets, quorum, accepted>>
  BY DEF WorkerStep, Dial, SendEnvelope, Fails, RecvSuccess, Enqueue
<1>3. \/ outcome' = outcome /\ (worker[o] = "report" <=> worker'[o] = "queued")
         /\ worker'[o] # "report"
      \/ \E res \in {"good", "bad"} :
           /\ outcome' = [outcome EXCEPT ![o] = res]
           /\ worker[o] # "report" /\ worker'[o] = "report"
           /\ res = "good" => o \in accepted
  BY DEF WorkerStep, Dial, SendEnvelope, Fails, RecvSuccess, Enqueue, Inv, TypeOK
<1>4. \A t \in Orderers \ {o} : worker'[t] = worker[t] /\ outcome'[t] = outcome[t]
  BY <1>2, <1>3 DEF Inv, TypeOK
<1>5. /\ outcome'[o] = "good" => o \in accepted'
      /\ outcome'[o] # "none" <=> worker'[o] \in {"report", "queued", "counted"}
      /\ outcome[o] # "none" => outcome'[o] = outcome[o]
  <2>1. outcome[o] # "none" <=> worker[o] = "report"
    BY <1>2 DEF Inv, ReportsAreTrue
  <2>2. worker'[o] \in {"send", "recv", "report", "queued"}
    BY <1>2 DEF Inv, TypeOK
  <2>3. CASE outcome' = outcome /\ (worker[o] = "report" <=> worker'[o] = "queued")
             /\ worker'[o] # "report"
    BY <1>2, <2>1, <2>2, <2>3 DEF Inv, ReportsAreTrue
  <2>4. CASE worker[o] # "report" /\ worker'[o] = "report"
    BY <1>2, <1>3, <2>1, <2>4 DEF Inv, TypeOK
  <2>5. QED
    BY <1>3, <2>3, <2>4
<1>6. ReportsAreTrue'
  BY <1>2, <1>4, <1>5 DEF Inv, ReportsAreTrue
<1>7. OnlyTargetsWork'
  BY <1>2, <1>4 DEF Inv, OnlyTargetsWork
<1>8. \A t \in targets : /\ worker[t] = "counted" => worker'[t] = "counted"
                        /\ outcome[t] # "none" => outcome'[t] = outcome[t]
  BY <1>2, <1>4, <1>5 DEF Inv, TypeOK
<1>9. AnswerMatchesOrderers'
  <2>1. \A t \in targets : worker'[t] = "counted" <=> worker[t] = "counted"
    BY <1>2, <1>4 DEF Inv, TypeOK
  <2>2. \A t \in targets : worker[t] = "counted" => outcome'[t] = outcome[t]
    BY <1>2, <1>4 DEF Inv, TypeOK
  <2>3. Acknowledged' = Acknowledged
    BY <1>2, <2>1, <2>2 DEF Acknowledged, Good
  <2>4. QED
    BY <1>2, <1>8, <2>1, <2>3, AnswerKept DEF Inv, config
<1>10. BftAsksAll'
  BY <1>2 DEF Inv, BftAsksAll, config
<1>11. QED
  BY <1>1, <1>2, <1>6, <1>7, <1>8, <1>9, <1>10 DEF Inv

(* The caller leaves with nil on a good report in hand or counted before, and
   with an error when every counted report is bad.                           *)
LEMMA CountInv ==
  ASSUME Inv, NEW o \in Orderers, Count(o)
  PROVE  Inv'
<1>1. TypeOK'
  BY OrdererType DEF Inv
<1>2. /\ worker[o] = "queued"
      /\ worker' = [worker EXCEPT ![o] = "counted"]
      /\ UNCHANGED <<targets, outcome, accepted>>
      /\ pc' # "choose"
  BY DEF Count, AfterLoop
<1>3. ReportsAreTrue'
  BY <1>2 DEF Inv, ReportsAreTrue, TypeOK
<1>4. o \in targets /\ OnlyTargetsWork'
  BY <1>2 DEF Inv, OnlyTargetsWork, TypeOK
<1>5. pc' = "error" => \A t \in targets : worker'[t] = "counted" /\ outcome[t] # "good"
  BY <1>2 DEF Count, AfterLoop, Good
<1>6. AnswerMatchesOrderers'
  <2>1. \A t \in targets : t \in Orderers /\ outcome[t] \in {"none", "good", "bad"}
    BY DEF Inv, TypeOK
  <2>2. Acknowledged' = Good(worker')
    BY <1>2, <2>1 DEF Acknowledged, Good, Inv, ReportsAreTrue
  <2>3. pc' = "nil" => Acknowledged' # {}
    <3>1. outcome[o] = "good" => o \in Good(worker')
      BY <1>2, <1>4 DEF Good, Inv, TypeOK
    <3>2. pc' = "nil" => outcome[o] = "good" \/ Good(worker') # {}
      BY <1>2 DEF Count, AfterLoop
    <3>3. QED
      BY <2>2, <3>1, <3>2
  <2>4. ASSUME pc' = "nil", consType = "bft", ~\A t \in targets : worker'[t] = "counted"
        PROVE  Overlap(Cardinality(Acknowledged))'
    <3>1. pc = "collect" /\ Enough(worker') /\ UNCHANGED config
      BY <2>4 DEF Count
    <3>2. quorum = QuorumBft(n) /\ n \in Nat \ {0}
      BY <2>4, <3>1 DEF Inv, BftAsksAll, TypeOK
    <3>3. Cardinality(Good(worker')) \in Nat
      <4>1. IsFiniteSet(Orderers)
        BY MaxOrderersAssumption, FS_Interval DEF Orderers
      <4>2. Good(worker') \subseteq Orderers
        BY DEF Good, Inv, TypeOK
      <4>3. QED
        BY <4>1, <4>2, FS_Subset, FS_CardinalityType
    <3>4. Overlap(Cardinality(Good(worker')))
      BY <3>1, <3>2, <3>3, QuorumOverlaps DEF Enough
    <3>5. QED
      BY <2>2, <3>1, <3>4 DEF Overlap, config
  <2>5. pc' = "error" => \A t \in targets : outcome'[t] = "bad"
    BY <1>2, <1>3, <1>5, <2>1 DEF ReportsAreTrue
  <2>6. QED
    BY <1>2, <2>3, <2>4, <2>5 DEF AnswerMatchesOrderers, Count, config
<1>7. BftAsksAll'
  BY <1>2 DEF Inv, BftAsksAll, Count, config
<1>8. QED
  BY <1>1, <1>2, <1>3, <1>4, <1>5, <1>6, <1>7 DEF Inv

(* A late envelope accepted by an orderer takes no acknowledgement back.     *)
LEMMA AcceptInv ==
  ASSUME Inv, NEW o \in Orderers, Accept(o)
  PROVE  Inv'
<1>1. TypeOK'
  BY OrdererType DEF Inv
<1>2. /\ accepted \subseteq accepted'
      /\ UNCHANGED <<config, pc, targets, quorum, worker, outcome>>
  BY DEF Accept
<1>3. ReportsAreTrue' /\ OnlyTargetsWork' /\ BftAsksAll'
  BY <1>2 DEF Inv, ReportsAreTrue, OnlyTargetsWork, BftAsksAll, config
<1>4. Acknowledged' = Acknowledged
  <2>1. \A t \in Good(worker) : t \in accepted
    BY DEF Inv, ReportsAreTrue, TypeOK, Good
  <2>2. QED
    BY <1>2, <2>1 DEF Acknowledged, Good
<1>5. AnswerMatchesOrderers'
  BY <1>2, <1>4, AnswerKept DEF Inv, config
<1>6. QED
  BY <1>1, <1>2, <1>3, <1>5 DEF Inv

(* OrdererBroadcast returns nil only when one of the orderers it addressed has
   accepted the envelope and, in a BFT channel, either so many have that every
   other success shares a correct orderer with this one, or all orderers have
   reported; and an error only when the call to every one of them failed.    *)
THEOREM AnswerProved == Spec => []AnswerMatchesOrderers
<1>1. Init => Inv
  BY MaxOrderersAssumption DEF Init, Inv, TypeOK, ReportsAreTrue, OnlyTargetsWork, BftAsksAll,
         AnswerMatchesOrderers
<1>2. Inv /\ [Next]_vars => Inv'
  <2> SUFFICES ASSUME Inv, [Next]_vars
               PROVE  Inv'
    OBVIOUS
  <2>1. CASE Cancel \/ UNCHANGED vars
    <3>1. UNCHANGED <<n, consType, pc, targets, quorum, worker, outcome, inFlight, accepted>>
          /\ ctx' \in {"live", "cancelled"}
      BY <2>1 DEF Cancel, vars, Inv, TypeOK
    <3>2. TypeOK' /\ ReportsAreTrue' /\ OnlyTargetsWork' /\ BftAsksAll'
      BY <3>1 DEF Inv, TypeOK, ReportsAreTrue, OnlyTargetsWork, BftAsksAll
    <3>3. AnswerMatchesOrderers'
      BY <3>1, AnswerKept DEF Inv, Acknowledged, Good
    <3>4. QED
      BY <3>1, <3>2, <3>3 DEF Inv
  <2>2. QED
    BY <2>1, ChooseInv, WorkerInv, AcceptInv, CountInv DEF Next
<1>3. Inv => AnswerMatchesOrderers
  BY DEF Inv
<1>4. QED
  BY <1>1, <1>2, <1>3, PTL DEF Spec
=============================================================================
