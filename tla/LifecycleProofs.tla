-------------------------- MODULE LifecycleProofs --------------------------
(***************************************************************************)
(* Lifecycle, proved for every set of organisations, requests and          *)
(* definitions and for any number of changes elsewhere and of failures:    *)
(* its types, the sequences proposed, and what a commit and the answer     *)
(* "committed" mean.                                                       *)
(***************************************************************************)
EXTENDS Lifecycle, SequenceTheorems, TLAPS

USE DEF Height

(***************************************************************************)
(* Types                                                                   *)
(***************************************************************************)

LEMMA CurrentType ==
  ASSUME TypeOK, Height > 0
  PROVE  Current \in Definitions
<1>1. history \in Seq([def : Definitions, forced : BOOLEAN])
  BY DEF TypeOK, LedgerTypeOK
<1>2. Len(history) \in 1 .. Len(history)
  BY <1>1, LenProperties
<1>3. history[Len(history)] \in [def : Definitions, forced : BOOLEAN]
  BY <1>1, <1>2, ElementOfSeq
<1> QED
  BY <1>3 DEF Current

LEMMA ReadsType ==
  ASSUME TypeOK, NEW kind, NEW o
  PROVE  Reads(kind, o) \in ReadSets
<1> USE DEF TypeOK, LedgerTypeOK
<1>1. ASSUME NEW p \in Orgs
      PROVE  /\ approved[p] \in Approval
             /\ NoApproval \in Approval
             /\ [NoApproval EXCEPT !.next = approved[p].next] \in Approval
  BY DEF Approval, NoApproval, Maybe
<1>2. Reads(kind, o).approved \in [Orgs -> Approval]
  BY <1>1 DEF Reads
<1>3. Reads(kind, o).height \in Nat
  BY DEF Reads
<1>4. Reads(kind, o).inits \in Seq(Versions)
  BY DEF Reads
<1> QED
  BY <1>2, <1>3, <1>4 DEF Reads, ReadSets

LEMMA TxType ==
  ASSUME TypeOK, NEW r \in Requests, NEW d \in Definitions,
         NEW kind \in {"approve", "commit", "init"}
  PROVE  Tx(r, kind, d) \in Transactions(Requests)
BY ReadsType, RequestsAssumption DEF Tx, Transactions, TypeOK

(* A transaction that nobody waits for is still a transaction. *)
LEMMA DisownedType ==
  ASSUME NEW t \in Transactions(Requests)
  PROVE  [t EXCEPT !.req = None] \in Transactions(Requests)
BY DEF Transactions

LEMMA LeaveType ==
  ASSUME TypeOK, NEW r \in Requests, Leave(r)
  PROVE  /\ LedgerTypeOK(Requests)'
         /\ told' \in [Requests -> {"none", "valid", "invalid"}]
         /\ faults' \in Nat
<1>1. pool' \subseteq Transactions(Requests)
  BY DisownedType DEF Leave, TypeOK, LedgerTypeOK
<1> QED
  BY <1>1 DEF Leave, TypeOK, LedgerTypeOK

(* What a transaction or a change elsewhere does to the ledger. *)
LEMMA ApprovedType ==
  ASSUME TypeOK, NEW o \in Orgs, NEW s \in Nat, NEW d \in Definitions, Approved(o, s, d)
  PROVE  /\ history' = history /\ inits' = inits
         /\ approved' \in [Orgs -> Approval]
         /\ record' \subseteq Orgs \X Nat \X Definitions
<1>1. approved' \in [Orgs -> Approval]
  BY DEF TypeOK, LedgerTypeOK, Approved, Approval, Maybe
<1>2. <<o, s, d>> \in Orgs \X Nat \X Definitions
  OBVIOUS
<1>3. record' \subseteq Orgs \X Nat \X Definitions
  BY <1>2 DEF TypeOK, LedgerTypeOK, Approved
<1> QED
  BY <1>1, <1>3 DEF Approved

LEMMA CommittedType ==
  ASSUME TypeOK, NEW d \in Definitions, NEW forced \in BOOLEAN, Committed(d, forced)
  PROVE  /\ history' \in Seq([def : Definitions, forced : BOOLEAN])
         /\ Len(history') = Height + 1
         /\ history'[Height + 1] = [def |-> d, forced |-> forced]
         /\ \A i \in 1 .. Height : history'[i] = history[i]
         /\ approved' \in [Orgs -> Approval]
         /\ inits' = inits /\ record' = record
BY DEF TypeOK, LedgerTypeOK, Committed, Approval, Maybe

LEMMA InitedType ==
  ASSUME TypeOK, NEW v \in Versions, Inited(v)
  PROVE  /\ inits' \in Seq(Versions)
         /\ Len(inits') = Len(inits) + 1
         /\ inits'[Len(inits) + 1] = v
         /\ \A i \in 1 .. Len(inits) : inits'[i] = inits[i]
         /\ history' = history /\ approved' = approved /\ record' = record
BY DEF TypeOK, LedgerTypeOK, Inited

LEMMA AppliedType ==
  ASSUME TypeOK, NEW t \in pool, Applied(t)
  PROVE  /\ history' \in Seq([def : Definitions, forced : BOOLEAN])
         /\ approved' \in [Orgs -> Approval]
         /\ inits' \in Seq(Versions)
         /\ record' \subseteq Orgs \X Nat \X Definitions
<1>1. t \in Transactions(Requests)
  BY DEF TypeOK, LedgerTypeOK
<1>2. t.org \in Orgs /\ t.seq \in Nat /\ t.def \in Definitions /\ t.forced \in BOOLEAN
  BY <1>1 DEF Transactions
<1>3. t.def.version \in Versions
  BY <1>2 DEF Versions
<1>4. CASE Approved(t.org, t.seq, t.def)
  BY <1>2, <1>4, ApprovedType DEF TypeOK, LedgerTypeOK
<1>5. CASE Committed(t.def, t.forced)
  BY <1>2, <1>5, CommittedType DEF TypeOK, LedgerTypeOK
<1>6. CASE Inited(t.def.version)
  BY <1>3, <1>6, InitedType DEF TypeOK, LedgerTypeOK
<1> QED
  BY <1>4, <1>5, <1>6 DEF Applied

(* A transaction's sequence fits the committed one its endorsers read. *)
TxFits(t) ==
  /\ t.kind = "commit" => t.seq = t.reads.height + 1
  /\ t.kind = "approve" => t.seq \in {t.reads.height, t.reads.height + 1}

(* A transaction of another handler. *)
Outside(t) ==
  /\ t \in Transactions(Requests) /\ t.req = None /\ t.forced = TRUE
  /\ TxFits(t)

(* All that another handler changes is that its transaction is under way. *)
Sent ==
  /\ UNCHANGED <<history, approved, inits, record>>
  /\ \E t : Outside(t) /\ pool' = pool \cup {t}

LEMMA EndorsedSent ==
  ASSUME TypeOK, NEW kind \in {"approve", "commit", "init"}, NEW o \in Orgs,
         NEW s \in Nat, NEW d \in Definitions, Endorsed(kind, o, s, d),
         kind = "commit" => s = Height + 1,
         kind = "approve" => s \in {Height, Height + 1}
  PROVE  Sent
<1> DEFINE t == [kind |-> kind, req |-> None, org |-> o, seq |-> s, def |-> d,
                 forced |-> TRUE, reads |-> Reads(kind, o)]
<1>1. t \in Transactions(Requests)
  BY ReadsType DEF Transactions
<1>2. kind # "init" => t.reads.height = Height
  BY DEF Reads
<1>3. Outside(t)
  BY <1>1, <1>2 DEF Outside, TxFits
<1>4. pool' = pool \cup {t} /\ UNCHANGED <<history, approved, inits, record>>
  BY DEF Endorsed
<1> QED
  BY <1>3, <1>4 DEF Sent

LEMMA MovedSent ==
  ASSUME TypeOK, MovedElsewhere
  PROVE  Sent
<1>1. Height \in Nat /\ Height + 1 \in Nat
  BY LenProperties DEF TypeOK, LedgerTypeOK
<1>2. Anyone \in Orgs
  BY DefinitionsAssumption DEF Anyone
<1>3. ASSUME NEW o \in Orgs, LifecycleApproveForMyOrg(o)
      PROVE  Sent
  <2>1. PICK d \in Definitions, s \in {Height, Height + 1} : Endorsed("approve", o, s, d)
    BY <1>3 DEF LifecycleApproveForMyOrg
  <2> QED
    BY <1>1, <2>1, EndorsedSent
<1>4. CASE LifecycleCommit
  <2>1. PICK d \in Definitions : Endorsed("commit", Anyone, Height + 1, d)
    BY <1>4 DEF LifecycleCommit
  <2> QED
    BY <1>1, <1>2, <2>1, EndorsedSent
<1>5. CASE LifecycleInit
  BY <1>1, <1>2, <1>5, CurrentType, EndorsedSent DEF LifecycleInit
<1> QED
  BY <1>3, <1>4, <1>5 DEF MovedElsewhere

LEMMA MovedType ==
  ASSUME TypeOK, MovedElsewhere
  PROVE  LedgerTypeOK(Requests)'
BY MovedSent DEF Sent, Outside, TypeOK, LedgerTypeOK

LEMMA ValidateType ==
  ASSUME TypeOK, NEW t \in pool, NEW verdict \in {"valid", "invalid"}, Validate(t, verdict)
  PROVE  TypeOK'
<1>1. /\ history' \in Seq([def : Definitions, forced : BOOLEAN])
      /\ approved' \in [Orgs -> Approval]
      /\ inits' \in Seq(Versions)
      /\ record' \subseteq Orgs \X Nat \X Definitions
  BY AppliedType DEF Validate, TypeOK, LedgerTypeOK
<1>2. pool' \subseteq Transactions(Requests)
  BY DEF Validate, TypeOK, LedgerTypeOK
<1>3. told' \in [Requests -> {"none", "valid", "invalid"}]
  BY DEF Validate, TypeOK
<1>4. faults' \in Nat
  BY DEF Validate, TypeOK
<1> QED
  BY <1>1, <1>2, <1>3, <1>4 DEF Validate, TypeOK, LedgerTypeOK

(* The steps of a handler keep every variable in its type. *)
LEMMA HandleType ==
  ASSUME TypeOK, NEW r \in Requests, Handle(r)
  PROVE  TypeOK'
<1> USE DEF Goto, ledger, Steps, Answers
<1>1. ASSUME NEW kind \in {"approve", "commit", "init"}, NEW d \in Definitions,
             Submit(r, kind, d)
      PROVE  LedgerTypeOK(Requests)'
  BY <1>1, TxType DEF Submit, TypeOK, LedgerTypeOK
<1>2. want[r].def \in Definitions
  BY DEF TypeOK
<1>3. CASE QueryCommitted(r)
  <2>1. seen' \in [Requests -> Nat]
    BY <1>3 DEF QueryCommitted, TypeOK, LedgerTypeOK
  <2> QED
    BY <1>3, <2>1 DEF QueryCommitted, TypeOK, LedgerTypeOK
<1>4. CASE Calculate(r)
  <2>1. QueryApproved(Of[r]).seq \in Nat
    BY DEF QueryApproved, TypeOK, LedgerTypeOK
  <2>2. calculateSequence(QueryApproved(Of[r]).seq, seen[r]) \in Nat
    BY <2>1 DEF calculateSequence, TypeOK
  <2>3. seq' \in [Requests -> Nat]
    BY <1>4, <2>2 DEF Calculate, TypeOK
  <2> QED
    BY <1>4, <2>3 DEF Calculate, TypeOK, LedgerTypeOK
<1>5. CASE Approve(r)
  BY <1>1, <1>2, <1>5 DEF Approve, TypeOK, LedgerTypeOK
<1>6. CASE TakeApproval(r)
  BY <1>6 DEF TakeApproval, TypeOK, LedgerTypeOK
<1>7. CASE CheckReady(r)
  BY <1>7 DEF CheckReady, TypeOK, LedgerTypeOK
<1>8. CASE Commit(r)
  <2>1. tries' \in [Requests -> 0 .. defaultTryCount - 1]
    BY <1>8 DEF Commit, TypeOK, defaultTryCount
  <2>2. pc' \in [Requests -> Steps \cup Answers]
    BY <1>8 DEF Commit, TypeOK
  <2>3. LedgerTypeOK(Requests)'
    BY <1>1, <1>2, <1>8 DEF Commit, TypeOK, LedgerTypeOK
  <2> QED
    BY <1>8, <2>1, <2>2, <2>3 DEF Commit, TypeOK
<1>9. CASE SendNothing(r)
  BY <1>9 DEF SendNothing, TypeOK, LedgerTypeOK
<1>10. CASE TakeCommit(r)
  <2>1. told' \in [Requests -> {"none", "valid", "invalid"}]
    BY <1>10 DEF TakeCommit, TypeOK
  <2>2. pc' \in [Requests -> Steps \cup Answers]
    BY <1>10 DEF TakeCommit, TypeOK
  <2> QED
    BY <1>10, <2>1, <2>2 DEF TakeCommit, TypeOK, LedgerTypeOK
<1>11. CASE InitChaincode(r)
  BY <1>1, <1>11, CurrentType DEF InitChaincode, TypeOK, LedgerTypeOK
<1>12. CASE TakeInit(r)
  BY <1>12 DEF TakeInit, TypeOK, LedgerTypeOK
<1> QED
  BY <1>3, <1>4, <1>5, <1>6, <1>7, <1>8, <1>9, <1>10, <1>11, <1>12 DEF Handle

LEMMA InitType == Init => TypeOK
<1> SUFFICES ASSUME Init
             PROVE  TypeOK
  OBVIOUS
<1>1. LedgerTypeOK(Requests)
  <2>1. CASE history = <<>>
    BY <2>1 DEF Init, LedgerInit, LedgerTypeOK, Approval, NoApproval, Maybe
  <2>2. ASSUME NEW d \in Definitions, NEW cur \in [Orgs -> Maybe],
               history = <<[def |-> d, forced |-> TRUE]>>,
               approved = [o \in Orgs |-> [cur |-> cur[o], next |-> None]],
               inits \in IF d.init THEN {<<>>, <<d.version>>} ELSE {<<>>}
        PROVE  LedgerTypeOK(Requests)
    <3>1. history \in Seq([def : Definitions, forced : BOOLEAN])
      <4>1. [def |-> d, forced |-> TRUE] \in [def : Definitions, forced : BOOLEAN]
        OBVIOUS
      <4> QED
        BY <2>2, <4>1
    <3>2. approved \in [Orgs -> Approval]
      BY <2>2 DEF Approval, Maybe
    <3>3. inits \in Seq(Versions)
      <4>1. d.version \in Versions
        BY DEF Versions
      <4>2. inits = <<>> \/ inits = <<d.version>>
        BY <2>2, Zenon
      <4>3. CASE inits = <<>>
        BY <4>3
      <4>4. CASE inits = <<d.version>>
        BY <4>1, <4>4
      <4> QED
        BY <4>2, <4>3, <4>4
    <3>4. Orgs \X {1} \X Definitions \subseteq Orgs \X Nat \X Definitions
      OBVIOUS
    <3> QED
      BY <3>1, <3>2, <3>3, <3>4 DEF Init, LedgerInit, LedgerTypeOK
  <2> QED
    BY <2>1, <2>2 DEF Init, LedgerInit
<1> QED
  BY <1>1, BoundsAssumption DEF Init, TypeOK, Steps, defaultTryCount

(* Each step keeps every variable in its type. *)
LEMMA NextType == TypeOK /\ [Next]_vars => TypeOK'
<1> SUFFICES ASSUME TypeOK, [Next]_vars
             PROVE  TypeOK'
  OBVIOUS
<1> USE DEF Goto, Steps, Answers
<1>1. ASSUME NEW r \in Requests, Mismatch(r)
      PROVE  TypeOK'
  <2>1. tries' \in [Requests -> 0 .. defaultTryCount - 1]
    BY <1>1 DEF Mismatch, TypeOK, defaultTryCount
  <2>2. pc' \in [Requests -> Steps \cup Answers]
    BY <1>1 DEF Mismatch, TypeOK
  <2>3. faults' \in Nat
    BY <1>1 DEF Mismatch, TypeOK
  <2>4. LedgerTypeOK(Requests)'
    BY <1>1 DEF Mismatch, TypeOK, LedgerTypeOK, ledger
  <2> QED
    BY <1>1, <2>1, <2>2, <2>3, <2>4 DEF Mismatch, TypeOK
<1>2. ASSUME NEW r \in Requests, Fail(r)
      PROVE  TypeOK'
  BY <1>2, LeaveType DEF Fail, TypeOK, defaultTryCount
<1>3. ASSUME NEW r \in Requests, Unreported(r)
      PROVE  TypeOK'
  BY <1>3, LeaveType DEF Unreported, TypeOK
<1>4. ASSUME NEW r \in Requests, Retry(r)
      PROVE  TypeOK'
  BY <1>4 DEF Retry, TypeOK, LedgerTypeOK, ledger
<1>5. CASE Elsewhere
  BY <1>5, MovedType DEF Elsewhere, TypeOK, request
<1>6. CASE UNCHANGED vars
  BY <1>6 DEF vars, ledger, request, TypeOK, LedgerTypeOK
<1> QED
  BY <1>1, <1>2, <1>3, <1>4, <1>5, <1>6, HandleType, ValidateType DEF Next

(* Every variable stays in its type. *)
THEOREM TypeCorrect == Spec => []TypeOK
BY InitType, NextType, PTL DEF Spec

(***************************************************************************)
(* What never gets lost                                                    *)
(***************************************************************************)

Extends(longer, s) ==
  /\ Len(longer) \in Nat /\ Len(s) \in Nat
  /\ Len(s) <= Len(longer)
  /\ \A i \in 1 .. Len(s) : longer[i] = s[i]

Grown == Extends(history', history) /\ Extends(inits', inits) /\ record \subseteq record'

LEMMA UnchangedGrows ==
  ASSUME TypeOK, UNCHANGED <<history, inits, record>>
  PROVE  Grown
BY LenProperties DEF TypeOK, LedgerTypeOK, Grown, Extends

LEMMA ApprovedGrows ==
  ASSUME TypeOK, NEW o, NEW s, NEW d, Approved(o, s, d)
  PROVE  Grown
BY LenProperties DEF TypeOK, LedgerTypeOK, Grown, Extends, Approved

LEMMA CommittedGrows ==
  ASSUME TypeOK, NEW d \in Definitions, NEW forced \in BOOLEAN, Committed(d, forced)
  PROVE  Grown
<1>1. /\ Len(history') = Height + 1
      /\ \A i \in 1 .. Height : history'[i] = history[i]
      /\ inits' = inits /\ record' = record
  BY CommittedType
<1>2. Height \in Nat /\ Len(inits) \in Nat
  BY LenProperties DEF TypeOK, LedgerTypeOK
<1> QED
  BY <1>1, <1>2 DEF Grown, Extends

LEMMA InitedGrows ==
  ASSUME TypeOK, NEW v \in Versions, Inited(v)
  PROVE  Grown
<1>1. Extends(history', history)
  BY InitedType, LenProperties DEF TypeOK, LedgerTypeOK, Extends
<1>2. Extends(inits', inits)
  BY InitedType, LenProperties DEF TypeOK, LedgerTypeOK, Extends
<1> QED
  BY <1>1, <1>2, InitedType DEF Grown

(* Definitions committed, versions initialised and approvals recorded stay. *)
LEMMA NextGrows == TypeOK /\ [Next]_vars => Grown
<1> SUFFICES ASSUME TypeOK, [Next]_vars
             PROVE  Grown
  OBVIOUS
<1>1. ASSUME NEW r \in Requests, Handle(r)
      PROVE  Grown
  BY <1>1, UnchangedGrows DEF Handle, QueryCommitted, Calculate, Approve, TakeApproval,
    CheckReady, Commit, SendNothing, TakeCommit, InitChaincode, TakeInit, Submit, ledger
<1>2. ASSUME NEW r \in Requests, Mismatch(r) \/ Fail(r) \/ Unreported(r) \/ Retry(r)
      PROVE  Grown
  BY <1>2, UnchangedGrows DEF Mismatch, Fail, Unreported, Retry, Leave, ledger
<1>3. ASSUME NEW t \in pool, NEW verdict \in {"valid", "invalid"}, Validate(t, verdict)
      PROVE  Grown
  <2>1. t.def \in Definitions /\ t.forced \in BOOLEAN
    BY DEF TypeOK, LedgerTypeOK, Transactions
  <2>2. t.def.version \in Versions
    BY <2>1 DEF Versions
  <2>3. CASE Applied(t)
    BY <2>1, <2>2, <2>3, ApprovedGrows, CommittedGrows, InitedGrows DEF Applied
  <2>4. CASE UNCHANGED <<history, approved, inits, record>>
    BY <2>4, UnchangedGrows
  <2> QED
    BY <1>3, <2>3, <2>4 DEF Validate
<1>4. CASE Elsewhere
  BY <1>4, MovedSent, UnchangedGrows DEF Elsewhere, Sent
<1>5. CASE UNCHANGED vars
  BY <1>5, UnchangedGrows DEF vars, ledger
<1> QED
  BY <1>1, <1>2, <1>3, <1>4, <1>5 DEF Next

(***************************************************************************)
(* Sequences                                                               *)
(***************************************************************************)

SeenBefore == \A r \in Requests : seen[r] <= Height

SequenceInv == SequenceFits /\ SeenBefore

(* A request whose own part is unchanged proposes what it did. *)
LEMMA SequenceStays ==
  ASSUME TypeOK, SequenceInv, Grown, NEW r \in Requests,
         seen'[r] = seen[r], seq'[r] = seq[r], Proposing(r)' => Proposing(r)
  PROVE  /\ seen'[r] <= Height'
         /\ Proposing(r)' => /\ seq'[r] \in 1 .. Height' + 1
                             /\ seen'[r] = Height' => seq'[r] \in {1, Height' + 1}
BY DEF TypeOK, SequenceInv, SequenceFits, SeenBefore, Grown, Extends

LEMMA SequenceNext == TypeOK /\ SequenceInv /\ [Next]_vars => SequenceInv'
<1> SUFFICES ASSUME TypeOK, SequenceInv, [Next]_vars, NEW r \in Requests
             PROVE  /\ seen'[r] <= Height'
                    /\ Proposing(r)' => /\ seq'[r] \in 1 .. Height' + 1
                                        /\ seen'[r] = Height' => seq'[r] \in {1, Height' + 1}
  BY DEF SequenceInv, SequenceFits, SeenBefore
<1>1. Grown
  BY NextGrows
<1>2. CASE QueryCommitted(r)
  BY <1>2 DEF QueryCommitted, Goto, Proposing, TypeOK, LedgerTypeOK, ledger
<1>3. CASE Calculate(r)
  <2>1. QueryApproved(Of[r]).seq \in {0, Height, Height + 1}
    BY DEF QueryApproved
  <2>2. seen[r] \in Nat /\ seen[r] <= Height /\ Height \in Nat
    BY LenProperties DEF SequenceInv, SeenBefore, TypeOK, LedgerTypeOK
  <2>3. /\ calculateSequence(QueryApproved(Of[r]).seq, seen[r]) \in 1 .. Height + 1
        /\ seen[r] = Height =>
             calculateSequence(QueryApproved(Of[r]).seq, seen[r]) \in {1, Height + 1}
    BY <2>1, <2>2 DEF calculateSequence
  <2> QED
    BY <1>3, <2>2, <2>3 DEF Calculate, TypeOK, ledger
<1>4. CASE Retry(r)
  BY <1>4, LenProperties DEF Retry, Proposing, TypeOK, LedgerTypeOK, ledger
<1>5. CASE /\ seen'[r] = seen[r] /\ seq'[r] = seq[r]
           /\ Proposing(r)' => Proposing(r)
  BY <1>1, <1>5, SequenceStays
<1>6. ASSUME NEW s \in Requests, s # r,
             Handle(s) \/ Mismatch(s) \/ Fail(s) \/ Unreported(s) \/ Retry(s)
      PROVE  seen'[r] = seen[r] /\ seq'[r] = seq[r] /\ pc'[r] = pc[r]
  BY <1>6 DEF Handle, QueryCommitted, Calculate, Approve, TakeApproval, CheckReady, Commit,
    SendNothing, TakeCommit, InitChaincode, TakeInit, Goto, Mismatch, Fail, Unreported, Retry,
    TypeOK
<1>7. CASE \/ Approve(r) \/ TakeApproval(r) \/ CheckReady(r) \/ Commit(r) \/ Mismatch(r)
           \/ SendNothing(r) \/ TakeCommit(r) \/ InitChaincode(r) \/ TakeInit(r)
  <2>1. seen' = seen /\ seq' = seq
    BY <1>7 DEF Approve, TakeApproval, CheckReady, Commit, Mismatch, SendNothing, TakeCommit,
      InitChaincode, TakeInit
  <2>2. Proposing(r)' => Proposing(r)
    BY <1>7 DEF Approve, TakeApproval, CheckReady, Commit, Mismatch, SendNothing, TakeCommit,
      InitChaincode, TakeInit, Goto, Proposing, TypeOK
  <2> QED
    BY <2>1, <2>2, <1>5
<1>8. CASE Fail(r) \/ Unreported(r)
  BY <1>5, <1>8 DEF Fail, Unreported, Goto, Proposing, TypeOK
<1>9. CASE UNCHANGED <<pc, seen, seq>>
  BY <1>5, <1>9 DEF Proposing
<1> QED
  BY <1>2, <1>3, <1>4, <1>5, <1>6, <1>7, <1>8, <1>9
  DEF Next, Handle, Validate, Elsewhere, request, vars, Proposing

(* No request proposes a sequence beyond the next one. *)
THEOREM SequenceProved == Spec => []SequenceFits
<1>1. Init => SequenceInv
  BY InitType, LenProperties
  DEF Init, SequenceInv, SequenceFits, SeenBefore, Proposing, TypeOK, LedgerTypeOK
<1>2. SequenceInv => SequenceFits
  BY DEF SequenceInv
<1> QED
  BY <1>1, <1>2, TypeCorrect, SequenceNext, PTL DEF Spec

(***************************************************************************)
(* Steps of the ledger and of the transactions under way                   *)
(***************************************************************************)

PoolFits == \A t \in pool : TxFits(t)

ApprovedStep ==
  \E o \in Orgs, s \in {Height, Height + 1}, d \in Definitions : Approved(o, s, d)

CommittedStep ==
  \E t \in pool : t.kind = "commit" /\ t.seq = Height + 1 /\ Committed(t.def, t.forced)

InitedStep == \E v \in Versions : Inited(v)

LEMMA LedgerSteps ==
  ASSUME TypeOK, PoolFits, [Next]_vars
  PROVE  \/ UNCHANGED <<history, approved, inits, record>>
         \/ ApprovedStep \/ CommittedStep \/ InitedStep
<1>1. ASSUME NEW r \in Requests, Handle(r)
      PROVE  UNCHANGED <<history, approved, inits, record>>
  BY <1>1 DEF Handle, QueryCommitted, Calculate, Approve, TakeApproval,
    CheckReady, Commit, SendNothing, TakeCommit, InitChaincode, TakeInit, Submit, ledger
<1>2. ASSUME NEW r \in Requests, Mismatch(r) \/ Fail(r) \/ Unreported(r) \/ Retry(r)
      PROVE  UNCHANGED <<history, approved, inits, record>>
  BY <1>2 DEF Mismatch, Fail, Unreported, Retry, Leave, ledger
<1>3. ASSUME NEW t \in pool, Valid(t), Applied(t)
      PROVE  ApprovedStep \/ CommittedStep \/ InitedStep
  <2>1. /\ t.org \in Orgs /\ t.seq \in Nat /\ t.def \in Definitions /\ TxFits(t)
    BY DEF TypeOK, LedgerTypeOK, Transactions, PoolFits
  <2>2. t.kind # "init" => t.reads.height = Height
    BY <1>3 DEF Valid, Reads
  <2>3. CASE t.kind = "approve" /\ Approved(t.org, t.seq, t.def)
    BY <2>1, <2>2, <2>3 DEF TxFits, ApprovedStep
  <2>4. CASE t.kind = "commit" /\ Committed(t.def, t.forced)
    BY <2>1, <2>2, <2>4 DEF TxFits, CommittedStep
  <2>5. CASE Inited(t.def.version)
    BY <2>1, <2>5 DEF InitedStep, Versions
  <2> QED
    BY <1>3, <2>3, <2>4, <2>5 DEF Applied
<1>4. ASSUME NEW t \in pool, NEW verdict \in {"valid", "invalid"}, Validate(t, verdict)
      PROVE  \/ UNCHANGED <<history, approved, inits, record>>
             \/ ApprovedStep \/ CommittedStep \/ InitedStep
  BY <1>3, <1>4 DEF Validate
<1>5. CASE Elsewhere
  BY <1>5, MovedSent DEF Elsewhere, Sent
<1>6. CASE UNCHANGED vars
  BY <1>6 DEF vars, ledger
<1> QED
  BY <1>1, <1>2, <1>4, <1>5, <1>6 DEF Next

(* A transaction a step of request r brings in. *)
Brought(r, t) ==
  /\ told' = told /\ want' = want /\ unreported' = unreported
  /\ \/ /\ pc[r] = "approve" /\ pc'[r] = "awaitApproval"
        /\ MayApprove(Of[r], seq[r], want[r].def)
        /\ t = Tx(r, "approve", want[r].def)
     \/ /\ pc[r] = "commit" /\ pc'[r] = "awaitCommit"
        /\ seq[r] = Height + 1
        /\ t = Tx(r, "commit", want[r].def)
     \/ /\ pc[r] = "init" /\ pc'[r] = "awaitInit"
        /\ Height > 0
        /\ t = Tx(r, "init", Current)

LEMMA PoolSteps ==
  ASSUME TypeOK, [Next]_vars, NEW t \in pool', t \notin pool
  PROVE  \/ \E u \in pool : t = [u EXCEPT !.req = None]
         \/ \E r \in Requests : Brought(r, t)
         \/ Outside(t)
<1>1. ASSUME NEW r \in Requests, Approve(r)
      PROVE  Brought(r, t)
  BY <1>1 DEF Approve, Submit, Goto, Brought, ledger, TypeOK
<1>2. ASSUME NEW r \in Requests, Commit(r)
      PROVE  Brought(r, t)
  BY <1>2 DEF Commit, Submit, Goto, Brought, ledger, TypeOK, MayCommit
<1>3. ASSUME NEW r \in Requests, InitChaincode(r)
      PROVE  Brought(r, t)
  BY <1>3 DEF InitChaincode, Submit, Goto, Brought, ledger, TypeOK
<1>4. ASSUME NEW r \in Requests, Fail(r) \/ Unreported(r)
      PROVE  \E u \in pool : t = [u EXCEPT !.req = None]
  BY <1>4 DEF Fail, Unreported, Leave
<1>5. ASSUME NEW r \in Requests,
             \/ QueryCommitted(r) \/ Calculate(r) \/ TakeApproval(r) \/ CheckReady(r)
             \/ SendNothing(r) \/ TakeCommit(r) \/ TakeInit(r) \/ Mismatch(r) \/ Retry(r)
      PROVE  FALSE
  BY <1>5 DEF QueryCommitted, Calculate, TakeApproval, CheckReady, SendNothing, TakeCommit,
    TakeInit, Mismatch, Retry, ledger
<1>6. ASSUME NEW u \in pool, NEW verdict, Validate(u, verdict)
      PROVE  FALSE
  BY <1>6 DEF Validate
<1>7. CASE Elsewhere
  BY <1>7, MovedSent DEF Elsewhere, Sent
<1>8. CASE UNCHANGED vars
  BY <1>8 DEF vars, ledger
<1> QED
  BY <1>1, <1>2, <1>3, <1>4, <1>5, <1>6, <1>7, <1>8 DEF Next, Handle

LEMMA PoolFitsNext == TypeOK /\ PoolFits /\ [Next]_vars => PoolFits'
<1> SUFFICES ASSUME TypeOK, PoolFits, [Next]_vars, NEW t \in pool'
             PROVE  TxFits(t)
  BY DEF PoolFits, TxFits
<1>1. CASE t \in pool
  BY <1>1 DEF PoolFits
<1>2. ASSUME NEW u \in pool, t = [u EXCEPT !.req = None]
      PROVE  TxFits(t)
  <2>1. t.kind = u.kind /\ t.seq = u.seq /\ t.reads = u.reads
    BY <1>2 DEF TypeOK, LedgerTypeOK, Transactions
  <2> QED
    BY <2>1 DEF PoolFits, TxFits
<1>3. ASSUME NEW r \in Requests, Brought(r, t)
      PROVE  TxFits(t)
  BY <1>3 DEF Brought, Tx, TxFits, Reads, MayApprove
<1> QED
  BY <1>1, <1>2, <1>3, PoolSteps DEF Outside

(***************************************************************************)
(* A commit without force is unanimous                                     *)
(***************************************************************************)

AllRecorded(rec, s, d) == \A o \in Orgs : <<o, s, d>> \in rec

NextRecorded ==
  \A o \in Orgs : approved[o].next # None => <<o, Height + 1, approved[o].next>> \in record

CommitAgreed ==
  \A r \in Requests :
    pc[r] = "commit" /\ ~want[r].force => AllRecorded(record, seq[r], want[r].def)

TxAgreed ==
  \A t \in pool : t.kind = "commit" /\ ~t.forced => AllRecorded(record, t.seq, t.def)

(* The approvals behind a commit are on record from the moment readiness   *)
(* was read, in the request and then in its transaction.                   *)
UnanimousInv ==
  PoolFits /\ NextRecorded /\ CommitAgreed /\ TxAgreed /\ UnforcedIsUnanimous

LEMMA NextRecordedNext ==
  ASSUME TypeOK, UnanimousInv, [Next]_vars
  PROVE  NextRecorded'
<1> USE DEF UnanimousInv
<1>1. CASE UNCHANGED <<history, approved, inits, record>>
  BY <1>1 DEF NextRecorded
<1>2. ASSUME NEW o \in Orgs, NEW s \in {Height, Height + 1}, NEW d \in Definitions,
             Approved(o, s, d)
      PROVE  NextRecorded'
  BY <1>2 DEF Approved, NextRecorded, TypeOK, LedgerTypeOK, Approval
<1>3. ASSUME NEW d, NEW forced, Committed(d, forced)
      PROVE  NextRecorded'
  BY <1>3 DEF Committed, NextRecorded
<1>4. ASSUME NEW v, Inited(v)
      PROVE  NextRecorded'
  BY <1>4 DEF Inited, NextRecorded
<1> QED
  BY <1>1, <1>2, <1>3, <1>4, LedgerSteps DEF ApprovedStep, CommittedStep, InitedStep

LEMMA CommitAgreedNext ==
  ASSUME TypeOK, UnanimousInv, [Next]_vars
  PROVE  CommitAgreed'
<1> SUFFICES ASSUME NEW r \in Requests, pc'[r] = "commit", ~want'[r].force
             PROVE  AllRecorded(record', seq'[r], want'[r].def)
  BY DEF CommitAgreed
<1>1. record \subseteq record'
  BY NextGrows DEF Grown
<1>2. CASE pc[r] = "commit" /\ seq'[r] = seq[r] /\ want'[r] = want[r]
  BY <1>1, <1>2 DEF UnanimousInv, CommitAgreed, AllRecorded
<1>3. CASE CheckReady(r)
  <2>1. /\ seq[r] = Height + 1 /\ Approvals(want[r].def) = Orgs
        /\ want' = want /\ seq' = seq
    BY <1>3 DEF CheckReady, MayCheck, isReadyToCommit, CheckCommitReadiness, Approvals,
      Goto, TypeOK
  <2>2. want[r].def # None
    BY DefinitionsAssumption DEF TypeOK
  <2>3. \A o \in Orgs : approved[o].next = want[r].def
    BY <2>1 DEF Approvals
  <2> QED
    BY <1>1, <2>1, <2>2, <2>3 DEF UnanimousInv, NextRecorded, AllRecorded
<1>4. ASSUME NEW s \in Requests, Handle(s), ~CheckReady(r)
      PROVE  pc[r] = "commit" /\ seq'[r] = seq[r] /\ want'[r] = want[r]
  BY <1>4 DEF Handle, QueryCommitted, Calculate, Approve, TakeApproval, CheckReady, Commit,
    SendNothing, TakeCommit, InitChaincode, TakeInit, Goto, TypeOK
<1>5. ASSUME NEW s \in Requests, Mismatch(s) \/ Fail(s) \/ Unreported(s) \/ Retry(s)
      PROVE  pc[r] = "commit" /\ seq'[r] = seq[r] /\ want'[r] = want[r]
  BY <1>5 DEF Mismatch, Fail, Unreported, Retry, Goto, TypeOK
<1>6. CASE UNCHANGED <<pc, seq, want>>
  BY <1>2, <1>6
<1> QED
  BY <1>2, <1>3, <1>4, <1>5, <1>6 DEF Next, Validate, Elsewhere, request, vars

LEMMA TxAgreedNext ==
  ASSUME TypeOK, UnanimousInv, [Next]_vars
  PROVE  TxAgreed'
<1> SUFFICES ASSUME NEW t \in pool', t.kind = "commit", ~t.forced
             PROVE  AllRecorded(record', t.seq, t.def)
  BY DEF TxAgreed
<1>1. record \subseteq record'
  BY NextGrows DEF Grown
<1>2. CASE t \in pool
  BY <1>1, <1>2 DEF UnanimousInv, TxAgreed, AllRecorded
<1>3. ASSUME NEW u \in pool, t = [u EXCEPT !.req = None]
      PROVE  AllRecorded(record', t.seq, t.def)
  <2>1. t.kind = u.kind /\ t.seq = u.seq /\ t.def = u.def /\ t.forced = u.forced
    BY <1>3 DEF TypeOK, LedgerTypeOK, Transactions
  <2> QED
    BY <1>1, <2>1 DEF UnanimousInv, TxAgreed, AllRecorded
<1>4. ASSUME NEW r \in Requests, Brought(r, t)
      PROVE  AllRecorded(record', t.seq, t.def)
  BY <1>1, <1>4 DEF Brought, Tx, UnanimousInv, CommitAgreed, AllRecorded
<1> QED
  BY <1>2, <1>3, <1>4, PoolSteps DEF Outside

LEMMA UnforcedNext ==
  ASSUME TypeOK, UnanimousInv, [Next]_vars
  PROVE  UnforcedIsUnanimous'
<1>1. Grown
  BY NextGrows
<1>2. CASE history' = history
  BY <1>1, <1>2 DEF Grown, UnanimousInv, UnforcedIsUnanimous
<1>3. ASSUME NEW d \in Definitions, NEW forced \in BOOLEAN, Committed(d, forced),
             ~forced => AllRecorded(record, Height + 1, d)
      PROVE  UnforcedIsUnanimous'
  <2>1. /\ Len(history') = Height + 1 /\ record' = record
        /\ history'[Height + 1] = [def |-> d, forced |-> forced]
        /\ \A i \in 1 .. Height : history'[i] = history[i]
    BY <1>3, CommittedType
  <2>2. Height \in Nat
    BY LenProperties DEF TypeOK, LedgerTypeOK
  <2> SUFFICES ASSUME NEW i \in 1 .. Height + 1, ~history'[i].forced, NEW o \in Orgs
               PROVE  <<o, i, history'[i].def>> \in record
    BY <2>1 DEF UnforcedIsUnanimous
  <2>3. CASE i = Height + 1
    BY <1>3, <2>1, <2>3 DEF AllRecorded
  <2>4. CASE i \in 1 .. Height
    BY <2>1, <2>4 DEF UnanimousInv, UnforcedIsUnanimous
  <2> QED
    BY <2>2, <2>3, <2>4
<1>4. CASE CommittedStep
  <2>1. ASSUME NEW t \in pool, t.kind = "commit", t.seq = Height + 1, Committed(t.def, t.forced)
        PROVE  UnforcedIsUnanimous'
    <3>1. t.def \in Definitions /\ t.forced \in BOOLEAN
      BY DEF TypeOK, LedgerTypeOK, Transactions
    <3>2. ~t.forced => AllRecorded(record, Height + 1, t.def)
      BY <2>1 DEF UnanimousInv, TxAgreed
    <3> QED
      BY <1>3, <2>1, <3>1, <3>2
  <2> QED
    BY <1>4, <2>1 DEF CommittedStep
<1> QED
  BY <1>2, <1>4, LedgerSteps
  DEF UnanimousInv, ApprovedStep, Approved, InitedStep, Inited

(* A definition that a request commits without force was approved for its  *)
(* sequence by every organisation.                                         *)
THEOREM UnanimousProved == Spec => []UnforcedIsUnanimous
<1>1. Init => UnanimousInv
  <2> SUFFICES ASSUME Init
               PROVE  UnanimousInv
    OBVIOUS
  <2>1. PoolFits /\ TxAgreed /\ CommitAgreed
    BY DEF Init, LedgerInit, PoolFits, TxAgreed, CommitAgreed
  <2>2. NextRecorded
    BY DEF Init, LedgerInit, NextRecorded, NoApproval
  <2>3. UnforcedIsUnanimous
    <3>1. CASE history = <<>>
      BY <3>1 DEF UnforcedIsUnanimous
    <3>2. ASSUME NEW d, history = <<[def |-> d, forced |-> TRUE]>>
          PROVE  UnforcedIsUnanimous
      BY <3>2 DEF UnforcedIsUnanimous
    <3> QED
      BY <3>1, <3>2 DEF Init, LedgerInit
  <2> QED
    BY <2>1, <2>2, <2>3 DEF UnanimousInv
<1>2. TypeOK /\ UnanimousInv /\ [Next]_vars => UnanimousInv'
  BY PoolFitsNext, NextRecordedNext, CommitAgreedNext, TxAgreedNext, UnforcedNext
  DEF UnanimousInv
<1>3. UnanimousInv => UnforcedIsUnanimous
  BY DEF UnanimousInv
<1> QED
  BY <1>1, <1>2, <1>3, TypeCorrect, PTL DEF Spec

(***************************************************************************)
(* The answer "committed"                                                  *)
(***************************************************************************)

(* In history h a definition with d's version and init flag was committed; *)
(* then or later one with version v.                                       *)
Fits(c, d) == c.version = d.version /\ c.init = d.init
Stands(h, d, v) ==
  \E i, j \in 1 .. Len(h) : i <= j /\ Fits(h[i].def, d) /\ h[j].def.version = v

(* What CommittedIsTrue says of one request. *)
Done(h, n, d) ==
  \E i \in 1 .. Len(h) :
    /\ Fits(h[i].def, d)
    /\ d.init => \/ \E k \in 1 .. Len(n) : n[k] = d.version
                 \/ \E j \in i + 1 .. Len(h) : h[j].def.version # d.version

LEMMA StandsStays ==
  ASSUME NEW h, NEW longer, Extends(longer, h), NEW d, NEW v, Stands(h, d, v)
  PROVE  Stands(longer, d, v)
<1>1. PICK i \in 1 .. Len(h), j \in 1 .. Len(h) :
        i <= j /\ Fits(h[i].def, d) /\ h[j].def.version = v
  BY DEF Stands
<1>2. /\ i \in 1 .. Len(longer) /\ j \in 1 .. Len(longer)
      /\ longer[i] = h[i] /\ longer[j] = h[j]
  BY <1>1 DEF Extends
<1> QED
  BY <1>1, <1>2 DEF Stands

LEMMA DoneStays ==
  ASSUME NEW h, NEW longer, Extends(longer, h), NEW n, NEW more, Extends(more, n),
         NEW d, Done(h, n, d)
  PROVE  Done(longer, more, d)
<1>1. PICK i \in 1 .. Len(h) :
        /\ Fits(h[i].def, d)
        /\ d.init => \/ \E k \in 1 .. Len(n) : n[k] = d.version
                     \/ \E j \in i + 1 .. Len(h) : h[j].def.version # d.version
  BY DEF Done
<1>2. i \in 1 .. Len(longer) /\ longer[i] = h[i]
  BY DEF Extends
<1>3. ASSUME NEW k \in 1 .. Len(n), n[k] = d.version
      PROVE  \E x \in 1 .. Len(more) : more[x] = d.version
  <2>1. k \in 1 .. Len(more) /\ more[k] = d.version
    BY <1>3 DEF Extends
  <2> QED
    BY <2>1
<1>4. ASSUME NEW j \in i + 1 .. Len(h), h[j].def.version # d.version
      PROVE  \E x \in i + 1 .. Len(longer) : longer[x].def.version # d.version
  <2>1. j \in i + 1 .. Len(longer) /\ longer[j] = h[j]
    BY <1>4 DEF Extends
  <2> QED
    BY <1>4, <2>1
<1> QED
  BY <1>1, <1>2, <1>3, <1>4 DEF Done

(* Where the wanted definition stands and the version there was            *)
(* initialised, the request is done: either it is the wanted version or    *)
(* another version came in between.                                        *)
LEMMA StandsIsDone ==
  ASSUME NEW h, Len(h) \in Nat, NEW n, NEW d, NEW v, Stands(h, d, v),
         NEW k \in 1 .. Len(n), n[k] = v
  PROVE  Done(h, n, d)
<1>1. PICK i \in 1 .. Len(h), j \in 1 .. Len(h) :
        i <= j /\ Fits(h[i].def, d) /\ h[j].def.version = v
  BY DEF Stands
<1>2. CASE v = d.version
  BY <1>1, <1>2 DEF Done
<1>3. CASE v # d.version
  <2>1. j # i
    BY <1>1, <1>3 DEF Fits
  <2>2. j \in i + 1 .. Len(h)
    BY <1>1, <2>1
  <2> QED
    BY <1>1, <1>3, <2>2 DEF Done
<1> QED
  BY <1>2, <1>3

Waits(kind) == CASE kind = "approve" -> "awaitApproval"
                 [] kind = "commit"  -> "awaitCommit"
                 [] kind = "init"    -> "awaitInit"

(* A transaction with an owner is the one its owner waits for. *)
TxOwned ==
  \A t \in pool : t.req # None =>
    /\ told[t.req] = "none" /\ pc[t.req] = Waits(t.kind)
    /\ t.kind = "commit" => t.def = want[t.req].def
    /\ t.kind = "init" /\ ~unreported[t.req] =>
         Stands(history, want[t.req].def, t.def.version)

TxSingle == \A t, u \in pool : t.req # None /\ t.req = u.req => t = u

(* What a request knows by where it stands, and by the verdict it was told. *)
Knows(r) ==
  /\ told[r] # "none" => pc[r] \in {"awaitApproval", "awaitCommit", "awaitInit"}
  /\ told[r] = "valid" /\ pc[r] = "awaitCommit" =>
       Stands(history, want[r].def, want[r].def.version)
  /\ ~unreported[r] /\ pc[r] \in {"init", "awaitInit"} =>
       Stands(history, want[r].def, want[r].def.version)
  /\ ~unreported[r] /\ told[r] = "valid" /\ pc[r] = "awaitInit" =>
       Done(history, inits, want[r].def)
  /\ ~unreported[r] /\ pc[r] = "committed" => Done(history, inits, want[r].def)

AnswerInv == TxOwned /\ TxSingle /\ \A r \in Requests : Knows(r)

(* The definition committed now stands. *)
LEMMA CurrentStands ==
  ASSUME TypeOK, Height > 0, NEW d, Fits(Current, d)
  PROVE  Stands(history, d, d.version) /\ Stands(history, d, Current.version)
<1>1. Height \in 1 .. Height /\ Height <= Height
  BY LenProperties DEF TypeOK, LedgerTypeOK
<1>2. Fits(history[Height].def, d) /\ history[Height].def.version = d.version
  BY DEF Fits, Current
<1> QED
  BY <1>1, <1>2 DEF Stands, Current

(* What stood before the current definition stands with its version. *)
LEMMA StandsNow ==
  ASSUME TypeOK, NEW d, NEW v, Stands(history, d, v)
  PROVE  Height > 0 /\ Stands(history, d, Current.version)
<1>1. PICK i \in 1 .. Height : Fits(history[i].def, d)
  BY DEF Stands
<1>2. Height \in Nat /\ Height \in 1 .. Height /\ i <= Height
  BY <1>1, LenProperties DEF TypeOK, LedgerTypeOK
<1> QED
  BY <1>1, <1>2 DEF Stands, Current

LEMMA StandsIsDoneWithoutInit ==
  ASSUME NEW h, NEW n, NEW d, NEW v, Stands(h, d, v), ~d.init
  PROVE  Done(h, n, d)
BY DEF Stands, Done

LEMMA KnowsStays ==
  ASSUME TypeOK, Grown, NEW r \in Requests, Knows(r),
         pc'[r] = pc[r], told'[r] = told[r], want'[r] = want[r],
         unreported'[r] = unreported[r]
  PROVE  Knows(r)'
<1>1. ASSUME NEW v, Stands(history, want[r].def, v)
      PROVE  Stands(history', want'[r].def, v)
  BY <1>1, StandsStays DEF Grown
<1>2. Done(history, inits, want[r].def) => Done(history', inits', want'[r].def)
  BY DoneStays DEF Grown
<1> QED
  BY <1>1, <1>2 DEF Knows

(* The steps of a request. *)
LEMMA KnowsHandle ==
  ASSUME TypeOK, AnswerInv, NEW r \in Requests, Handle(r)
  PROVE  Knows(r)'
<1> DEFINE d == want[r].def
<1> USE DEF Goto, ledger
<1>1. Knows(r) /\ d \in Definitions /\ d.init \in BOOLEAN
  BY DefinitionsAssumption DEF AnswerInv, TypeOK
<1>2. CASE QueryCommitted(r)
  <2>1. /\ told'[r] = "none" /\ want' = want /\ history' = history /\ inits' = inits
        /\ pc'[r] \in {"approvals", "init", "committed"}
    BY <1>1, <1>2 DEF QueryCommitted, Knows, TypeOK
  <2>2. CASE pc'[r] = "approvals"
    BY <2>1, <2>2 DEF Knows
  <2>3. CASE pc'[r] # "approvals"
    <3>1. Height > 0 /\ Fits(Current, d) /\ (pc'[r] = "committed" => ~d.init)
      BY <1>1, <1>2, <2>3 DEF QueryCommitted, foundCommitted, ChaincodeDefinitions, Fits, TypeOK
    <3>2. Stands(history, d, d.version)
      BY <3>1, CurrentStands
    <3>3. pc'[r] = "committed" => Done(history, inits, d)
      BY <3>1, <3>2, StandsIsDoneWithoutInit
    <3> QED
      BY <2>1, <3>2, <3>3 DEF Knows
  <2> QED
    BY <2>2, <2>3
<1>3. CASE \/ Calculate(r) \/ Approve(r) \/ CheckReady(r) \/ Commit(r) \/ SendNothing(r)
  <2>1. told'[r] = "none"
    BY <1>1, <1>3 DEF Calculate, Approve, CheckReady, Commit, SendNothing, Knows, TypeOK
  <2>2. pc'[r] \notin {"init", "awaitInit", "committed"}
    BY <1>3 DEF Calculate, Approve, CheckReady, Commit, SendNothing, TypeOK
  <2> QED
    BY <2>1, <2>2 DEF Knows
<1>4. CASE TakeApproval(r)
  <2>1. told'[r] = "none" /\ pc'[r] \in {"ready", "failed"}
    BY <1>4 DEF TakeApproval, TypeOK
  <2> QED
    BY <2>1 DEF Knows
<1>5. CASE TakeCommit(r)
  <2>1. /\ told'[r] = "none" /\ want' = want /\ history' = history /\ inits' = inits
        /\ pc'[r] \in {"failed", "init", "committed"}
    BY <1>5 DEF TakeCommit, TypeOK
  <2>2. pc'[r] # "failed" => Stands(history, d, d.version)
    BY <1>1, <1>5 DEF TakeCommit, Knows, TypeOK
  <2>3. pc'[r] = "committed" => ~d.init
    BY <1>1, <1>5 DEF TakeCommit, TypeOK
  <2>4. pc'[r] = "committed" => Done(history, inits, d)
    BY <2>2, <2>3, StandsIsDoneWithoutInit
  <2> QED
    BY <2>1, <2>2, <2>4 DEF Knows
<1>6. CASE InitChaincode(r)
  <2>1. /\ told'[r] = "none" /\ want' = want /\ history' = history /\ inits' = inits
        /\ unreported' = unreported
        /\ pc[r] = "init" /\ pc'[r] \in {"failed", "awaitInit", "committed"}
    BY <1>1, <1>6 DEF InitChaincode, Submit, Knows, TypeOK
  <2>2. ASSUME pc'[r] = "committed", ~unreported[r]
        PROVE  Done(history, inits, d)
    <3>1. inits # <<>> /\ inits[Len(inits)] = Current.version
      BY <1>6, <2>2 DEF InitChaincode, AlreadyInitialised, Initialised, TypeOK
    <3>2. Len(inits) \in 1 .. Len(inits) /\ Height \in Nat
      BY <3>1, LenProperties, EmptySeq DEF TypeOK, LedgerTypeOK
    <3>3. Stands(history, d, Current.version)
      BY <1>1, <2>1, <2>2, StandsNow DEF Knows
    <3> QED
      BY <3>1, <3>2, <3>3, StandsIsDone
  <2> QED
    BY <1>1, <2>1, <2>2 DEF Knows
<1>7. CASE TakeInit(r)
  <2>1. /\ told'[r] = "none" /\ want' = want /\ history' = history /\ inits' = inits
        /\ unreported' = unreported /\ pc'[r] \in {"failed", "committed"}
    BY <1>7 DEF TakeInit, TypeOK
  <2>2. pc'[r] = "committed" => told[r] = "valid" /\ pc[r] = "awaitInit"
    BY <1>7 DEF TakeInit, TypeOK
  <2> QED
    BY <1>1, <2>1, <2>2 DEF Knows
<1> QED
  BY <1>2, <1>3, <1>4, <1>5, <1>6, <1>7 DEF Handle

(* A step of one request leaves the others where they are. *)
LEMMA OthersStay ==
  ASSUME TypeOK, NEW s \in Requests,
         Handle(s) \/ Mismatch(s) \/ Fail(s) \/ Unreported(s) \/ Retry(s)
  PROVE  /\ want' = want
         /\ \A r \in Requests \ {s} :
              pc'[r] = pc[r] /\ told'[r] = told[r] /\ unreported'[r] = unreported[r]
<1> USE DEF Goto, TypeOK
<1>1. CASE Handle(s)
  BY <1>1 DEF Handle, QueryCommitted, Calculate, Approve, TakeApproval, CheckReady, Commit,
    SendNothing, TakeCommit, InitChaincode, TakeInit
<1>2. CASE Mismatch(s) \/ Fail(s) \/ Unreported(s) \/ Retry(s)
  BY <1>2 DEF Mismatch, Fail, Unreported, Retry, Leave
<1> QED
  BY <1>1, <1>2

LEMMA KnowsFailure ==
  ASSUME TypeOK, NEW r \in Requests, Knows(r),
         Mismatch(r) \/ Fail(r) \/ Unreported(r) \/ Retry(r)
  PROVE  Knows(r)'
<1> USE DEF Goto, TypeOK, Knows
<1>1. CASE Mismatch(r)
  BY <1>1 DEF Mismatch
<1>2. CASE Fail(r)
  BY <1>2 DEF Fail, Leave
<1>3. CASE Unreported(r)
  BY <1>3 DEF Unreported, Leave
<1>4. CASE Retry(r)
  BY <1>4 DEF Retry
<1> QED
  BY <1>1, <1>2, <1>3, <1>4

(* The verdict on its transaction tells a request what has happened. *)
LEMMA KnowsVerdict ==
  ASSUME TypeOK, AnswerInv, Grown, NEW t \in pool, NEW verdict \in {"valid", "invalid"},
         Validate(t, verdict), t.req # None
  PROVE  Knows(t.req)'
<1> DEFINE r == t.req
           d == want[r].def
<1>1. /\ t \in Transactions(Requests) /\ r \in Requests
      /\ t.kind \in {"approve", "commit", "init"} /\ t.def \in Definitions
      /\ t.forced \in BOOLEAN /\ t.def.version \in Versions
  BY DEF TypeOK, LedgerTypeOK, Transactions, Versions
<1>2. /\ told'[r] = verdict /\ pc' = pc /\ want' = want /\ unreported' = unreported
      /\ pc[r] = Waits(t.kind)
  BY <1>1 DEF Validate, TypeOK, AnswerInv, TxOwned
<1>3. CASE verdict = "invalid"
  <2>1. ASSUME NEW v, Stands(history, d, v)
        PROVE  Stands(history', d, v)
    BY <2>1, StandsStays DEF Grown
  <2> QED
    BY <1>1, <1>2, <1>3, <2>1 DEF AnswerInv, Knows, Waits
<1>4. CASE verdict = "valid" /\ t.kind = "approve"
  BY <1>2, <1>4 DEF Knows, Waits
<1>5. CASE verdict = "valid" /\ t.kind = "commit"
  <2>1. Committed(t.def, t.forced) /\ t.def = d
    BY <1>5 DEF Validate, Applied, AnswerInv, TxOwned
  <2>2. Len(history') = Height + 1 /\ history'[Height + 1] = [def |-> d, forced |-> t.forced]
    BY <1>1, <2>1, CommittedType
  <2>3. Height \in Nat
    BY LenProperties DEF TypeOK, LedgerTypeOK
  <2>4. Stands(history', d, d.version)
    <3>1. Height + 1 \in 1 .. Len(history') /\ Height + 1 <= Height + 1
      BY <2>2, <2>3
    <3>2. history'[Height + 1].def = d /\ Fits(d, d)
      BY <2>2 DEF Fits
    <3> QED
      BY <3>1, <3>2 DEF Stands
  <2> QED
    BY <1>2, <1>5, <2>4 DEF Knows, Waits
<1>6. CASE verdict = "valid" /\ t.kind = "init"
  <2>1. Inited(t.def.version)
    BY <1>6 DEF Validate, Applied
  <2>2. Len(inits') = Len(inits) + 1 /\ inits'[Len(inits) + 1] = t.def.version
    BY <1>1, <2>1, InitedType
  <2>3. Len(inits) + 1 \in 1 .. Len(inits') /\ Len(history') \in Nat
    BY <2>2 DEF Grown, Extends
  <2>4. CASE unreported[r]
    BY <1>2, <1>6, <2>4 DEF Knows, Waits
  <2>5. CASE ~unreported[r]
    <3>1. Stands(history', d, t.def.version)
      BY <1>6, <2>5, StandsStays DEF AnswerInv, TxOwned, Grown
    <3>2. Done(history', inits', d)
      BY <2>2, <2>3, <3>1, StandsIsDone
    <3>3. Stands(history', d, d.version)
      BY <1>1, <1>2, <1>6, <2>5, StandsStays DEF AnswerInv, Knows, Waits, Grown
    <3> QED
      BY <1>2, <1>6, <3>2, <3>3 DEF Knows, Waits
  <2> QED
    BY <2>4, <2>5
<1> QED
  BY <1>1, <1>3, <1>4, <1>5, <1>6

LEMMA KnowsNext ==
  ASSUME TypeOK, AnswerInv, [Next]_vars, NEW r \in Requests
  PROVE  Knows(r)'
<1>1. Grown /\ Knows(r)
  BY NextGrows DEF AnswerInv
<1>2. ASSUME NEW s \in Requests,
             Handle(s) \/ Mismatch(s) \/ Fail(s) \/ Unreported(s) \/ Retry(s)
      PROVE  Knows(r)'
  <2>1. CASE s = r
    BY <1>1, <1>2, <2>1, KnowsHandle, KnowsFailure
  <2>2. CASE s # r
    BY <1>1, <1>2, <2>2, OthersStay, KnowsStays
  <2> QED
    BY <2>1, <2>2
<1>3. ASSUME NEW t \in pool, NEW verdict \in {"valid", "invalid"}, Validate(t, verdict)
      PROVE  Knows(r)'
  <2>1. CASE t.req = r
    BY <1>1, <1>3, <2>1, KnowsVerdict, RequestsAssumption
  <2>2. CASE t.req # r
    <3>1. /\ pc'[r] = pc[r] /\ told'[r] = told[r] /\ want'[r] = want[r]
          /\ unreported'[r] = unreported[r]
      BY <1>3, <2>2 DEF Validate
    <3> QED
      BY <1>1, <3>1, KnowsStays
  <2> QED
    BY <2>1, <2>2
<1>4. CASE Elsewhere \/ UNCHANGED vars
  <2>1. pc' = pc /\ told' = told /\ want' = want /\ unreported' = unreported
    BY <1>4 DEF Elsewhere, vars, request
  <2> QED
    BY <1>1, <2>1, KnowsStays
<1> QED
  BY <1>2, <1>3, <1>4 DEF Next

(* Who waits for the verdict on t goes on waiting while t is under way. *)
LEMMA OwnerWaits ==
  ASSUME TypeOK, AnswerInv, [Next]_vars, NEW t \in pool, t \in pool', t.req # None
  PROVE  /\ want'[t.req] = want[t.req] /\ pc'[t.req] = pc[t.req]
         /\ told'[t.req] = told[t.req] /\ unreported'[t.req] = unreported[t.req]
<1> DEFINE r == t.req
<1>1. r \in Requests /\ t.kind \in {"approve", "commit", "init"}
  BY DEF TypeOK, LedgerTypeOK, Transactions
<1>2. told[r] = "none" /\ pc[r] \in {"awaitApproval", "awaitCommit", "awaitInit"}
  BY <1>1 DEF AnswerInv, TxOwned, Waits
<1>3. ~Handle(r)
  BY <1>2 DEF Handle, QueryCommitted, Calculate, Approve, TakeApproval, CheckReady, Commit,
    SendNothing, TakeCommit, InitChaincode, TakeInit, Goto
<1>4. ~Mismatch(r) /\ ~Retry(r)
  BY <1>2 DEF Mismatch, Retry, Goto
<1>5. ~Leave(r)
  <2>1. \A u \in pool : [u EXCEPT !.req = None].req = None
    BY DEF TypeOK, LedgerTypeOK, Transactions
  <2>2. \A u \in pool : t # [u EXCEPT !.req = None]
    BY <2>1
  <2>3. t \notin pool \ {u \in pool : u.req = r}
    OBVIOUS
  <2>4. t \notin {[u EXCEPT !.req = None] : u \in {w \in pool : w.req = r}}
    BY <2>2
  <2> QED
    BY <2>3, <2>4 DEF Leave
<1>6. ASSUME NEW s \in Requests,
             Handle(s) \/ Mismatch(s) \/ Fail(s) \/ Unreported(s) \/ Retry(s)
      PROVE  s # r
  BY <1>3, <1>4, <1>5, <1>6 DEF Fail, Unreported
<1>7. ASSUME NEW u \in pool, NEW verdict \in {"valid", "invalid"}, Validate(u, verdict)
      PROVE  /\ want' = want /\ pc' = pc /\ unreported' = unreported
             /\ told'[r] = told[r]
  <2>1. t # u
    BY <1>7 DEF Validate
  <2>2. u.req # r
    BY <2>1 DEF AnswerInv, TxSingle
  <2> QED
    BY <1>1, <1>7, <2>2 DEF Validate
<1>8. CASE Elsewhere \/ UNCHANGED vars
  BY <1>8 DEF Elsewhere, vars, request
<1> QED
  BY <1>1, <1>6, <1>7, <1>8, OthersStay DEF Next

LEMMA TxOwnedNext ==
  ASSUME TypeOK, AnswerInv, [Next]_vars
  PROVE  TxOwned'
<1> SUFFICES ASSUME NEW t \in pool', t.req # None
             PROVE  /\ told'[t.req] = "none" /\ pc'[t.req] = Waits(t.kind)
                    /\ t.kind = "commit" => t.def = want'[t.req].def
                    /\ t.kind = "init" /\ ~unreported'[t.req] =>
                         Stands(history', want'[t.req].def, t.def.version)
  BY DEF TxOwned, Waits
<1>1. Grown
  BY NextGrows
<1>2. CASE t \in pool
  BY <1>1, <1>2, OwnerWaits, StandsStays DEF AnswerInv, TxOwned, Grown
<1>3. ASSUME NEW u \in pool, t = [u EXCEPT !.req = None]
      PROVE  FALSE
  BY <1>3 DEF TypeOK, LedgerTypeOK, Transactions
<1>4. ASSUME NEW r \in Requests, Brought(r, t)
      PROVE  /\ told'[t.req] = "none" /\ pc'[t.req] = Waits(t.kind)
             /\ t.kind = "commit" => t.def = want'[t.req].def
             /\ t.kind = "init" /\ ~unreported'[t.req] =>
                  Stands(history', want'[t.req].def, t.def.version)
  <2>1. t.req = r /\ Knows(r) /\ told' = told /\ want' = want /\ unreported' = unreported
    BY <1>4 DEF Brought, Tx, AnswerInv
  <2>2. told[r] = "none"
    BY <1>4, <2>1 DEF Brought, Knows
  <2>3. pc'[r] = Waits(t.kind) /\ (t.kind = "commit" => t.def = want[r].def)
    BY <1>4 DEF Brought, Tx, Waits
  <2>4. ASSUME t.kind = "init", ~unreported[r]
        PROVE  Stands(history', want[r].def, t.def.version)
    <3>1. pc[r] = "init" /\ t.def = Current
      BY <1>4, <2>4 DEF Brought, Tx
    <3>2. Stands(history, want[r].def, Current.version)
      BY <2>1, <2>4, <3>1, StandsNow DEF Knows
    <3> QED
      BY <1>1, <3>1, <3>2, StandsStays DEF Grown
  <2> QED
    BY <2>1, <2>2, <2>3, <2>4
<1> QED
  BY <1>2, <1>3, <1>4, PoolSteps DEF Outside

LEMMA TxSingleNext ==
  ASSUME TypeOK, AnswerInv, [Next]_vars
  PROVE  TxSingle'
<1> SUFFICES ASSUME NEW t \in pool', NEW u \in pool', t.req # None, t.req = u.req
             PROVE  t = u
  BY DEF TxSingle
<1>1. ASSUME NEW x \in pool', x.req # None, x \notin pool
      PROVE  Brought(x.req, x) /\ x.req \in Requests
  <2>1. ASSUME NEW y \in pool, x = [y EXCEPT !.req = None]
        PROVE  FALSE
    BY <1>1, <2>1 DEF TypeOK, LedgerTypeOK, Transactions
  <2>2. PICK r \in Requests : Brought(r, x)
    BY <1>1, <2>1, PoolSteps DEF Outside
  <2> QED
    BY <2>2 DEF Brought, Tx
<1>2. ASSUME NEW x \in pool', NEW y \in pool, x.req # None, x.req = y.req
      PROVE  x \in pool
  <2>1. pc[y.req] \in {"awaitApproval", "awaitCommit", "awaitInit"}
    BY <1>2 DEF AnswerInv, TxOwned, Waits, TypeOK, LedgerTypeOK, Transactions
  <2> QED
    BY <1>1, <1>2, <2>1 DEF Brought
<1>3. CASE t \in pool /\ u \in pool
  BY <1>3 DEF AnswerInv, TxSingle
<1>4. CASE t \notin pool /\ u \notin pool
  BY <1>1, <1>4 DEF Brought
<1> QED
  BY <1>2, <1>3, <1>4

(* A request answered as committed, with a verdict that was reported, finds *)
(* its version and init flag committed and, where that is needed, its       *)
(* version initialised or replaced by another.                              *)
THEOREM AnswerProved == Spec => []CommittedIsTrue
<1>1. Init => AnswerInv
  BY DEF Init, LedgerInit, AnswerInv, TxOwned, TxSingle, Knows
<1>2. TypeOK /\ AnswerInv /\ [Next]_vars => AnswerInv'
  BY KnowsNext, TxOwnedNext, TxSingleNext DEF AnswerInv
<1>3. AnswerInv => CommittedIsTrue
  BY DEF AnswerInv, Knows, Done, Fits, CommittedIsTrue
<1> QED
  BY <1>1, <1>2, <1>3, TypeCorrect, PTL DEF Spec
=============================================================================
