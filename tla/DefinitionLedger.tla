-------------------------- MODULE DefinitionLedger --------------------------
(***************************************************************************)
(* One chaincode on one channel, as Fabric's _lifecycle keeps it: the      *)
(* definitions committed so far, what each organisation has approved, and  *)
(* the transactions under way.  Fabric is not part of the repository; its  *)
(* rules are those the handlers of service/plane rely on and whose         *)
(* refusals they report.                                                   *)
(*                                                                         *)
(* A definition is what the handlers send and compare: version, policy     *)
(* and whether the chaincode must be initialised.                          *)
(***************************************************************************)
EXTENDS Integers, Sequences

CONSTANTS Orgs,         \* the application organisations of the channel
          Quorums,      \* sets of organisations that may endorse a commit
          Definitions,
          None          \* no definition; nobody

ASSUME DefinitionsAssumption ==
  /\ Orgs # {}
  /\ \A d \in Definitions : d.init \in BOOLEAN
  /\ None \notin Definitions

VARIABLES history,    \* the definitions committed, in sequence order
          approved,   \* per organisation: at the committed sequence, at the next
          inits,      \* the versions initialised, in order
          pool,       \* transactions endorsed and not validated yet
          record      \* every approval there was: <<organisation, sequence, definition>>

ledger == <<history, approved, inits, pool, record>>

(* The committed sequence, and the definition there when it is not 0. *)
Height  == Len(history)
Current == history[Height].def

Versions == {d.version : d \in Definitions}
Maybe == Definitions \cup {None}

Approval == [cur : Maybe, next : Maybe]
NoApproval == [cur |-> None, next |-> None]

(* What a transaction read: see Reads. *)
ReadSets == [height : Nat, approved : [Orgs -> Approval], inits : Seq(Versions)]

Transactions(Owners) ==
  [kind : {"approve", "commit", "init"}, req : Owners \cup {None}, org : Orgs,
   seq : Nat, def : Definitions, forced : BOOLEAN, reads : ReadSets]

LedgerTypeOK(Owners) ==
  /\ history \in Seq([def : Definitions, forced : BOOLEAN])
  /\ approved \in [Orgs -> Approval]
  /\ inits \in Seq(Versions)
  /\ record \subseteq Orgs \X Nat \X Definitions
  /\ pool \subseteq Transactions(Owners)

(* A new channel, or one with a definition that a quorum has approved. The *)
(* other organisations may have approved nothing or something else.        *)
LedgerInit ==
  /\ pool = {}
  /\ \/ /\ history = <<>>
        /\ approved = [o \in Orgs |-> NoApproval]
        /\ inits = <<>>
     \/ \E d \in Definitions, q \in Quorums, cur \in [Orgs -> Maybe] :
          /\ \A o \in q : cur[o] = d
          /\ history = <<[def |-> d, forced |-> TRUE]>>
          /\ approved = [o \in Orgs |-> [cur |-> cur[o], next |-> None]]
          /\ inits \in IF d.init THEN {<<>>, <<d.version>>} ELSE {<<>>}
  /\ record = {r \in Orgs \X {1} \X Definitions : approved[r[1]].cur = r[3]}

(* The version of the chaincode that is initialised. *)
Initialised(v) == inits # <<>> /\ inits[Len(inits)] = v

(* What the endorsers read, and what must be unchanged at validation: the  *)
(* committed sequence, the organisation's own approvals or every           *)
(* organisation's next one, and for an initialisation the key it writes.   *)
Reads(kind, o) ==
  [height   |-> IF kind = "init" THEN 0 ELSE Height,
   approved |-> [p \in Orgs |->
                   CASE kind = "approve" /\ p = o -> approved[p]
                     [] kind = "commit" -> [NoApproval EXCEPT !.next = approved[p].next]
                     [] OTHER -> NoApproval],
   inits    |-> IF kind = "init" THEN inits ELSE <<>>]

(* ApproveChaincodeDefinitionForMyOrg: the next sequence with a new       *)
(* definition, or the committed one with the committed definition.        *)
MayApprove(o, s, d) ==
  \/ s = Height + 1 /\ approved[o].next # d
  \/ s = Height /\ s > 0 /\ Current = d

(* CommitChaincodeDefinition: each endorser's organisation has approved it. *)
MayCommit(q, s, d) == s = Height + 1 /\ \A o \in q : approved[o].next = d

(* CheckCommitReadiness answers for the next sequence only. *)
MayCheck(s) == s = Height + 1
Approvals(d) == {o \in Orgs : approved[o].next = d}

Approved(o, s, d) ==
  /\ approved' = IF s = Height THEN [approved EXCEPT ![o].cur = d]
                               ELSE [approved EXCEPT ![o].next = d]
  /\ record' = record \cup {<<o, s, d>>}
  /\ UNCHANGED <<history, inits>>

Committed(d, forced) ==
  /\ history' = Append(history, [def |-> d, forced |-> forced])
  /\ approved' = [o \in Orgs |-> [cur |-> approved[o].next, next |-> None]]
  /\ UNCHANGED <<inits, record>>

Inited(v) ==
  /\ inits' = Append(inits, v)
  /\ UNCHANGED <<history, approved, record>>

(* Transaction t is ordered and found valid: what it read is unchanged. *)
Valid(t) == t.reads = Reads(t.kind, t.org)

(* Sequences and initialisations only grow. *)
MayBecomeValid(t) == IF t.kind = "init" THEN t.reads.inits = inits ELSE t.reads.height = Height

Applied(t) ==
  \/ t.kind = "approve" /\ Approved(t.org, t.seq, t.def)
  \/ t.kind = "commit"  /\ Committed(t.def, t.forced)
  \/ t.kind = "init"    /\ Inited(t.def.version)

(* The handlers of this and of the other services that do one step for an  *)
(* administrator: each has a transaction endorsed that no request of       *)
(* LifecycleFull waits for, and what becomes of it is its own affair.      *)
Endorsed(kind, o, s, d) ==
  /\ pool' = pool \cup {[kind |-> kind, req |-> None, org |-> o, seq |-> s, def |-> d,
                         forced |-> TRUE, reads |-> Reads(kind, o)]}
  /\ UNCHANGED <<history, approved, inits, record>>

(* The sequence is the administrator's; a wrong one is refused.            *)
LifecycleApproveForMyOrg(o) ==
  \E d \in Definitions, s \in {Height, Height + 1} :
    MayApprove(o, s, d) /\ Endorsed("approve", o, s, d)

(* For a commit or an initialisation it does not matter who asks.          *)
Anyone == CHOOSE o \in Orgs : TRUE

(* Readiness is not asked for: the endorsers of a quorum decide, and if    *)
(* they never agree there is no transaction.                               *)
LifecycleCommit ==
  \E d \in Definitions, q \in Quorums :
    MayCommit(q, Height + 1, d) /\ Endorsed("commit", Anyone, Height + 1, d)

LifecycleInit ==
  /\ Height > 0 /\ Current.init /\ ~Initialised(Current.version)
  /\ Endorsed("init", Anyone, Height, Current)

MovedElsewhere ==
  (\E o \in Orgs : LifecycleApproveForMyOrg(o)) \/ LifecycleCommit \/ LifecycleInit
=============================================================================
