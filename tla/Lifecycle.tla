----------------------------- MODULE Lifecycle -----------------------------
(***************************************************************************)
(* LifecycleFull: bring one chaincode of a channel to a wanted definition. *)
(* Every request reads what is committed, reads what its organisation has  *)
(* approved, approves if that differs, asks whether all organisations      *)
(* agree, commits and initialises.  Each of these steps is a call or a     *)
(* transaction of its own, and what was read may have changed by the next. *)
(*                                                                         *)
(* Submitting and awaiting a transaction is refined in SubmitAll (an       *)
(* approval) and SubmitFirst (a commit, an initialisation); here it either *)
(* reports the verdict, or fails whatever becomes of the transaction, or,  *)
(* with SubscribeTx, reports a success that nobody has seen.               *)
(***************************************************************************)
EXTENDS DefinitionLedger

CONSTANTS Requests, Of,   \* requests, and the organisation of each one's server
          MaxMoves,       \* bound: changes made elsewhere
          MaxFaults       \* bound: failures of a call, stream or transaction

ASSUME RequestsAssumption == Of \in [Requests -> Orgs] /\ None \notin Requests
ASSUME BoundsAssumption == MaxMoves \in Nat /\ MaxFaults \in Nat

VARIABLES pc, want, seen, seq, tries, told,
          unreported,     \* the last success was reported by nobody
          moves, faults   \* what is left of the bounds

request == <<pc, want, seen, seq, tries, told, unreported>>
vars == <<ledger, request, moves, faults>>

Answers == {"committed", "pending", "failed"}
Steps == {"query", "approvals", "approve", "awaitApproval", "ready", "commit",
          "awaitCommit", "awaitNothing", "init", "awaitInit"}

defaultTryCount == 3

TypeOK ==
  /\ LedgerTypeOK(Requests)
  /\ pc \in [Requests -> Steps \cup Answers]
  /\ want \in [Requests -> [def : Definitions, force : BOOLEAN]]
  /\ seen \in [Requests -> Nat]
  /\ seq \in [Requests -> Nat]
  /\ tries \in [Requests -> 0 .. defaultTryCount - 1]
  /\ told \in [Requests -> {"none", "valid", "invalid"}]
  /\ unreported \in [Requests -> BOOLEAN]
  /\ moves \in Nat
  /\ faults \in Nat

Init ==
  /\ LedgerInit
  /\ pc = [r \in Requests |-> "query"]
  /\ want \in [Requests -> [def : Definitions, force : BOOLEAN]]
  /\ seen = [r \in Requests |-> 0]
  /\ seq = [r \in Requests |-> 0]
  /\ tries = [r \in Requests |-> 0]
  /\ told = [r \in Requests |-> "none"]
  /\ unreported = [r \in Requests |-> FALSE]
  /\ moves = MaxMoves
  /\ faults = MaxFaults

Goto(r, from, to) == pc[r] = from /\ pc' = [pc EXCEPT ![r] = to]

-----------------------------------------------------------------------------
(* Reading *)

(* The definitions committed on the channel: that of the chaincode, if any. *)
ChaincodeDefinitions == IF Height = 0 THEN {} ELSE {Current}

(* The committed definition counts as the wanted one whatever its policy. *)
foundCommitted(committed, d) ==
  \E c \in committed : c.version = d.version /\ c.init = d.init

QueryCommitted(r) ==
  LET found == foundCommitted(ChaincodeDefinitions, want[r].def)
  IN  /\ Goto(r, "query", CASE ~found -> "approvals"
                            [] found /\ want[r].def.init -> "init"
                            [] OTHER -> "committed")
      /\ seen' = [seen EXCEPT ![r] = Height]
      /\ UNCHANGED <<ledger, want, seq, tries, told, unreported, moves, faults>>

(* The latest approval of organisation o, empty with sequence 0. *)
QueryApproved(o) ==
  CASE approved[o].next # None -> [seq |-> Height + 1, def |-> approved[o].next]
    [] approved[o].next = None /\ approved[o].cur # None
         -> [seq |-> Height, def |-> approved[o].cur]
    [] OTHER -> [seq |-> 0, def |-> None]

(* Faulty variants: the commit is not looked at; the approval is not. *)
NextOfApproved(a, c) == a + 1
FirstUnlessCommitted(a, c) == IF c > 0 /\ c = a THEN c + 1 ELSE 1

(* The sequence to propose, from the latest approved and the committed one. *)
calculateSequence(a, c) ==
  IF c > 0 /\ c = a THEN c + 1
  ELSE IF a = 0 THEN 1 ELSE a

(* The definitions are compared and not the sequence of the approval. *)
isApproved(a, d) == a.def = d

Calculate(r) ==
  LET a == QueryApproved(Of[r])
  IN  /\ Goto(r, "approvals", IF isApproved(a, want[r].def) THEN "ready" ELSE "approve")
      /\ seq' = [seq EXCEPT ![r] = calculateSequence(a.seq, seen[r])]
      /\ UNCHANGED <<ledger, want, seen, tries, told, unreported, moves, faults>>

(* Who of the channel's organisations has approved d for the next sequence. *)
CheckCommitReadiness(d) == [o \in Orgs |-> o \in Approvals(d)]

(* Faulty variant: a quorum is enough. *)
QuorumIsReady(d) == \E q \in Quorums : q \subseteq Approvals(d)

(* Every organisation that CheckCommitReadiness names has approved. *)
isReadyToCommit(d) == \A o \in Orgs : CheckCommitReadiness(d)[o]

CheckReady(r) ==
  /\ Goto(r, "ready", CASE ~MayCheck(seq[r]) -> "failed"
                        [] MayCheck(seq[r]) /\ (want[r].force \/ isReadyToCommit(want[r].def))
                             -> "commit"
                        [] OTHER -> "pending")
  /\ UNCHANGED <<ledger, want, seen, seq, tries, told, unreported, moves, faults>>

-----------------------------------------------------------------------------
(* Writing *)

Tx(r, kind, d) ==
  [kind |-> kind, req |-> r, org |-> Of[r], seq |-> seq[r], def |-> d,
   forced |-> want[r].force, reads |-> Reads(kind, Of[r])]

Submit(r, kind, d) ==
  /\ pool' = pool \cup {Tx(r, kind, d)}
  /\ UNCHANGED <<history, approved, inits, record>>

Approve(r) ==
  /\ \/ /\ MayApprove(Of[r], seq[r], want[r].def)
        /\ Goto(r, "approve", "awaitApproval")
        /\ Submit(r, "approve", want[r].def)
     \/ /\ ~MayApprove(Of[r], seq[r], want[r].def)
        /\ Goto(r, "approve", "failed")
        /\ UNCHANGED ledger
  /\ UNCHANGED <<want, seen, seq, tries, told, unreported, moves, faults>>

TakeApproval(r) ==
  /\ told[r] # "none"
  /\ Goto(r, "awaitApproval", IF told[r] = "valid" THEN "ready" ELSE "failed")
  /\ told' = [told EXCEPT ![r] = "none"]
  /\ UNCHANGED <<ledger, want, seen, seq, tries, unreported, moves, faults>>

(* Discovery proposes endorsers of some quorum. *)
Commit(r) ==
  /\ \E q \in Quorums :
       \/ /\ MayCommit(q, seq[r], want[r].def)
          /\ Goto(r, "commit", "awaitCommit")
          /\ Submit(r, "commit", want[r].def)
       \/ /\ ~MayCommit(q, seq[r], want[r].def)
          /\ Goto(r, "commit", "failed")
          /\ UNCHANGED ledger
  /\ tries' = [tries EXCEPT ![r] = 0]
  /\ UNCHANGED <<want, seen, seq, told, unreported, moves, faults>>

(* Faulty variant: the loop has no end. *)
MismatchAgain(r) ==
  /\ Goto(r, "commit", "commit")
  /\ tries' = [tries EXCEPT ![r] = @ + 1]
  /\ tries[r] < defaultTryCount
  /\ UNCHANGED <<ledger, want, seen, seq, told, unreported, moves, faults>>

(* Endorsers at different blocks disagree.  The last repetition ends the   *)
(* loop with err set by discovery, so the handler goes on without a        *)
(* transaction: it awaits the empty id and broadcasts an empty envelope.   *)
Mismatch(r) ==
  /\ IF tries[r] + 1 < defaultTryCount
     THEN Goto(r, "commit", "commit") /\ tries' = [tries EXCEPT ![r] = @ + 1]
     ELSE Goto(r, "commit", "awaitNothing") /\ tries' = [tries EXCEPT ![r] = 0]
  /\ tries[r] = 0 => faults > 0
  /\ faults' = IF tries[r] = 0 THEN faults - 1 ELSE faults
  /\ UNCHANGED <<ledger, want, seen, seq, told, unreported, moves>>

(* No orderer accepts the empty envelope. *)
SendNothing(r) ==
  /\ Goto(r, "awaitNothing", "failed")
  /\ UNCHANGED <<ledger, want, seen, seq, tries, told, unreported, moves, faults>>

TakeCommit(r) ==
  /\ told[r] # "none"
  /\ Goto(r, "awaitCommit", CASE told[r] = "invalid" -> "failed"
                              [] told[r] = "valid" /\ want[r].def.init -> "init"
                              [] OTHER -> "committed")
  /\ told' = [told EXCEPT ![r] = "none"]
  /\ UNCHANGED <<ledger, want, seen, seq, tries, unreported, moves, faults>>

(* The endorsers answer "is already initialized but called as init". *)
AlreadyInitialised(r) == Height > 0 /\ Current.init /\ Initialised(Current.version)

(* initChaincode names the chaincode and no version: what is initialised   *)
(* is the definition committed by then.                                    *)
InitChaincode(r) ==
  /\ \/ /\ AlreadyInitialised(r)
        /\ Goto(r, "init", "committed")
        /\ UNCHANGED ledger
     \/ /\ ~AlreadyInitialised(r)
        /\ Height > 0 /\ Current.init
        /\ Goto(r, "init", "awaitInit")
        /\ Submit(r, "init", Current)
     \/ /\ ~AlreadyInitialised(r)
        /\ ~(Height > 0 /\ Current.init)
        /\ Goto(r, "init", "failed")
        /\ UNCHANGED ledger
  /\ UNCHANGED <<want, seen, seq, tries, told, unreported, moves, faults>>

(* Faulty variant: the validation code is not looked at. *)
TakeInitAnyway(r) ==
  /\ told[r] # "none"
  /\ Goto(r, "awaitInit", "committed")
  /\ told' = [told EXCEPT ![r] = "none"]
  /\ UNCHANGED <<ledger, want, seen, seq, tries, unreported, moves, faults>>

TakeInit(r) ==
  /\ told[r] # "none"
  /\ Goto(r, "awaitInit", IF told[r] = "valid" THEN "committed" ELSE "failed")
  /\ told' = [told EXCEPT ![r] = "none"]
  /\ UNCHANGED <<ledger, want, seen, seq, tries, unreported, moves, faults>>

-----------------------------------------------------------------------------
(* Failures *)

(* The request ends; its transaction, if any, is lost or still on its way. *)
Leave(r) ==
  LET mine == {t \in pool : t.req = r}
  IN  /\ pool' = (pool \ mine) \cup {[t EXCEPT !.req = None] : t \in mine}
      /\ told' = [told EXCEPT ![r] = "none"]
      /\ faults > 0
      /\ faults' = faults - 1
      /\ UNCHANGED <<history, approved, inits, record>>

(* A call, stream or broadcast fails, or the context is cancelled. *)
Fail(r) ==
  /\ pc[r] \in Steps
  /\ pc' = [pc EXCEPT ![r] = "failed"]
  /\ tries' = [tries EXCEPT ![r] = 0]
  /\ Leave(r)
  /\ UNCHANGED <<want, seen, seq, unreported, moves>>

(* SubscribeTx returns VALID without a report. *)
Unreported(r) ==
  /\ \/ \E from \in {"awaitCommit", "awaitNothing"} :
          Goto(r, from, IF want[r].def.init THEN "init" ELSE "committed")
     \/ Goto(r, "awaitInit", "committed")
  /\ unreported' = [unreported EXCEPT ![r] = TRUE]
  /\ Leave(r)
  /\ UNCHANGED <<want, seen, seq, tries, moves>>

(* The administrator repeats a request that did not commit. *)
Retry(r) ==
  /\ pc[r] \in {"pending", "failed"}
  /\ pc' = [pc EXCEPT ![r] = "query"]
  /\ seen' = [seen EXCEPT ![r] = 0]
  /\ seq' = [seq EXCEPT ![r] = 0]
  /\ unreported' = [unreported EXCEPT ![r] = FALSE]
  /\ UNCHANGED <<ledger, want, tries, told, moves, faults>>

(* Transaction t is validated and its verdict delivered to whom it may concern. *)
Validate(t, verdict) ==
  /\ t \in pool
  /\ \/ /\ verdict = "valid" /\ Valid(t)
        /\ Applied(t)
        /\ faults' = faults
     \/ /\ verdict = "invalid"
        /\ ~Valid(t) \/ (t.req # None /\ faults > 0)
        /\ faults' = IF Valid(t) THEN faults - 1 ELSE faults
        /\ UNCHANGED <<history, approved, inits, record>>
  /\ pool' = {u \in pool \ {t} : u.req # None \/ MayBecomeValid(u)'}
  /\ told' = [r \in Requests |-> IF r = t.req THEN verdict ELSE told[r]]
  /\ UNCHANGED <<pc, want, seen, seq, tries, unreported, moves>>

Elsewhere ==
  /\ moves > 0
  /\ moves' = moves - 1
  /\ MovedElsewhere
  /\ UNCHANGED <<request, faults>>

Handle(r) ==
  \/ QueryCommitted(r) \/ Calculate(r) \/ Approve(r) \/ TakeApproval(r)
  \/ CheckReady(r) \/ Commit(r) \/ SendNothing(r) \/ TakeCommit(r)
  \/ InitChaincode(r) \/ TakeInit(r)

Next ==
  \/ \E r \in Requests :
       Handle(r) \/ Mismatch(r) \/ Fail(r) \/ Unreported(r) \/ Retry(r)
  \/ \E t \in pool, verdict \in {"valid", "invalid"} : Validate(t, verdict)
  \/ Elsewhere

Spec == Init /\ [][Next]_vars

(* A request goes on as long as it can, its administrator repeats it, and  *)
(* its transactions are ordered and validated.                             *)
Fairness ==
  \A r \in Requests :
    /\ WF_vars(Handle(r) \/ Retry(r))
    /\ WF_vars(\E t \in pool, verdict \in {"valid", "invalid"} :
                 t.req = r /\ Validate(t, verdict))

FairSpec == Spec /\ Fairness

-----------------------------------------------------------------------------
(* Properties *)

(* The sequence a request proposes never lies beyond the next one, however *)
(* old its two reads are; and unless the channel has moved since the first *)
(* read it is the next one, or 1 for an organisation without approvals.    *)
Proposing(r) == pc[r] \in {"approve", "awaitApproval", "ready", "commit"}

SequenceFits ==
  \A r \in Requests : Proposing(r) =>
    /\ seq[r] \in 1 .. Height + 1
    /\ seen[r] = Height => seq[r] \in {1, Height + 1}

(* A request answered as committed, unless nobody reported it, is right:   *)
(* its version and init flag were committed and, if that needs it, this    *)
(* version was initialised, unless another version came in between.        *)
CommittedIsTrue ==
  \A r \in Requests : pc[r] = "committed" /\ ~unreported[r] =>
    LET d == want[r].def
    IN  \E i \in 1 .. Height :
          /\ history[i].def.version = d.version /\ history[i].def.init = d.init
          /\ d.init => \/ \E k \in 1 .. Len(inits) : inits[k] = d.version
                       \/ \E j \in i + 1 .. Height : history[j].def.version # d.version

(* What a request commits without force, all organisations have approved   *)
(* for that very sequence, whatever changed since it asked them.           *)
UnforcedIsUnanimous ==
  \A i \in 1 .. Height :
    ~history[i].forced => \A o \in Orgs : <<o, i, history[i].def>> \in record

(* The only request of its organisation, repeated after failures, ends     *)
(* with the definition committed once all other organisations approve it   *)
(* for the next sequence, unless it is in one of two situations that last: *)
(* its organisation has approved neither the committed nor the next        *)
(* sequence of the channel, so that it proposes sequence 1 each time; or   *)
(* its approval at the committed sequence, where something else was        *)
(* committed, has the wanted content, so that it approves nothing.         *)
Supported(r) == \A o \in Orgs \ {Of[r]} : approved[o].next = want[r].def
Lagging(r) == Height > 0 /\ QueryApproved(Of[r]).seq = 0
Misapproved(r) ==
  LET a == approved[Of[r]] IN a.next = None /\ a.cur = want[r].def /\ Current # a.cur

RepeatingCommits ==
  \A r \in Requests :
    (\A s \in Requests \ {r} : Of[s] # Of[r]) =>
      []<>(pc[r] = "committed" \/ ~Supported(r) \/ Lagging(r) \/ Misapproved(r))

(* Where a commit needs every organisation and each has one request for    *)
(* the same definition, all of them are answered as committed in the end,  *)
(* whoever comes first with its approval, its commit and its               *)
(* initialisation, and whatever fails or is changed elsewhere meanwhile;   *)
(* but not when a success that nobody reported ends the request of one.    *)
Agreed ==
  /\ Quorums = {Orgs} /\ {Of[r] : r \in Requests} = Orgs
  /\ \A r, s \in Requests : want[r].def = want[s].def /\ (Of[r] = Of[s] => r = s)

AgreedIsCommitted ==
  Agreed => <>(\/ \A r \in Requests : pc[r] = "committed"
               \/ \E r \in Requests : unreported[r])

=============================================================================
