---------------------------- MODULE PeerRollout ----------------------------
(***************************************************************************)
(* ChaincodeInstall, ChaincodeInstallExternal and ChannelJoin: bring a     *)
(* package or a channel to every local peer.  Each request asks each peer  *)
(* what it has and acts on the answer; several requests do so at once, and *)
(* neither the check nor the act holds anything.  How a request joins the  *)
(* results of its peers is module Gather.                                  *)
(*                                                                         *)
(* An item is a package or a channel's first block.  Packages are compared *)
(* by label, channels by name; a peer refuses exactly the item it has.     *)
(***************************************************************************)
EXTENDS Integers

CONSTANTS Peers, Requests, Items,
          Label,         \* of every item
          MaxFaults      \* bound: calls that fail

ASSUME FaultsAssumption == MaxFaults \in Nat

VARIABLES
  item,     \* per request: what it brings
  has,      \* per peer: the items it has
  late,     \* per peer: the items of failed calls that may still arrive
  step,     \* per request and peer: "query", "act" or the result
  faults,
  news,     \* per peer and item: how often a request was told that it is new there
  raced     \* <<peer, label>>: two calls were about to take effect there at once

vars == <<item, has, late, step, faults, news, raced>>

Results == {"existed", "new", "failed"}

TypeOK ==
  /\ item \in [Requests -> Items]
  /\ has \in [Peers -> SUBSET Items]
  /\ late \in [Peers -> SUBSET Items]
  /\ step \in [Requests -> [Peers -> {"query", "act"} \cup Results]]
  /\ faults \in Nat
  /\ news \in [Peers -> [Items -> Nat]]
  /\ raced \subseteq Peers \X {Label[i] : i \in Items}

Alike(i, j) == Label[i] = Label[j]

(* What a request brings is the same for all peers: the package it fetched *)
(* or made of its label, type and domain, or the first block of a channel. *)
Brings == item \in [Requests -> Items]

(* Peers may have items already, no two of them alike. *)
Init ==
  /\ Brings
  /\ has \in [Peers -> {s \in SUBSET Items : \A i, j \in s : Alike(i, j) => i = j}]
  /\ late = [p \in Peers |-> {}]
  /\ step = [r \in Requests |-> [p \in Peers |-> "query"]]
  /\ faults = MaxFaults
  /\ news = [p \in Peers |-> [i \in Items |-> 0]]
  /\ raced = {}

Becomes(r, p, s) == step' = [step EXCEPT ![r][p] = s]

Fault == faults > 0 /\ faults' = faults - 1

-----------------------------------------------------------------------------
(* Faulty variant: the failure of the check is not put into the result. *)
FailsUnset(r, p) ==
  /\ step[r][p] = "query"
  /\ Becomes(r, p, "unset")
  /\ Fault
  /\ UNCHANGED <<item, has, late, news, raced>>

(* No connection, no answer, a bad status, or the request is cancelled. *)
QueryFails(r, p) ==
  /\ step[r][p] = "query"
  /\ Becomes(r, p, "failed")
  /\ Fault
  /\ UNCHANGED <<item, has, late, news, raced>>

(* Faulty variant: packages are compared by content. *)
FoundSame(r, p) == item[r] \in has[p]

(* Faulty variant: what the peer has is not looked through. *)
FoundNever(r, p) == FALSE

Found(r, p) == \E i \in has[p] : Alike(i, item[r])

(* Calls with an item like r's that may take effect at p. *)
Rivals(r, p) ==
  {item[s] : s \in {q \in Requests \ {r} : step[q][p] = "act"}} \cup late[p]

Raced(r, p) == \E i \in Rivals(r, p) : Alike(i, item[r])

Query(r, p) ==
  /\ step[r][p] = "query"
  /\ \/ /\ Found(r, p)
        /\ Becomes(r, p, "existed")
        /\ raced' = raced
     \/ /\ ~Found(r, p)
        /\ Becomes(r, p, "act")
        /\ raced' = IF Raced(r, p) THEN raced \cup {<<p, Label[item[r]]>>} ELSE raced
  /\ UNCHANGED <<item, has, late, faults, news>>

Told(r, p) ==
  /\ Becomes(r, p, "new")
  /\ news' = [news EXCEPT ![p][item[r]] = @ + 1]

(* Faulty variant: the status of the response is not looked at. *)
RefusedIsNew(r, p) ==
  /\ step[r][p] = "act" /\ item[r] \in has[p]
  /\ Told(r, p)
  /\ UNCHANGED <<item, has, late, faults, raced>>

(* The peer has the item already and refuses it. *)
Refused(r, p) ==
  /\ step[r][p] = "act" /\ item[r] \in has[p]
  /\ Becomes(r, p, "failed")
  /\ UNCHANGED <<item, has, late, faults, news, raced>>

Act(r, p) ==
  /\ step[r][p] = "act" /\ item[r] \notin has[p]
  /\ has' = [has EXCEPT ![p] = @ \cup {item[r]}]
  /\ Told(r, p)
  /\ UNCHANGED <<item, late, faults, raced>>

(* Faulty variant: a call that was sent is taken for done. *)
SentIsNew(r, p) ==
  /\ step[r][p] = "act"
  /\ late' \in {late, [late EXCEPT ![p] = @ \cup {item[r]}]}
  /\ Becomes(r, p, "new")
  /\ Fault
  /\ UNCHANGED <<item, has, news, raced>>

(* The call fails: it is lost, or takes effect at some time. *)
ActFails(r, p) ==
  /\ step[r][p] = "act"
  /\ late' \in {late, [late EXCEPT ![p] = @ \cup {item[r]}]}
  /\ Becomes(r, p, "failed")
  /\ Fault
  /\ UNCHANGED <<item, has, news, raced>>

Arrive(p, i) ==
  /\ i \in late[p]
  /\ late' = [late EXCEPT ![p] = @ \ {i}]
  /\ has' = [has EXCEPT ![p] = @ \cup {i}]
  /\ UNCHANGED <<item, step, faults, news, raced>>

(* The answer lists the result of every peer; the administrator repeats a  *)
(* request that failed at some.                                            *)
Answered(r) == \A p \in Peers : step[r][p] \in Results
Failed(r) == \E p \in Peers : step[r][p] = "failed"

Repeat(r) ==
  /\ Answered(r) /\ Failed(r)
  /\ step' = [step EXCEPT ![r] = [p \in Peers |-> "query"]]
  /\ UNCHANGED <<item, has, late, faults, news, raced>>

ProcessPeer(r, p) == Query(r, p) \/ Refused(r, p) \/ Act(r, p)

Next ==
  \/ \E r \in Requests, p \in Peers :
       ProcessPeer(r, p) \/ QueryFails(r, p) \/ ActFails(r, p)
  \/ \E r \in Requests : Repeat(r)
  \/ \E p \in Peers, i \in Items : Arrive(p, i)

Spec == Init /\ [][Next]_vars

(* Goroutines go on, peers answer or the call fails, failures are repeated. *)
Fairness ==
  \A r \in Requests :
    /\ \A p \in Peers : WF_vars(ProcessPeer(r, p))
    /\ WF_vars(Repeat(r))

FairSpec == Spec /\ Fairness

-----------------------------------------------------------------------------
(* Properties *)

(* Of all requests for an item, also repeated ones, at most one is told by *)
(* a peer that it was new there.                                           *)
NewOnce == \A p \in Peers, i \in Items : news[p][i] <= 1

(* What a request was told is so: after "new" the peer has the item, after *)
(* "existed" it has one with its label, whoever put it there.              *)
ResultIsTrue ==
  \A r \in Requests, p \in Peers :
    /\ step[r][p] = "new" => item[r] \in has[p]
    /\ step[r][p] = "existed" => \E i \in has[p] : Alike(i, item[r])

(* A peer gets two packages of one label, of which LifecycleFull would     *)
(* approve any, only when two calls were about to install there at once.   *)
AlikeOnlyByRace ==
  \A p \in Peers, i, j \in Items :
    i \in has[p] /\ j \in has[p] /\ Alike(i, j) /\ i # j => <<p, Label[i]>> \in raced

(* Repeated after failures and refusals, every request ends with a peer    *)
(* that has its item, or one of its label, everywhere.                     *)
RepeatingInstalls ==
  \A r \in Requests : <>[](\A p \in Peers : step[r][p] \in {"existed", "new"})
=============================================================================
