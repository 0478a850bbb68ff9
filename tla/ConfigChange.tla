---------------------------- MODULE ConfigChange ----------------------------
(***************************************************************************)
(* The handlers that change a channel's configuration: ConfigOrderingAdd,  *)
(* ConfigOrderingDelete, ConfigOrderingUpdate and ConfigAnchorModify.  A   *)
(* request reads the configuration from a peer, which may lag behind,      *)
(* computes an update, watches the peers, sends the update to the orderers *)
(* and waits for the peers.  Requests run at once, each in the service of  *)
(* its administrator, and other tools change the configuration too.        *)
(*                                                                         *)
(* history is the sequence of the channel's configurations, each in a      *)
(* block of its own; the data blocks between them only matter to what a    *)
(* peer's newest block is (Send).  How the answers of peers and orderers   *)
(* are collected is SubmitAll's and OrdererBroadcast's; here the peers are *)
(* seen as one.  A request whose caller gives up goes no further.          *)
(***************************************************************************)
EXTENDS ConfigTree, Sequences, SequencesExt

CONSTANTS Requests,
          Operations,   \* [op, host] or [op |-> "anchors", peers]
          Consensus,    \* path of the consensus type and the list of consenters
          Anchors,      \* path of the own organisation's anchor peers
          Orgs,         \* organisations of the orderer group
          InitialConfig(_), \* the configuration of a channel of this consensus type
          Free,         \* values and policies that other tools change
          Optional,     \* elements that other tools remove and put back
          MaxMoves      \* bound on the changes of other tools

(* A channel has a consensus type and the group of the organisation, which *)
(* no tool removes.                                                        *)
ASSUME ConfigAssumption ==
  /\ {Consensus, Anchors} \subseteq Paths \ Groups /\ Consensus # Anchors
  /\ Optional \subseteq Paths
  /\ Optional \cap (Line(Consensus) \cup Line(Parent[Anchors])) = {}
  /\ \A type \in {"etcdraft", "smartbft"} :
       /\ IsTree(InitialConfig(type))
       /\ {Consensus, Parent[Anchors]} \subseteq DOMAIN InitialConfig(type)
  /\ MaxMoves \in Nat

ASSUME OperationsAssumption ==
  \A o \in Operations : o.op \in {"add", "delete", "update", "anchors"}

VARIABLES
  history, \* the configurations of the channel, the newest last
  op,      \* [Requests -> Operations], what each administrator wants
  phase,   \* of each request
  base,    \* index of the configuration it read
  update,  \* what it computed from it
  shown,   \* requests whose streams have shown a configuration
  pending, \* requests whose update the orderers took and have not ordered
  applied, \* requests whose update became a configuration
  dropped, \* requests whose update was ordered behind a conflicting one
  moves    \* changes made by other tools

vars == <<history, op, phase, base, update, shown, pending, applied, dropped, moves>>

Current == history[Len(history)]
Base(r) == history[base[r]]

-----------------------------------------------------------------------------
(* Lists of consenters: records [host, id, msp, client], where client      *)
(* tells whose certificate is the client certificate ("own", or that of    *)
(* the server), id is 0 and msp None under Raft.                           *)

Type(c) == c[Consensus].data.type
Nodes(c) == c[Consensus].data.nodes
Hosts(nodes) == [i \in DOMAIN nodes |-> nodes[i].host]

(* What an orderer accepts as the consenters of a channel: under BFT they  *)
(* have hosts and ids of their own, and no id is 0.                        *)
Listed(c) ==
  LET nodes == Nodes(c) IN
  /\ c[Consensus].data = [type |-> Type(c), nodes |-> nodes]
  /\ nodes \in Seq({nodes[i] : i \in DOMAIN nodes})
  /\ Type(c) = "smartbft" =>
       /\ \A i \in DOMAIN nodes : nodes[i].id \in Nat \ {0}
       /\ \A i, j \in DOMAIN nodes :
            nodes[i].host = nodes[j].host \/ nodes[i].id = nodes[j].id => i = j

ASSUME ListAssumption == \A type \in {"etcdraft", "smartbft"} : Listed(InitialConfig(type))

(* GetOrdererConfig: under BFT each consenter's organisation must be known. *)
Readable(c) == Type(c) = "smartbft" => \A i \in DOMAIN Nodes(c) : Nodes(c)[i].msp \in Orgs

(* Faulty variant: every id is remembered, the last one as the highest. *)
RememberedAll(nodes) == {i \in DOMAIN nodes : nodes[i].id > 0}

(* The ids createBrfOrderersUpdEnvelope remembers: only those above all    *)
(* before them in the list.                                                *)
Remembered(nodes) ==
  {i \in DOMAIN nodes : /\ nodes[i].id > 0
                        /\ \A j \in 1 .. i - 1 : nodes[j].id < nodes[i].id}

HighestId(nodes) ==
  IF Remembered(nodes) = {} THEN 0
  ELSE nodes[CHOOSE i \in Remembered(nodes) : \A j \in Remembered(nodes) : j <= i].id

(* The list that createBrfOrderersUpdEnvelope makes for these hosts: ids   *)
(* that are not remembered are given out anew, no consenter gets an MspId. *)
BftList(nodes, hosts) ==
  LET Known(h) == {j \in Remembered(nodes) : nodes[j].host = h}
      Unknown(i) == {j \in 1 .. i : Known(hosts[j]) = {}}
      Id(i) == IF Known(hosts[i]) = {} THEN HighestId(nodes) + Cardinality(Unknown(i))
               ELSE nodes[CHOOSE j \in Known(hosts[i]) : \A k \in Known(hosts[i]) : k <= j].id
  IN [i \in DOMAIN hosts |->
        [host |-> hosts[i], id |-> Id(i), msp |-> None, client |-> "server"]]

(* createRaftOrderersUpdEnvelope *)
RaftList(hosts) ==
  [i \in DOMAIN hosts |-> [host |-> hosts[i], id |-> 0, msp |-> None, client |-> "server"]]

(* The list without host h. *)
Without(hosts, h) ==
  LET stays == {i \in DOMAIN hosts : hosts[i] # h}
      Place(i) == Cardinality({j \in stays : j <= i})
  IN [k \in 1 .. Cardinality(stays) |-> hosts[CHOOSE i \in stays : Place(i) = k]]

(* Faulty variant: an updated orderer is not put back. *)
WantedHostsNotPutBack(c, o) ==
  LET hosts == Hosts(Nodes(c))
  IN IF o.op = "add" THEN Append(hosts, o.host) ELSE Without(hosts, o.host)

(* The hosts the handler wants.  ConfigOrderingUpdate merges the old       *)
(* orderer into the request and keeps the old one.                         *)
WantedHosts(c, o) ==
  LET hosts == Hosts(Nodes(c))
  IN CASE o.op = "add"    -> Append(hosts, o.host)
       [] o.op = "delete" -> Without(hosts, o.host)
       [] o.op = "update" -> hosts

SetConsenters(c, o) ==
  [c EXCEPT ![Consensus].data.nodes =
     IF Type(c) = "smartbft" THEN BftList(Nodes(c), WantedHosts(c, o))
                             ELSE RaftList(WantedHosts(c, o))]

(* createAnchorPeerUpdate: an old value keeps its policy. *)
SetAnchors(c, o) ==
  LET mod == IF Anchors \in DOMAIN c THEN c[Anchors].mod ELSE "Admins"
  IN [p \in DOMAIN c \cup {Anchors} |->
        IF p = Anchors THEN [version |-> 0, mod |-> mod, data |-> o.peers] ELSE c[p]]

Wanted(c, o) == IF o.op = "anchors" THEN SetAnchors(c, o) ELSE SetConsenters(c, o)

(* Nothing to do: the orderer is there, or no anchor peer is new or gone.  *)
CurrentAnchors(c) == IF Anchors \in DOMAIN c THEN c[Anchors].data ELSE <<>>
Times(p, peers) == Cardinality({i \in DOMAIN peers : peers[i] = p})
InPlace(c, o) ==
  \/ o.op = "add" /\ o.host \in ToSet(Hosts(Nodes(c)))
  \/ /\ o.op = "anchors"
     /\ \A p \in ToSet(o.peers) \cup ToSet(CurrentAnchors(c)) :
          Times(p, o.peers) = Times(p, CurrentAnchors(c))

(* The orderers are needed to send an update of the anchor peers, and for  *)
(* the rest from the beginning.                                            *)
Refuses(c, o) == ~Readable(c) /\ (o.op = "anchors" => ~InPlace(c, o))

-----------------------------------------------------------------------------
Phases == {"idle", "computed", "waiting", "done", "failed"}

Init ==
  /\ \E type \in {"etcdraft", "smartbft"} : history = <<InitialConfig(type)>>
  /\ op \in [Requests -> Operations]
  /\ phase = [r \in Requests |-> "idle"]
  /\ base = [r \in Requests |-> 0]
  /\ update = [r \in Requests |-> None]
  /\ shown = {} /\ pending = {} /\ applied = {} /\ dropped = {}
  /\ moves = 0

Become(r, p) == phase' = [phase EXCEPT ![r] = p]

PutTogether(r, c, w) ==
  IF NoDifferences(c, w) THEN Become(r, "failed") /\ UNCHANGED update
  ELSE Become(r, "computed") /\ update' = [update EXCEPT ![r] = Compute(c, w)]

(* Faulty variant: what was read is forgotten. *)
ReadForgotten(r) ==
  /\ phase[r] = "idle"
  /\ \E i \in DOMAIN history : Become(r, "computed") /\ update' = [update EXCEPT ![r] = Compute(history[i], Wanted(history[i], op[r]))]
  /\ UNCHANGED <<history, op, base, shown, pending, applied, dropped, moves>>

(* A peer of the own organisation answers with the configuration it has,   *)
(* or not at all (0).                                                      *)
GetChannelConfig == DOMAIN history \cup {0}

ReadFails(r) ==
  /\ phase[r] = "idle"
  /\ 0 \in GetChannelConfig /\ Become(r, "failed")
  /\ UNCHANGED <<history, op, base, update, shown, pending, applied, dropped, moves>>

(* The handler up to the update.                                           *)
Read(r) ==
  /\ phase[r] = "idle"
  /\ \E i \in GetChannelConfig \ {0} :
       LET c == history[i] IN
       /\ base' = [base EXCEPT ![r] = i]
       /\ \/ Refuses(c, op[r]) /\ Become(r, "failed") /\ UNCHANGED update
          \/ ~Refuses(c, op[r]) /\ InPlace(c, op[r]) /\ Become(r, "done") /\ UNCHANGED update
          \/ Readable(c) /\ ~InPlace(c, op[r]) /\ PutTogether(r, c, Wanted(c, op[r]))
  /\ UNCHANGED <<history, op, shown, pending, applied, dropped, moves>>

(* A configuration c is next: the streams of the requests that wait show   *)
(* its block, once the peers have it.                                      *)
Configure(c) ==
  /\ history' = Append(history, c)
  /\ shown' = shown \cup {r \in Requests : phase[r] = "waiting"}

(* The streams are opened, then sendProposalToOrderers sends to the        *)
(* orderers that were read: to all of them under BFT, under Raft to the    *)
(* one at rand.Intn(len - 1), which panics below two.  They check the      *)
(* update against the configuration of the moment.  A stream starts at its *)
(* peer's newest block, which may be a configuration.                      *)
CanSend(c) == Len(Nodes(c)) >= IF Type(c) = "smartbft" THEN 1 ELSE 2

Send(r) ==
  /\ phase[r] = "computed"
  /\ IF CanSend(Base(r)) /\ Accepts(Current, update[r])
     THEN /\ Become(r, "waiting")
          /\ pending' = pending \cup {r}
          /\ shown' \in {shown, shown \cup {r}}
     ELSE Become(r, "failed") /\ UNCHANGED <<pending, shown>>
  /\ UNCHANGED <<history, op, base, update, applied, dropped, moves>>

(* An update that was taken is checked again when its turn comes, and      *)
(* dropped when the configuration has changed under it.                    *)
Order(r) ==
  /\ r \in pending
  /\ pending' = pending \ {r}
  /\ IF Accepts(Current, update[r])
     THEN /\ Configure(Result(Current, update[r]))
          /\ applied' = applied \cup {r}
          /\ UNCHANGED dropped
     ELSE /\ dropped' = dropped \cup {r}
          /\ UNCHANGED <<history, applied, shown>>
  /\ UNCHANGED <<op, phase, base, update, moves>>

(* The streams look for a transaction with the id of the envelope.  A      *)
(* config update has none, and neither has a configuration block: the      *)
(* first configuration the streams show is taken for the update.           *)
TakeResult(r) ==
  /\ phase[r] = "waiting"
  /\ r \in shown
  /\ Become(r, "done")
  /\ UNCHANGED <<history, op, base, update, shown, pending, applied, dropped, moves>>

(* Other tools change the configuration by updates of the same kind, while *)
(* there are requests.                                                     *)
Move(u) ==
  /\ moves < MaxMoves /\ moves' = moves + 1
  /\ pending # {} \/ \E r \in Requests : phase[r] \in {"idle", "computed"}
  /\ ~NoDifferences(Current, u)
  /\ Configure(Result(Current, Compute(Current, u)))
  /\ UNCHANGED <<op, phase, base, update, pending, applied, dropped>>

SetElsewhere == \E p \in Free \cap DOMAIN Current, m \in {"Admins", "Majority"} :
  Move([Current EXCEPT ![p].mod = m])
RemoveElsewhere == \E p \in Optional \cap DOMAIN Current :
  Move([q \in {l \in DOMAIN Current : p \notin Line(l)} |-> Current[q]])
PutBackElsewhere == \E p \in Optional \ DOMAIN Current, i \in DOMAIN history :
  /\ p \in DOMAIN history[i] /\ Parent[p] \in DOMAIN Current
  /\ Move([q \in DOMAIN Current \cup {p} |->
             IF q = p THEN [history[i][p] EXCEPT !.mod = "Majority"] ELSE Current[q]])
ReorderElsewhere == Move([Current EXCEPT ![Consensus].data.nodes = Reverse(@)])

Elsewhere == SetElsewhere \/ RemoveElsewhere \/ PutBackElsewhere \/ ReorderElsewhere

RequestStep(r) == Read(r) \/ ReadFails(r) \/ Send(r) \/ TakeResult(r)

Next ==
  \/ \E r \in Requests : RequestStep(r) \/ Order(r)
  \/ Elsewhere

Spec == Init /\ [][Next]_vars

-----------------------------------------------------------------------------
(* Every configuration is a tree of elements with versions, and the        *)
(* requests' bookkeeping fits it: read and watched configurations exist,   *)
(* an update is pending, applied or dropped but once.                      *)
TypeOK ==
  /\ Len(history) > 0 /\ \A i \in DOMAIN history : IsTree(history[i])
  /\ op \in [Requests -> Operations]
  /\ phase \in [Requests -> Phases]
  /\ base \in [Requests -> 0 .. Len(history)]
  /\ \A r \in Requests : phase[r] \in {"computed", "waiting"} => base[r] > 0
  /\ UNION {shown, pending, applied, dropped} \subseteq Requests
  /\ pending \cap applied = {} /\ applied \cap dropped = {} /\ dropped \cap pending = {}
  /\ moves \in 0 .. MaxMoves

(* n is c with the changes that lead from o to u, and nobody has touched   *)
(* in c what they change.                                                  *)
Changed(o, u) == {p \in DOMAIN o \cap DOMAIN u : ~Alike(o[p], u[p])}
Merged(o, u, c, n) ==
  /\ DOMAIN n = (DOMAIN c \cup (DOMAIN u \ DOMAIN o)) \ (DOMAIN o \ DOMAIN u)
  /\ \A p \in DOMAIN n :
       IF p \in Changed(o, u) \cup (DOMAIN u \ DOMAIN o) THEN Alike(n[p], u[p]) ELSE Alike(n[p], c[p])
  /\ \A p \in Changed(o, u) : p \in DOMAIN c /\ Alike(c[p], o[p])
  /\ \A p \in DOMAIN u \ DOMAIN o : p \notin DOMAIN c

(* No change is lost: however old the configuration a request computed     *)
(* its update from, and whatever was changed, removed and put back since,  *)
(* an update that takes effect changes what its administrator changed and  *)
(* nothing else, and never over somebody's later change                    *)
(* (proceedOrderingConsenterUpdate, createAnchorPeerUpdate).               *)
NothingLost ==
  [][\A r \in applied' \ applied :
       Merged(Base(r), Wanted(Base(r), op[r]), Current, Current')]_vars

(* No update is refused for itself: one that was computed from the         *)
(* configuration in force is taken, and gives what its administrator       *)
(* wanted (Compute).                                                       *)
FreshIsAccepted ==
  \A r \in Requests :
    phase[r] = "computed" /\ base[r] = Len(history) =>
      LET n == Result(Current, update[r])
          w == Wanted(Current, op[r])
      IN /\ Accepts(Current, update[r])
         /\ DOMAIN n = DOMAIN w
         /\ \A p \in DOMAIN n : Alike(n[p], w[p])

(* A consenter that stays keeps its id if the ids of the list were         *)
(* ascending, and in any case no two consenters get the same one           *)
(* (createBrfOrderersUpdEnvelope).                                         *)
Ascending(nodes) == \A i, j \in DOMAIN nodes : i < j => nodes[i].id < nodes[j].id
StayingKept ==
  [][applied' # applied /\ Type(Current) = "smartbft" =>
       LET old == Nodes(Current)
           new == Nodes(Current')
       IN /\ \A i, j \in DOMAIN new : new[i].id = new[j].id => i = j
          /\ Ascending(old) => /\ Ascending(new)
                              /\ \A i \in DOMAIN old, j \in DOMAIN new :
                                   old[i].host = new[j].host => old[i].id = new[j].id]_vars

(* Each request takes effect at most once, in one step, on the lists in    *)
(* force at that moment, though it was computed from lists read before     *)
(* (proceedOrderingConsenterUpdate, createAnchorPeerUpdate).               *)
Lists == INSTANCE Roster WITH
  roster <- Hosts(Nodes(Current)), anchors <- CurrentAnchors(Current), wish <- op, served <- applied
ImplementsRoster == Lists!Spec

(* What the handlers' empty answer says: the orderer was added, deleted or *)
(* updated.  The update of a request that is answered as done was not      *)
(* dropped.                                                                *)
AnsweredIsApplied == \A r \in Requests : phase[r] = "done" => r \notin dropped
=============================================================================
