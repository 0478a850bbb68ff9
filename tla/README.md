# hlf-control-plane in TLA+

`hlf-control-plane` is a service of one organisation of a Hyperledger Fabric
network. Each of its gRPC (and, through a gateway, HTTP) methods administers
the organisation's peers or a channel: it asks peers for endorsements, hands
transactions to orderers, watches the peers' ledgers and reports what happened.
The service stores nothing. Its difficulty is in the goroutines that every
request starts, one per peer or orderer, in the channels that join them again,
and in decisions taken from the state of a ledger that others change meanwhile.

This directory holds TLA+ modules of these parts, the TLC configurations that
check them on small instances, and proofs, checked by TLAPS, of what matters
most for instances of every size.

## Inventory

| Component | Code | State | Operations | Hard behaviour | What makes it correct |
|---|---|---|---|---|---|
| Delivery streams | `pkg/delivery`, `pkg/util/context.go` | per call: a goroutine and stream per peer, `resChan`, the `ready` channel in the context | `SubscribeTx`, `SubscribeTxAll` | streams fail and are cancelled independently; `ready` is closed by whoever comes first; the seek starts at the newest block | the verdict returned is the verdict of the peers; every waiter ends |
| Submit and wait | tails of `LifecycleFull`, `LifecycleApproveForMyOrg`, `LifecycleCommit`, `initChaincode`, `proceedChannelUpdate` | `res`, `ready`, and in a commit `err` and `txCode`, shared with the subscriber | wait for ready, broadcast, wait for the result | the three waits race with cancellation and with each other | success only for a committed, valid transaction; nothing is sent unwatched; no request waits for ever; nothing is leaked |
| Orderer broadcast | `pkg/util/orderer.go`, `sendProposalToOrderers` | a goroutine per orderer, a buffered channel, two counters | choose, broadcast, count | silent, failing and late orderers; early return at the quorum | the answer matches the reports; a quorum ends the wait; goroutines end |
| Chaincode lifecycle | `lifecycle_full.go`, `lifecycle_*.go` | none of its own: committed and approved definitions on the channel | approve, check, commit, initialise | several organisations act between a read and the use of it; retries | a request that says committed is right about it; sequences never go wrong; every organisation can proceed |
| Endorsement and fan-outs | `pkg/util/peer.go`, `chaincode_install*.go`, `channel_join*.go` | result channels, wait groups | ask every peer, collect | one peer of several fails; two requests at once; check-then-act | one result per peer; a peer reported done is done; nothing is leaked |
| Connection pools | `pkg/peer`, `pkg/orderer`, `pkg/matcher` | a map of connections under a RWMutex | get, find by organisation, close | double-checked creation, closing with late callers, dials that fail | one connection per peer or orderer; an open one for every caller; none left open |
| Configuration updates | `pkg/util/update.go`, `config.go`, `config_*.go` | none of its own: the channel configuration with its versions | compute a difference, edit consenters and anchor peers | several administrators update from the same or from an old configuration; elements are removed and put back | no change is lost; the difference is exactly the change; consenters keep their ids |
| Start and shutdown | `main.go` | two servers, an errgroup, the pools | start, serve, shut down | the signal can come at any moment, also before the servers are there; subscribers outlive their requests | running requests end before their connections are closed; the process ends |
| Clients of system chaincodes, discovery | `system/*`, `pkg/discovery` | none | one call each | none | the answer is decoded or refused |
| Middleware, health, configuration, signers, generated code | the rest | none | | none | |

How they meet: a handler reads through a client of the peer pool, endorses
through `EndorsePeers`, starts a subscriber that opens streams through the peer
pool, waits until one of them closes `ready`, calls `sendProposalToOrderers`,
which takes connections from the orderer pool, and waits for the subscriber's
result. The request's context runs through all of it and ends when the caller
gives up, and in any case when the handler has returned.

## Modules

### DeliverStream

One transaction seen through the streams of several peers, the part that
`SubscribeTx` and `SubscribeTxAll` share. `wpc[p]` is where the goroutine of
peer `p` stands in `getTxValidationCode`:

| `wpc` | code (`pkg/delivery/peer.go`) |
|---|---|
| `open` | before `DeliverFiltered`, 128 |
| `seek` | before `sendEnvelope`, 143 |
| `check` | before the `select` on `ready`, 148 |
| `close` | in its default branch, before `close(ready)`, 152 |
| `recv` | in the receive loop, 156 |
| `report` | returned with `code[p]`, about to send it on `resChan` |
| `done` | ended |

`close` is a state of its own because another goroutine can run between the
look and the close. Codes are `valid`, `invalid` and the two kinds of error
that `waitFirst` distinguishes: `statusError`, whose cause carries a gRPC
status or which has no cause, and `ioError`. The network is modelled from how
the code uses it: an envelope is ordered at some time after it was sent or
never, every peer commits it at its own time, and a stream begins at the block
that is the newest when the peer serves the seek. `ledger[p] = "past"` is a peer
with newer blocks on top; only a stream not yet served can see the difference
(`blind`). `Stale` holds peers whose newest block before that already matches
the awaited id.

### SubmitAll, Submission

`SubmitAll` composes the streams with `SubscribeTxAll` (`spc`: starting the
waiters, collecting, delivering the result) and the handler that waits (`hpc`).
It stands for three handlers whose tails are the same: approval in
`LifecycleFull`, `LifecycleApproveForMyOrg`, and `proceedChannelUpdate`, which
the configuration handlers share. The unbuffered channels are joint steps of
sender and receiver. `wg.Wait` and the closing goroutine are the guard of
`AllCollected`.

`Submission` is the abstract specification: a transaction is handed over at
most once, lands in ledgers only afterwards, and `ok` is answered only when it
is valid and in every ledger. An error promises nothing, and that is what the
code offers: a request that failed may well be committed later. `SubmitAll`
implements it under the refinement at the end of the module.

### SubmitFirst, FirstReport

The same for `SubscribeTx`, used by the commit of a chaincode definition and by
its initialisation: one answering peer ends all other streams. The model keeps
what makes this path different: the collector goroutine with its own variable
(`held`, `kept`), the code's zero value being VALID and the errors that are
swallowed in `waitFirst`. `kind` tells the two requests apart. In a commit
handler and subscriber assign `err` and `txCode` without synchronisation (an
unsynchronised read takes any value the variable has when it is executed, in any
order of the two goroutines); `initChaincode` has an `err` of its own and lets
`initChaincodeValidCheck` look at the code (`ReturnChecked`).

`FirstReport` is the abstract specification, and it is honest about what this
path promises. A peer reports what is in its ledger, or that its stream ended;
a refusal is a peer's word or that of a broken stream; `ok` needs a peer that
said valid, or an error nobody is told of, or a report still `underway` (the
collector has it and has not stored it, or stored it after it was read); only
an initialisation that is answered `ok` is sure to have been sent. `SubmitFirst`
implements it under the refinement `First`, in which `code` is the reports and
`UnkeptCode` is `underway`.

### OrdererBroadcast

`sendProposalToOrderers` and `OrdererBroadcast` for one to `MaxOrderers`
orderers. `worker[o]` follows a goroutine through dial, send, receive and its
report; the buffered channel is the set of queued workers and its room. The
caller is `pc`.

`AnswerMatchesOrderers` is what the answer is worth. A nil on a BFT channel means
that so many orderers took the envelope that any other nil shares a correct one
with it (`Overlap`), or that every orderer has reported and some took it. The
second half is where the code departs from its comment: `orderer.go:96` says it
"waits for a quorum of successful responses", while the code returns nil below the
quorum as soon as nobody is left to report and one succeeded (152-155, with a log
line that says so). The property does not grant more than that.

### DefinitionLedger, Lifecycle

`DefinitionLedger` is one chaincode on one channel as Fabric keeps it, written
from what the handlers rely on and report: the definitions committed
(`history`), what each organisation has approved at the committed and at the
next sequence, the versions initialised, and the transactions that are endorsed
and not validated yet (`pool`). A transaction carries what its endorsers read
and is valid only if that is unchanged. `record` is a ghost: every approval
there was. The handlers that do one step for an administrator,
`LifecycleApproveForMyOrg`, `LifecycleCommit` and `LifecycleInit`, and their
like in the services of the other organisations, have a transaction endorsed
(`Endorsed`) whose validation comes later, or never; nobody in the model waits
for it. Once such a transaction can never be valid again it is dropped.

`Lifecycle` puts `LifecycleFull` on top. A request is where its handler stands
(`pc`) and what it remembers (`seen`, the committed sequence of its first read;
`seq`, the one it proposes), and every call of the handler is an action:

| `pc` | next call | code (`lifecycle_full.go`) |
|---|---|---|
| `query` | `QueryCommitted`, `foundCommitted` | 67-94 |
| `approvals` | `QueryApproved`, `calculateSequence`, `isApproved` | 124-134 |
| `approve`, `awaitApproval` | `ApproveForMyOrg`, its verdict | 170, 216 |
| `ready` | `CheckCommitReadiness` | 228-246 |
| `commit`, `awaitCommit` | `Commit` with its repetitions, its verdict | 402, 464 |
| `awaitNothing` | the third mismatch, after which there is no transaction | 433-461 |
| `init`, `awaitInit` | `initChaincode`, its verdict | 490, 566 |
| `committed`, `pending`, `failed` | the answers | 116, 242, errors |

Between any two of them other requests, the handlers of all organisations
(`Elsewhere`) and the transactions under way may change the ledger. A call can
fail, and a request can be given up, at any moment (`Fail`), and its transaction
goes on without it; one that is lost is one that is never validated. `Retry`
starts the request again. Submitting
and awaiting a transaction is what `SubmitAll` and `SubmitFirst` describe in
detail, and `Lifecycle` takes from them what they establish: a success is the
verdict of the ledger, except that `SubscribeTx` may report one that nobody has
seen (`Unreported`).

Two abstractions. There is one ledger and not one per peer: that peers differ is
visible to a handler when endorsers disagree (`Mismatch`). The package id, which
each organisation chooses for itself, is not part of a definition.

### Gather

Five handlers start a goroutine per peer and join the results, each in a
slightly different way; `kind` says which:

| | `endorse` | `joined` | `installed` | `install` | `join` |
|---|---|---|---|---|---|
| code | `EndorsePeers` | `ChannelJoined` | `ChaincodeInstalled` | `ChaincodeInstall`, `...External` | `processBlockJoin` |
| a failure goes to | an errgroup | an errgroup | the results, which are given up at the first | the results | the results |
| who collects | a goroutine | a goroutine | the handler | the handler | a goroutine |
| who closes the channel | the handler | a goroutine that is told to | a goroutine that waits for the workers | the same | the handler |

`wpc[p]` is a worker (`call`, then `send` on the unbuffered channel), `hpc` the
handler, `collector` and `closer` the other two; receiving is a joint step of
worker and collector. A collecting handler is in `collect` as long as its
`collector` receives. `taken` is the list of results, without what is in them;
`outcome[p]` tells a good one from a failed one, and from one of `ChannelJoined`
that lacks the height of a channel (`blank`: the error of `GetChainInfo` is
logged and dropped, `channel_joined.go:72`).

### PeerRollout

What the workers of `ChaincodeInstall`, `ChaincodeInstallExternal` and
`ChannelJoin` do: `processPeerInstall` and `processPeerJoin` ask a peer what it
has (`Query`) and, if the wanted is missing, bring it (`Act`). Several requests
do so at once, and nothing is held between the two calls. `step[r][p]` is where
request `r` stands at peer `p`, or its result: `existed`, `new` (the flag
`existed` of the response is false) or `failed`. A call that fails may never
arrive, or arrive later (`late`, `Arrive`); the peer refuses what it has already
(`Refused`); the administrator repeats a request that failed somewhere
(`Repeat`). Packages are compared by label, so a peer with one package of a label
answers `existed` for any other of it; `raced` is a ghost that records when two
calls for one label could take effect at a peer together.

### ConfigTree, Roster, ConfigChange

`ConfigTree` is a channel configuration as a tree of versioned elements, a
function from paths to `[version, mod, data]`, with `util.Compute` and what the
orderers make of an update. `Compute` is recursive in the code; the module gives
its result path by path:

| Operator | code (`pkg/util/update.go`) |
|---|---|
| `Differing` | elements of both configurations that a level of `computeGroupUpdate`, `computeValuesMapUpdate` or `computePoliciesMapUpdate` finds different |
| `Updated` | those and the groups above them, for which `computeGroupUpdate` returns true |
| `Same` | the unchanged members that a differing group adds to both sets |
| `ReadSet`, `WriteSet` | the two sets, versions of differing elements counted up |
| `Accepts`, `Result` | the validation of the orderers (Fabric, external) |

`ConfigChange` puts the four handlers on top. `history` is the sequence of the
channel's configurations. A request is in `phase`:

| step | code |
|---|---|
| `Read`: `idle` to `computed`, `done` (nothing to do) or `failed` | `ConfigOrderingAdd`, `-Delete`, `-Update`, `ConfigAnchorModify` up to `Compute`, with the lists of consenters they make (`RaftList`, `BftList`) |
| `Send`: `computed` to `waiting` or `failed` | opening the streams and `sendProposalToOrderers` |
| `Order` | the orderers put the update in a block, if nothing has changed under it by then |
| `TakeResult`: `waiting` to `done` | the streams show a configuration block, whose empty transaction id is the one awaited |

A peer may answer with an old configuration. Other tools set policies, remove
optional elements, put them back and reorder the consenters (`Elsewhere`). The
peers are seen as one and each request sends once; several peers, and how
orderers are counted, are the business of `SubmitAll` and `OrdererBroadcast`.

The list that a channel starts with is one the orderers accept (`Listed`): on a
BFT channel every consenter has a host and an id of its own, and no id is 0.
A deletion filters the list (`Without`), an addition puts the new host at the end
with the next id (`RaftList`, `BftList`).

`Roster` is the abstract specification: two lists, and each request changes them
at most once, in one step, on what is in force at that moment. What a deletion
leaves is said without the filter: a list of the other hosts in their order.

### ConnectionPool, Service

`ConnectionPool` is one pool: `conn` is `connMap`, `holder` the write lock, and
`at[c]` where caller `c` is: `missed` between the read lock and the write lock,
`locked` while it dials, `has` with the connection it was given, `out` otherwise.
The pool of the peers gives the dial the caller's context (`SeesContext`), the
pool of the orderers does not. A dial fails on a context that is over or on a
certificate that does not parse; certificates come with the channel
configuration a caller has read, so that a `Suspect` key's may fail one caller
and not the next. `GetRandomEndorser`, `GetConnection` and `GetDiscoveryClient`
take any key with a prefix (`Named`). The pools differ in nothing else that a
caller sees.

`Service` is the process. `main` is where `listen` stands, `grpcServer` and
`httpServer` are the variables that the goroutines of the two servers
(`grpcRun`, `httpRun`) assign and the shutdown reads, `call[c]` and `ctx[c]` are
a call of the gRPC server and its context, and `subscriber[s]` is the goroutine
with `SubscribeTx` or `SubscribeTxAll` that a call may leave behind. Two
instances of `ConnectionPool` are the pools. The peer pool starts with the local
peers (`LocalKeys`, `NewGrpcPool`). A call asks it for any peer, also for those
that discovery names (`GetEndorsersFromDiscovery`), and dials those that are
missing; a subscriber asks for local peers only.

| `main` | code (`main.go`) |
|---|---|
| `listen` | the `select` on the signal and the group's context, 169 |
| `shutHttp` | `httpServer.Shutdown` under a context that is over, 179 |
| `stopGrpc`, `drain` | `grpcServer.GracefulStop`, 184 |
| `wait` | `g.Wait`, 186 |
| `closePeers`, `closeOrderers` | closing the pools, 190 |

The process can crash, and says of what: `GracefulStop` of the zero server
(`zeroServer`), the nil client that a subscriber uses after a deadline
(`noClient`), a caller of either pool appending to the root certificates that both
share while a handshake reads them or a caller of the other pool appends too
(`roots`).

## Runs

| Run | Shows |
|---|---|
| `submit_all` | with two peers: a success is unanimous, nothing leaves unwatched, a request waits for ever only in four listed situations, its goroutines end with its context, it implements `Submission` |
| `submit_all_panic` | violation: `ready` can be closed twice, which panics the process |
| `submit_first` | with two peers, for a commit and an initialisation: an unreported success has one of two causes, only a commit succeeds with a transaction that was never sent, where it can wait for ever, its goroutines end, it implements `FirstReport`, so that a refusal is always somebody's |
| `submit_first_unreported` | violation: a commit can be answered with success although no peer reported it |
| `broadcast` | one to four orderers, Raft and BFT: a nil of a BFT channel is backed by a Byzantine quorum, or by fewer only when all have reported, an error means that all failed; a quorum ends the wait, goroutines end, cancelling ends the call |
| `lifecycle` | one of three organisations: the sequence proposed fits, the answer "committed" is true, a commit without force is unanimous, and repeating a request commits unless its organisation lags behind or `isApproved` is mistaken |
| `lifecycle_two` | both organisations of a channel run the handler: if they agree, both end with "committed" |
| `gather` | three peers: an answer without error is complete (though `ChannelJoined`'s may lack heights), one failure ends a request that cannot succeed though all others are silent, a cancelled request ends, goroutines stay behind only after an error |
| `peer_rollout` | two requests for two peers: at most one is told of an item that it was new, results are true, two packages of one label come only from a race, and repeating a request ends with the item or its label everywhere |
| `config_change` | two administrators and other tools, Raft and BFT, configurations of any age: no change is lost, an update from the newest configuration is accepted, consenters that stay keep their ids, `Roster` is implemented |
| `config_answered` | violation: a request whose update was dropped is answered as done, by the block of the configuration that displaced it |
| `service` | from the start of the servers to the end of the process, with two calls that ask for a local peer, a discovered one and an orderer, and a subscriber: connections are dialed once, open while a call has them and closed at an orderly end, though calls miss, dial, lose the race to dial and are refused in both pools; a shutdown ends unless the gateway starts late |

Behaviours that are in the models and in no run of their own, since a reader
sees them where they are modelled:

- below the quorum `OrdererBroadcast` still answers nil once all have reported and
  one orderer accepted, which `pkg/util/orderer.go:96` ("waits for a quorum of
  successful responses") contradicts; `AfterLoop`, and the second half of
  `AnswerMatchesOrderers`.
- `ChannelJoined` answers without error when it could not learn a channel's
  height (`channel_joined.go:72`): `blank` of `Gather`.
- `PanicRaft`: `rand.Intn(len-1)` panics on a Raft channel with one orderer
  (`lifecycle_full.go:329`), `CanSend` of `ConfigChange` likewise.
- `foundCommitted` (`lifecycle_full.go:253`) ignores the policy: a request that
  changes nothing else is committed already.
- `isApproved` (`lifecycle_full.go:265`) accepts an approval of an older
  sequence with the wanted content: `Misapproved`.
- `ConfigOrderingUpdate` merges the old orderer into the request and puts the
  old one back: only certificates, ids and MspIds change (`WantedHosts`). Each
  change of the consenters replaces client certificates by server certificates
  (`client`).
- A BFT channel whose consenters this service has written has lost their MspIds,
  and the service can no longer read it (`Readable`).
- An id of a consenter that was deleted is given out again if it was the highest
  (`HighestId`).
- The `Version++` at `config_ordering_add.go:96` changes nothing, since `Compute`
  counts versions itself.
- After an error of one of the servers the pools are not closed (`Wait`); a
  gateway that starts to listen when main has already shut down the zero server
  keeps the process from ending (`StartedLate`).
- When closing a peer's connection reports an error, the orderer pool is not
  closed (`ClosePeers`).
- `GetRandomEndorser`, `GetConnection` and `GetDiscoveryClient` look for keys with
  a prefix. Once a call has dialed a peer of an organisation whose name the own
  name begins, they may return its connection (`Pick`, with `NamedKeys`).
- A commit's subscriber that outlives its call and finds the pool closed uses a nil
  client when the call's deadline has passed (`SubscriberEnds`).

`CHECK_DEADLOCK FALSE` is set where a system may really stop: a request that
was answered, and one that waits for something that never comes. That no other
state stops is the business of the liveness properties.

Bounds. Two peers: waiters do not interact except through `ready`, `resChan`
and the context, all of which need two to be contended, and the proofs cover
every number for safety. One to four orderers: four is the first BFT size that
tolerates a fault, so quorum, minority and total differ. One transaction per
request: requests share only the pool. `Lifecycle`: three organisations with a
quorum of two, so that one can be left behind; `MaxMoves` and `MaxFaults` two in
`lifecycle`, since it takes two changes elsewhere (an approval and a commit) to
move the channel, and two failures to fail, repeat and fail again; one of each
with two requests. Requests meet only in the ledger, so that one request and
changes elsewhere stand for several; the proofs bound nothing. In `lifecycle` two
organisations have no request and are interchangeable, so of the channels that
start with a definition those are checked in which the first of the two had
approved it (`OneSpec`); `lifecycle_two` checks the starts its property is about
(`TwoSpec`). `Gather`: three
peers, so that one fails, one has a result to send and one is silent.
`PeerRollout`: a race needs two requests, and a result that differs from peer to
peer two peers; of three packages two share a label; `MaxFaults` one, since one
late call already meets the other request and the repetition of its own, and
refusals are not bounded. `ConfigChange`: two requests of four operations, a tree
of three levels with a group and two elements that other tools touch, and two
changes of theirs (`MaxMoves`), since it takes two to remove an element and put it
back; they stop when the requests have computed and none is pending, because
later ones can only be seen by nobody. The requests are symmetric. `Service`: two
calls, so that one finds the connection the other dials, before it has the lock
or after; one subscriber, of the first. Peer `p` is local and dialed at the start.
Peer `q` is dialed by calls, its certificates may fail, and its key has the own
organisation's name as prefix: since each of these is a choice of every step, a
third peer without them adds no step that is not there. The one orderer is
dialed by calls and its certificates may fail. Each call arrives once: a second
one is another call.

Fairness. Goroutines that can run do run, and a local operation ends: starting
a waiter, taking a value that is offered, opening or sending on a stream one
way or the other. A cancelled context ends a blocked `Recv`. gRPC cancels a
request's context after its handler returned. A peer serves a seek and commits
what was ordered. Nothing is assumed about orderers answering, transactions
being ordered, streams failing or callers giving up: those may happen or not.
In `Lifecycle` a handler goes on, the administrator repeats what did not commit,
and a request's own transaction is validated; the number of failures and of
changes elsewhere is bounded, so a property that holds there says that the
request recovers once they have ended. Two situations last and no repetition
ends them. `Lagging`: the organisation has approved neither the committed nor
the next sequence, and proposes sequence 1 each time. `Misapproved`: what it
approved at the committed sequence is not what was committed there, and has the
wanted content. `RepeatingCommits` names them as the only ones.
In `Gather` a peer may be silent for as long as the context of its call lives,
and a call ends once that has ended. In `PeerRollout` a call returns or fails,
and a request that failed at some peer is repeated. In `Service` the goroutines of
main and of the servers go on, and so does a caller inside a pool, since a dial
does not block. Nothing makes a call return: that each one does is the premise
of `ShutdownEnds`, and where a request can wait for ever is said by the `...Stuck`
of `SubmitAll` and `SubmitFirst`.

## Proofs

`SubmitAllProofs` proves, for every set of peers and transactions with an id of
their own (`NoStaleMatch`), that every variable keeps its type, that a success
is unanimous, that nothing is sent unwatched, and that `SubmitAll` implements
`Submission`. `SuccessIsUnanimous` is not inductive: the handler answers with
what the subscriber returned, which it computed from codes that the waiters
took from blocks. `Inv` states each link of this chain (`CodesAreTrue`,
`ResultIsUnanimous`, `AnswerIsResult`), and `ReadyIsWatched` and `SentOnce` the
order in which streams, `ready` and the envelope come. Each action preserves
`Inv`; the refinement maps every step to a step of `Submission` or a stutter
under it.

`SubmitFirstProofs` proves, for every set of peers, the types,
`UnreportedOnlyIf`, that a refusal for the code is due to the transaction or a
broken stream (`RefusalIsReported`), and that `SubmitFirst` implements
`FirstReport`. A code in any of the variables it passes through was given by
some peer's stream (`ValuesFit`), a bad one that was sent is still there unless a
good one came (`SentIsKept`), and when the handler is told, every waiter has
ended with a code (`HandlerFits`). So, when the code is VALID and nobody reported
it, an error was withheld or a code is not stored (`Causes`). `InitFits` says
that an initialisation's handler waits only for what it has sent. In the
refinement a waiter that returns makes its peer's report, the hands through which
a code goes are steps of `Deliver` or stutters, and the answer is one step. It
needs `NoStaleMatch`, which holds for these requests: their transactions have ids
of their own.

`OrdererBroadcastProofs` proves, for every number of orderers, the types,
`AnswerMatchesOrderers`, and that `quorumBft` is a Byzantine quorum: two quorums
of `n` share more than `f` orderers and `n - f` orderers make one. The answer rests
on that arithmetic (`QuorumOverlaps`) and on a BFT call going to all orderers with
their quorum (`BftAsksAll`): what was counted as good was taken by that orderer.

`LifecycleProofs` proves, for any organisations, requests and definitions and
without a bound on changes and failures, the types, `SequenceFits`,
`UnforcedIsUnanimous` and `CommittedIsTrue`. It first shows that what is
committed, initialised and recorded stays (`NextGrows`), what a step does to the
ledger (`LedgerSteps`) and which transactions it brings in (`PoolSteps`). A
sequence fits because `seen` was the height once and heights only grow. For
unanimity the agreement is followed from the check of readiness (`CommitAgreed`)
to the transaction (`TxAgreed`) and, since it is valid only at the height its
endorsers read (`PoolFits`), to `history`. For the answer, `Knows` says what a
request knows by where it stands and what it was told, and `TxOwned` and
`TxSingle` that the one transaction with its name is the one it waits for: only
so is the verdict it takes about its own commit. The assumptions are the named
ones of `DefinitionLedger` and `Lifecycle`.

`GatherProofs` proves the types and `OkIsComplete` for every set of peers. The
handler knows only that the channel is closed and drained. `ClosedLate` says
that it is closed after the last worker, none of which failed in a group, and
`NothingLost` and `TakenOnce` that what a worker sent is held or appended, once.

`PeerRolloutProofs` proves, for any peers, requests, packages and failures, the
types, `NewOnce`, `ResultIsTrue` and `AlikeOnlyByRace`. The last is not inductive:
`Races` states it for every pair of what may come to a peer (calls about to
take effect, late calls) and what is there, and each step moves one member of a
pair from one of these places to the next.

`ConfigChangeProofs` proves, for any tree of at most three levels of groups
(`TreeAssumption`), any requests of the four operations (`OperationsAssumption`),
any initial configurations (`ConfigAssumption`, `ListAssumption`) and changes of
other tools, the types, `FreshIsAccepted`, `NothingLost`, `StayingKept` and
`ImplementsRoster`. Versions alone do not tell whether an element has changed: one
that was removed and put back starts at 0 again. Compared from the root down
they do, since whoever changes the members of a group counts its version up:
`Follows(o, c)` says that below groups of equal versions a later configuration
has the same elements, in versions as high or higher, and that equal versions
are equal elements. It is transitive, and every accepted update leads to a
configuration that follows (`ResultFollows`); so the versions an update has read
pin down all it changes (`UpdateMerges`).

From this follows that requests change the consenters and anchor peers in force
and not those they have read: an update that changes a list has read that list in
the version it still has, so it has read the list in force (`ConsentersChange`,
`AnchorsChange`, `OrderMerges`). What remains is about lists. They are made by
filtering (`Without`) and numbering (`BftList`), and what those give for a list of
any length takes induction. It is done over sets of positions: a nonempty set of
them has a least and a greatest member (`Least`, `Greatest`, from the library's
theorem that finite sets are well-founded under inclusion), so the positions that
stay can be counted off without a gap (`Places`), the filtered list is the old one
at those positions in their order (`WithoutIs`), and of a new list of consenters
no two have one id (`BftIs`). `Rosters` is the invariant that every configuration
is `Listed`. Then each kind of request is a step of `Roster` (`OrderServes`), and
ids that were ascending are kept and ascend again (`AscendingStays`).

`ServiceProofs` proves, for any calls, subscribers, peers and orderers, with any
of the peers local and dialed at the start and any keys with certificates that
fail (`ServiceAssumption` says only that local peers are among the named, these
among the peers, and that the sets are apart), the types and
`ConnectionsAccounted`. Of each pool it shows that the newest connection of a key
is in the map or closed, with all older ones, and that the caller with the lock
found none (`PeersFit`, `OrderersFit`); of the process, that no call runs once
main is past `drain` (`Stopping`). A subscriber that outlives its call could still
dial after the pool was closed, but a call that has ended has a context that is
over (`Handed`), and the peer pool's dial sees it. That it does is what keeps the
pool empty (`Emptied`).

Every invariant, action property and refinement that a passing run checks is
proved. Liveness is checked by TLC only: TLAPS has no support for fairness and
ENABLED.

## Not modelled

- Encoding, signatures, logging and the wording of errors; panics other than
  those named, which end the process and are not followed further.
- Discovery: a request and the conversion of its answer. What a commit makes of
  it is the choice of a quorum (`Commit`).
- The clients of the system chaincodes: a single call each, modelled by what it
  answers where a handler uses it (`QueryApproved`, `ChaincodeDefinitions`,
  `CheckCommitReadiness`, `Query` and `Act` of `PeerRollout`, `GetChannelConfig`).
- The handlers that only answer what they read (`LifecycleStatus`,
  `LifecycleApproved`, `LifecycleCheckCommitReadiness`, the lists of orderers and
  anchor peers, the three discovery methods): one read and no step after it.
- The token check, the error renderer, the health check, configuration loading
  and the signers: no state and nothing to interleave with.
- `src/proto`: about 13,400 of the 19,100 lines of the implementation are
  generated from the `.proto` files (messages, stubs, the gateway, validators
  that the service never calls). A model of them would say what the generator
  does. The modules account for about 3,000 lines, more than half of what was
  written by hand.

## Plan

Done: the submission of a transaction, the broadcast, the lifecycle of a
definition, the fan-outs and what they do at the peers, the changes of a
channel's configuration, the connection pools and the life of the process, and
the proofs of all that is not liveness. What
is left, by weight:

1. The part of the liveness properties that is not about fairness: that a request
   whose context has ended always has a goroutine that can run, as an invariant
   over the guards, for every set of peers.
2. Discovery as a step of its own in `Commit`, with endorsers that a peer's view
   lags behind on.
