------------------------------ MODULE Service ------------------------------
(***************************************************************************)
(* The process (src/main.go): the goroutines of the gRPC server and of the *)
(* HTTP gateway in front of it, which share the variables grpcServer and   *)
(* httpServer with main, the calls the gRPC server handles and what they   *)
(* leave behind, the two connection pools, and the shutdown.               *)
(*                                                                         *)
(* A call is a goroutine of the gRPC server, which uses both pools: it     *)
(* asks for local peers, for peers of any organisation that discovery      *)
(* names (GetEndorsersFromDiscovery), and for orderers.  It may start a    *)
(* subscriber (SubscribeTx, SubscribeTxAll), which asks the peer pool for  *)
(* one local peer after the other and may outlive the call, under the      *)
(* call's context.  What calls do besides is in the other modules.         *)
(***************************************************************************)
EXTENDS Integers

CONSTANTS Calls, Subscribers,
          CallOf,      \* [Subscribers -> Calls], the call that starts it
          PeerKeys, OrdererKeys,
          LocalKeys,   \* the peers of the service's own configuration
          NamedKeys,   \* peers whose key begins with its MSP id
          Suspect,     \* peers and orderers with certificates that may not parse
          None

ASSUME ServiceAssumption ==
  /\ LocalKeys \subseteq NamedKeys /\ NamedKeys \subseteq PeerKeys
  /\ CallOf \in [Subscribers -> Calls]
  /\ Calls \cap Subscribers = {}
  /\ None \notin Calls \cup Subscribers \cup PeerKeys \cup OrdererKeys

VARIABLES
  main,       \* where main is
  cancelled,  \* the context of the group is over
  failed,     \* a goroutine of the group returned an error
  grpcServer, \* the server main would find in the variable
  grpcRun,    \* the goroutine of the gRPC server
  httpServer, \* likewise for the gateway
  httpRun,
  call,       \* [Calls -> state]
  ctx,        \* [Calls -> state of its context]
  subscriber, \* [Subscribers -> state]
  crashed,    \* why the process crashed
  pConn, pDialed, pClosed, pHolder, pAt, pWant, pGot, \* the peer pool
  oConn, oDialed, oClosed, oHolder, oAt, oWant, oGot  \* the orderer pool

servers == <<grpcServer, grpcRun, httpServer, httpRun>>
pPool == <<pConn, pDialed, pClosed, pHolder, pAt, pWant, pGot>>
oPool == <<oConn, oDialed, oClosed, oHolder, oAt, oWant, oGot>>
vars == <<main, cancelled, failed, servers, call, ctx, subscriber, crashed, pPool, oPool>>

Callers == Calls \cup Subscribers

Peers == INSTANCE ConnectionPool WITH
  Keys <- PeerKeys, Named <- NamedKeys, SeesContext <- TRUE, Callers <- Callers,
  conn <- pConn, dialed <- pDialed, closed <- pClosed, holder <- pHolder,
  at <- pAt, want <- pWant, got <- pGot

Orderers == INSTANCE ConnectionPool WITH
  Keys <- OrdererKeys, Named <- {}, SeesContext <- FALSE, Callers <- Calls,
  conn <- oConn, dialed <- oDialed, closed <- oClosed, holder <- oHolder,
  at <- oAt, want <- oWant, got <- oGot

(* NewGrpcPool has dialed the local peers; the listener is bound and the   *)
(* two servers are zero values.                                            *)
Init ==
  /\ main = "listen"
  /\ cancelled = FALSE /\ failed = FALSE
  /\ grpcServer = "zero" /\ grpcRun = "start"
  /\ httpServer = "zero" /\ httpRun = "dial"
  /\ call = [c \in Calls |-> "none"]
  /\ ctx = [c \in Calls |-> "live"]
  /\ subscriber = [s \in Subscribers |-> "none"]
  /\ crashed = "no"
  /\ Peers!Init(LocalKeys)
  /\ Orderers!Init({})

Crashed == crashed # "no"
Exited == main \in {"done", "failed"} \/ Crashed
rest == <<call, ctx, subscriber, pPool, oPool>>

-----------------------------------------------------------------------------
(* The gRPC server's goroutine. *)

GrpcMake ==
  /\ grpcRun = "start"
  /\ grpcRun' = "made" /\ grpcServer' = "new"
  /\ UNCHANGED <<main, cancelled, failed, httpServer, httpRun, crashed, rest>>

(* Serve of a server that was stopped before returns ErrServerStopped. *)
GrpcServe ==
  /\ grpcRun = "made"
  /\ IF grpcServer = "new"
     THEN grpcServer' = "serving" /\ grpcRun' = "serve" /\ UNCHANGED <<failed, cancelled>>
     ELSE grpcRun' = "end" /\ failed' = TRUE /\ cancelled' = TRUE /\ UNCHANGED grpcServer
  /\ UNCHANGED <<main, httpServer, httpRun, crashed, rest>>

(* Serve returns when the server has stopped, or when accepting fails,     *)
(* which leaves the connections it has accepted served.                    *)
GrpcEnd ==
  /\ grpcRun = "serve"
  /\ \/ grpcServer = "stopped" /\ UNCHANGED <<failed, cancelled>>
     \/ grpcServer = "serving" /\ failed' = TRUE /\ cancelled' = TRUE
  /\ grpcRun' = "end"
  /\ UNCHANGED <<main, grpcServer, httpServer, httpRun, crashed, rest>>

(* Faulty variant: the dial is not given the context. *)
HttpDialDetached ==
  /\ httpRun = "dial" /\ grpcServer = "serving"
  /\ httpRun' = "dialed"
  /\ UNCHANGED <<main, cancelled, failed, grpcServer, grpcRun, httpServer, crashed, rest>>

(* The gateway's goroutine: it dials the gRPC server and waits for the     *)
(* connection, which a context that is over ends.                          *)
HttpDial ==
  /\ httpRun = "dial"
  /\ \/ cancelled /\ httpRun' = "end" /\ failed' = TRUE
     \/ grpcServer = "serving" /\ httpRun' = "dialed" /\ UNCHANGED failed
  /\ UNCHANGED <<main, cancelled, grpcServer, grpcRun, httpServer, crashed, rest>>

HttpMake ==
  /\ httpRun = "dialed"
  /\ httpRun' = "made" /\ httpServer' = "new"
  /\ UNCHANGED <<main, cancelled, failed, grpcServer, grpcRun, crashed, rest>>

(* ListenAndServe of a server that was shut down returns ErrServerClosed,  *)
(* which is no error; the port may be taken, which is.                     *)
HttpServe ==
  /\ httpRun = "made"
  /\ \/ httpServer = "new" /\ httpServer' = "serving" /\ httpRun' = "serve" /\ UNCHANGED <<failed, cancelled>>
     \/ httpServer = "new" /\ httpRun' = "end" /\ failed' = TRUE /\ cancelled' = TRUE /\ UNCHANGED httpServer
     \/ httpServer = "shut" /\ httpRun' = "end" /\ UNCHANGED <<httpServer, failed, cancelled>>
  /\ UNCHANGED <<main, grpcServer, grpcRun, crashed, rest>>

HttpEnd ==
  /\ httpRun = "serve" /\ httpServer = "shut"
  /\ httpRun' = "end"
  /\ UNCHANGED <<main, cancelled, failed, grpcServer, grpcRun, httpServer, crashed, rest>>

-----------------------------------------------------------------------------
(* main: listen from its select on. *)

MainTo(next) == main' = next

ToShutdown ==
  /\ main = "listen"
  /\ MainTo("shutHttp") /\ cancelled' = TRUE
  /\ UNCHANGED <<failed, servers, crashed, rest>>

(* The two branches of the select: a signal comes, or the group's context  *)
(* is over.                                                                *)
Interrupt == ToShutdown
Wake == cancelled /\ ToShutdown

(* Shutdown under a context that is over closes the listener and does not  *)
(* wait; on the zero server it does nothing.                               *)
ShutHttp ==
  /\ main = "shutHttp"
  /\ MainTo("stopGrpc")
  /\ httpServer' = IF httpServer = "zero" THEN "zero" ELSE "shut"
  /\ UNCHANGED <<cancelled, failed, grpcServer, grpcRun, httpRun, crashed, rest>>

(* GracefulStop of the zero server panics; otherwise it lets no call in    *)
(* and waits for those that run.                                           *)
StopGrpc ==
  /\ main = "stopGrpc"
  /\ IF grpcServer = "zero"
     THEN crashed' = "zeroServer" /\ UNCHANGED <<main, grpcServer>>
     ELSE grpcServer' = "stopping" /\ MainTo("drain") /\ UNCHANGED crashed
  /\ UNCHANGED <<cancelled, failed, grpcRun, httpServer, httpRun, rest>>

Running == {c \in Calls : call[c] = "running"}

Drain ==
  /\ main = "drain"
  /\ Running = {}
  /\ MainTo("wait") /\ grpcServer' = "stopped"
  /\ UNCHANGED <<cancelled, failed, grpcRun, httpServer, httpRun, crashed, rest>>

(* After an error of the group the pools are left as they are. *)
Wait ==
  /\ main = "wait"
  /\ grpcRun = "end" /\ httpRun = "end"
  /\ MainTo(IF failed THEN "failed" ELSE "closePeers")
  /\ UNCHANGED <<cancelled, failed, servers, crashed, rest>>

(* A pool's Close empties the map also when closing a connection reports   *)
(* an error, which main returns: then the orderer pool stays as it is.     *)
ClosePeers ==
  /\ main = "closePeers"
  /\ Peers!Close /\ \E next \in {"closeOrderers", "failed"} : MainTo(next)
  /\ UNCHANGED <<cancelled, failed, servers, call, ctx, subscriber, crashed, oPool>>

CloseOrderers ==
  /\ main = "closeOrderers"
  /\ Orderers!Close /\ \E next \in {"done", "failed"} : MainTo(next)
  /\ UNCHANGED <<cancelled, failed, servers, call, ctx, subscriber, crashed, pPool>>

-----------------------------------------------------------------------------
(* The calls. *)

process == <<main, cancelled, failed, servers>>
Within(at) == at \in {"missed", "locked"}
Over(c) == ctx[c] # "live"

Arrive(c) ==
  /\ grpcServer = "serving" /\ call[c] = "none"
  /\ call' = [call EXCEPT ![c] = "running"]
  /\ UNCHANGED <<process, ctx, subscriber, crashed, pPool, oPool>>

(* Its deadline passes, or its client goes away; which of the two is left  *)
(* open.                                                                   *)
LoseContext(c) ==
  /\ call[c] = "running" /\ ctx[c] = "live"
  /\ ctx' = [ctx EXCEPT ![c] = "lost"]
  /\ UNCHANGED <<process, call, subscriber, crashed, pPool, oPool>>

CallUsesPeers(c) ==
  /\ call[c] = "running" /\ ~Within(oAt[c])
  /\ Peers!Steps(c, PeerKeys, Over(c)) \/ Peers!Pick(c)
  /\ UNCHANGED <<process, call, ctx, subscriber, crashed, oPool>>

CallUsesOrderers(c) ==
  /\ call[c] = "running" /\ ~Within(pAt[c])
  /\ Orderers!Steps(c, OrdererKeys, Over(c))
  /\ UNCHANGED <<process, call, ctx, subscriber, crashed, pPool>>

(* A caller under a pool's write lock adds the certificates of its peer or *)
(* orderer to the one pool of root certificates both pools share, which is *)
(* not safe while a connection's handshake reads it or the other pool's    *)
(* caller adds to it.                                                      *)
Handshakes == (\E k \in PeerKeys : pConn[k] > 0) \/ (\E k \in OrdererKeys : oConn[k] > 0)
RootsRace(c) ==
  /\ \/ pHolder = c /\ (Handshakes \/ oHolder # None)
     \/ oHolder = c /\ (Handshakes \/ pHolder # None)
  /\ crashed' = "roots"
  /\ UNCHANGED <<process, call, ctx, subscriber, pPool, oPool>>

Return(c) ==
  /\ call[c] = "running" /\ Peers!Leave(c) /\ Orderers!Leave(c)
  /\ call' = [call EXCEPT ![c] = "ended"]
  /\ ctx' = [ctx EXCEPT ![c] = IF Over(c) THEN @ ELSE "returned"]
  /\ UNCHANGED <<process, subscriber, crashed>>

Subscribe(s) ==
  /\ call[CallOf[s]] = "running" /\ subscriber[s] = "none"
  /\ subscriber' = [subscriber EXCEPT ![s] = "running"]
  /\ UNCHANGED <<process, call, ctx, crashed, pPool, oPool>>

(* SubscribeTx goes on to the next peer after an error. *)
SubscriberUsesPeers(s) ==
  /\ subscriber[s] \in {"running", "failed"}
  /\ Peers!Steps(s, LocalKeys, Over(CallOf[s]))
  /\ subscriber' = [subscriber EXCEPT ![s] = IF Peers!ToldOfError(s) THEN "failed" ELSE @]
  /\ UNCHANGED <<process, call, ctx, crashed, oPool>>

(* It has all its peers, or is told that the context was cancelled.  Any   *)
(* other error (of a deadline that has passed) is not looked at, and a     *)
(* waiter calls Deliver of no client.                                      *)
SubscriberEnds(s) ==
  /\ subscriber[s] \in {"running", "failed"} /\ Peers!Leave(s)
  /\ \/ subscriber' = [subscriber EXCEPT ![s] = "ended"] /\ UNCHANGED crashed
     \/ /\ subscriber[s] = "failed" /\ ctx[CallOf[s]] = "lost"
        /\ crashed' = "noClient" /\ UNCHANGED subscriber
  /\ UNCHANGED <<process, call, ctx, oPool>>

-----------------------------------------------------------------------------
GrpcStep == ~Exited /\ (GrpcMake \/ GrpcServe \/ GrpcEnd)
HttpStep == ~Exited /\ (HttpDial \/ HttpMake \/ HttpServe \/ HttpEnd)
MainStep ==
  ~Exited /\ (Wake \/ ShutHttp \/ StopGrpc \/ Drain \/ Wait \/ ClosePeers \/ CloseOrderers)
InPoolStep(c) ==
  ~Exited /\ ((Within(pAt[c]) /\ CallUsesPeers(c)) \/ (Within(oAt[c]) /\ CallUsesOrderers(c)))
SubscriberInPoolStep(s) == ~Exited /\ Within(pAt[s]) /\ SubscriberUsesPeers(s)

CallStep(c) ==
  ~Exited /\ (\/ Arrive(c) \/ LoseContext(c) \/ Return(c) \/ RootsRace(c)
              \/ CallUsesPeers(c) \/ CallUsesOrderers(c))
SubscriberStep(s) ==
  ~Exited /\ (Subscribe(s) \/ SubscriberUsesPeers(s) \/ SubscriberEnds(s) \/ RootsRace(s))

Next ==
  \/ GrpcStep \/ HttpStep \/ MainStep \/ (~Exited /\ Interrupt)
  \/ \E c \in Calls : CallStep(c)
  \/ \E s \in Subscribers : SubscriberStep(s)

(* The scheduler lets every goroutine go on, and a lock is never held for  *)
(* ever; nothing makes a call return.                                      *)
Fairness ==
  /\ WF_vars(GrpcStep) /\ WF_vars(HttpStep) /\ WF_vars(MainStep)
  /\ \A c \in Calls : WF_vars(InPoolStep(c))
  /\ \A s \in Subscribers : WF_vars(SubscriberInPoolStep(s))

Spec == Init /\ [][Next]_vars /\ Fairness

-----------------------------------------------------------------------------
(* Where everything is, and a lock is held by the caller that dials.       *)
TypeOK ==
  /\ main \in {"listen", "shutHttp", "stopGrpc", "drain", "wait", "closePeers", "closeOrderers", "done", "failed"}
  /\ cancelled \in BOOLEAN /\ failed \in BOOLEAN
  /\ grpcServer \in {"zero", "new", "serving", "stopping", "stopped"}
  /\ grpcRun \in {"start", "made", "serve", "end"}
  /\ httpServer \in {"zero", "new", "serving", "shut"}
  /\ httpRun \in {"dial", "dialed", "made", "serve", "end"}
  /\ call \in [Calls -> {"none", "running", "ended"}]
  /\ ctx \in [Calls -> {"live", "lost", "returned"}]
  /\ subscriber \in [Subscribers -> {"none", "running", "failed", "ended"}]
  /\ crashed \in {"no", "zeroServer", "noClient", "roots"}
  /\ Peers!TypeOK /\ Orderers!TypeOK
  /\ \A c \in Callers : pAt[c] = "locked" <=> pHolder = c
  /\ \A c \in Calls : oAt[c] = "locked" <=> oHolder = c

(* Each pool knows all its open connections and has one of a peer or       *)
(* orderer at most, a running call never holds a closed one, and when main *)
(* returns in order no connection is left open, whatever a subscriber that *)
(* outlives its call still asks for (grpcPool, listen).                    *)
ConnectionsAccounted ==
  /\ Peers!Accounted /\ Orderers!Accounted
  /\ \A c \in Calls : call[c] = "running" => Peers!Holds(c) /\ Orderers!Holds(c)
  /\ main = "done" => Peers!Drained /\ Orderers!Drained

(* If every call returns in the end, a signal or an error of a server ends *)
(* the process, unless the gateway starts to listen when main has shut     *)
(* down the zero server it found in its place (listen).                    *)
StartedLate == main \in {"stopGrpc", "drain", "wait"} /\ httpServer \in {"new", "serving"}
ShutdownEnds ==
  (\A c \in Calls : []<>(call[c] # "running")) =>
    (cancelled ~> Exited \/ StartedLate)
=============================================================================
