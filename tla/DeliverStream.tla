--------------------------- MODULE DeliverStream ---------------------------
(***************************************************************************)
(* One transaction watched through the deliver streams of several peers:   *)
(* the part of pkg/delivery/peer.go that SubscribeTx and SubscribeTxAll    *)
(* share (getTxValidationCode, one goroutine per peer), with the ordering  *)
(* service and the peers' ledgers it watches.                              *)
(*                                                                         *)
(* A goroutine's steps are the operations at which another goroutine can   *)
(* come between.  The module has no Next of its own: SubmitAll and         *)
(* SubmitFirst compose these steps with the handler that waits.            *)
(***************************************************************************)

CONSTANTS Peers,    \* the organisation's own peers, peerCli.peers
          Stale     \* peers whose newest block, before the transaction is
                    \* ordered, already holds one with the awaited id: the
                    \* empty id of a config update matches any config block

ASSUME PeersAssumption == Peers # {} /\ Stale \subseteq Peers

VARIABLES tx,       \* what became of the envelope: "none", "sent", "ordered"
          verdict,  \* the code every peer's validation gives it
          ledger,   \* where its block stands in each peer's chain
          stream,   \* what each peer's deliver stream will still show
          wpc,      \* where each peer's waiting goroutine stands
          code,     \* what getTxValidationCode returned in it
          ready,    \* TRUE once the ready channel is closed
          crashed,  \* TRUE once a goroutine panicked: the process is gone
          sctx,     \* the context of the streams
          pool      \* the peer connection pool

chain   == <<tx, verdict, ledger>>
waiters == <<stream, wpc, code>>
process == <<ready, crashed, sctx, pool>>

(***************************************************************************)
(* What getTxValidationCode can return.  "statusError" is an error whose   *)
(* cause carries a gRPC status (or has none, as when the peer ends the     *)
(* stream with a status message); "ioError" is any other (io.EOF from a    *)
(* broken stream, a failed signature).  Both come with the code -1.        *)
(***************************************************************************)
Verdicts == {"valid", "invalid"}
Errors   == {"statusError", "ioError"}
Codes    == Verdicts \cup Errors

DeliverTypeOK ==
  /\ tx \in {"none", "sent", "ordered"}
  /\ verdict \in Verdicts
  /\ ledger \in [Peers -> {"before", "newest", "past"}]
  /\ stream \in [Peers -> {"none", "seeking", "stale", "live", "blind"}]
  /\ wpc \in [Peers -> {"idle", "open", "seek", "check", "close", "recv",
                        "report", "done"}]
  /\ code \in [Peers -> Codes \cup {"none"}]
  /\ ready \in BOOLEAN
  /\ crashed \in BOOLEAN
  /\ sctx \in {"live", "cancelled"}
  /\ pool \in {"open", "closed"}

DeliverInit ==
  /\ tx = "none"
  /\ verdict \in Verdicts
  /\ ledger = [p \in Peers |-> "before"]
  /\ stream = [p \in Peers |-> "none"]
  /\ wpc = [p \in Peers |-> "idle"]
  /\ code = [p \in Peers |-> "none"]
  /\ ready = FALSE
  /\ crashed = FALSE
  /\ sctx = "live"
  /\ pool = "open"

----------------------------------------------------------------------------
(* The network's side: ordering service, committing peers, deliver service. *)

Order ==
  /\ tx = "sent"
  /\ tx' = "ordered"
  /\ UNCHANGED <<verdict, ledger, waiters, process>>

Commit(p) ==
  /\ tx = "ordered"
  /\ ledger[p] = "before"
  /\ ledger' = [ledger EXCEPT ![p] = "newest"]
  /\ UNCHANGED <<tx, verdict, waiters, process>>

(* Later blocks matter only to a seek that is still to be served. *)
Bury(p) ==
  /\ ledger[p] = "newest"
  /\ stream[p] \in {"none", "seeking"}
  /\ wpc[p] # "done"
  /\ ledger' = [ledger EXCEPT ![p] = "past"]
  /\ UNCHANGED <<tx, verdict, waiters, process>>

(* What a stream that starts at the newest block of the moment will show. *)
ViewFrom(p) ==
  CASE ledger[p] = "past" -> "blind"
    [] ledger[p] = "before" /\ p \in Stale -> "stale"
    [] OTHER -> "live"

ServeSeek(p) ==
  /\ stream[p] = "seeking"
  /\ wpc[p] \in {"check", "close", "recv"}
  /\ stream' = [stream EXCEPT ![p] = ViewFrom(p)]
  /\ UNCHANGED <<chain, wpc, code, process>>

----------------------------------------------------------------------------
(* The waiting goroutine of one peer. *)

At(p, here) == ~crashed /\ wpc[p] = here

Moves(p, next) ==
  /\ wpc' = [wpc EXCEPT ![p] = next]
  /\ UNCHANGED <<chain, sctx, pool>>

Returns(p, c) ==
  /\ Moves(p, "report")
  /\ code' = [code EXCEPT ![p] = c]
  /\ UNCHANGED <<stream, ready, crashed>>

OpenStream(p) ==
  /\ At(p, "open")
  /\ sctx = "live"
  /\ pool = "open"
  /\ Moves(p, "seek")
  /\ UNCHANGED <<stream, code, ready, crashed>>

OpenFails(p) ==
  /\ At(p, "open")
  /\ Returns(p, "statusError")

SendSeek(p) ==
  /\ At(p, "seek")
  /\ Moves(p, "check")
  /\ stream' = [stream EXCEPT ![p] = "seeking"]
  /\ UNCHANGED <<code, ready, crashed>>

(* gRPC returns io.EOF for a stream that broke, a status for its own errors. *)
SendFails(p) ==
  /\ At(p, "seek")
  /\ \E e \in Errors : Returns(p, e)

(* The select that looks whether ready is closed ... *)
CheckReady(p) ==
  /\ At(p, "check")
  /\ Moves(p, IF ready THEN "recv" ELSE "close")
  /\ UNCHANGED <<stream, code, ready, crashed>>

(* ... and the close it guards, a step of its own: closing a closed channel
   panics, and no goroutine of the server recovers.                         *)
CloseReady(p) ==
  /\ At(p, "close")
  /\ Moves(p, "recv")
  /\ ready' = TRUE
  /\ crashed' = ready
  /\ UNCHANGED <<stream, code>>

(* The codes that the blocks of a stream show for the awaited id. *)
Shows(p) ==
  CASE stream[p] = "live" /\ ledger[p] # "before" -> {verdict}
    [] stream[p] = "stale" -> {"valid"}
    [] OTHER -> {}

(* Other blocks leave the goroutine where it is. *)
Receive(p) ==
  /\ At(p, "recv")
  /\ \E c \in Shows(p) : Returns(p, c)

(* Faulty variant: the goroutine returns on an error without reporting. *)
RecvFailsSilently(p) ==
  /\ At(p, "recv")
  /\ Moves(p, "idle")
  /\ UNCHANGED <<stream, code, ready, crashed>>

(* The peer or the network ends the stream. *)
RecvFails(p) ==
  /\ At(p, "recv")
  /\ \E e \in Errors : Returns(p, e)

RecvCancelled(p) ==
  /\ At(p, "recv")
  /\ sctx = "cancelled"
  /\ Returns(p, "statusError")

WaiterStep(p) ==
  \/ OpenStream(p)
  \/ OpenFails(p)
  \/ SendSeek(p)
  \/ SendFails(p)
  \/ CheckReady(p)
  \/ CloseReady(p)
  \/ Receive(p)
  \/ RecvFails(p)
  \/ RecvCancelled(p)

NetworkStep ==
  /\ ~crashed
  /\ Order \/ \E p \in Peers : Commit(p) \/ Bury(p) \/ ServeSeek(p)

(***************************************************************************)
(* The goroutine never stays in a runnable state for ever.  Opening and    *)
(* sending end one way or the other, a matching block on a live stream is  *)
(* read, and a cancelled context ends Recv; nothing makes a broken stream  *)
(* come back or an idle one fail.                                          *)
(***************************************************************************)
WaiterProgress(p) ==
  \/ OpenStream(p)
  \/ OpenFails(p)
  \/ SendSeek(p)
  \/ SendFails(p)
  \/ CheckReady(p)
  \/ CloseReady(p)
  \/ Receive(p)
  \/ RecvCancelled(p)
============================================================================
