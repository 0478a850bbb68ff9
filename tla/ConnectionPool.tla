--------------------------- MODULE ConnectionPool ---------------------------
(***************************************************************************)
(* A pool of gRPC connections, to the peers (src/pkg/peer/pool_grpc.go) or *)
(* to the orderers (src/pkg/orderer/pool_grpc.go): a map under a           *)
(* readers-writer lock, filled by the callers that miss a connection.      *)
(*                                                                         *)
(* The n-th connection dialed for a key is <<key, n>>.  What a caller does *)
(* under the read lock is one step; under the write lock it looks again,   *)
(* and dials in a second step.                                             *)
(***************************************************************************)
EXTENDS Integers

CONSTANTS Keys,         \* of the peers or orderers
          Callers,      \* goroutines that may be in the pool
          Suspect,      \* keys whose certificates may fail to parse
          Named,        \* keys that begin with the service's MSP id
          SeesContext,  \* TRUE where the dial is given the caller's context
          None          \* no caller

VARIABLES conn,   \* connMap: [Keys -> number], 0 where there is none
          dialed, \* [Keys -> number] of the newest connection
          closed, \* connections that were closed
          holder, \* the caller that has the write lock
          at,     \* [Callers -> where it is in a call of the pool]
          want,   \* the key it asks for, None before
          got     \* number of the connection it was given

pool == <<conn, dialed, closed, holder, at, want, got>>

Outside == {"out", "has"}

Init(local) ==
  /\ conn = [k \in Keys |-> IF k \in local THEN 1 ELSE 0]
  /\ dialed = conn
  /\ closed = {}
  /\ holder = None
  /\ at = [c \in Callers |-> "out"]
  /\ want = [c \in Callers |-> None]
  /\ got = [c \in Callers |-> 0]

Goes(c, place, n) == at' = [at EXCEPT ![c] = place] /\ got' = [got EXCEPT ![c] = n]
Given(c, n) == Goes(c, "has", n)
Empty(c) == Goes(c, "out", 0) /\ want' = [want EXCEPT ![c] = None]

(* The look under the read lock. *)
Look(c, k) ==
  /\ at[c] \in Outside
  /\ holder = None
  /\ want' = [want EXCEPT ![c] = k]
  /\ IF conn[k] > 0 THEN Given(c, conn[k]) ELSE Goes(c, "missed", 0)
  /\ UNCHANGED <<conn, dialed, closed, holder>>

(* Faulty variant: "check connection again" is left out. *)
LockAtOnce(c) ==
  /\ at[c] = "missed"
  /\ holder = None
  /\ holder' = c /\ Goes(c, "locked", 0)
  /\ UNCHANGED <<conn, dialed, closed, want>>

(* The write lock and the second look. *)
Lock(c) ==
  /\ at[c] = "missed"
  /\ holder = None
  /\ IF conn[want[c]] > 0
     THEN Given(c, conn[want[c]]) /\ UNCHANGED holder
     ELSE holder' = c /\ Goes(c, "locked", 0)
  /\ UNCHANGED <<conn, dialed, closed, want>>

(* AppendCertsFromPEM may fail: which certificates come with a key is up   *)
(* to the channel configuration the caller has read, if it has any.  The   *)
(* dial fails when it is given a context that is over, and returns a       *)
(* connection at once otherwise.                                           *)
MayFail(c, over) == want[c] \in Suspect \/ (SeesContext /\ over)
MayDial(over) == ~(SeesContext /\ over)

Connects(c) ==
  LET n == dialed[want[c]] + 1 IN
  /\ dialed' = [dialed EXCEPT ![want[c]] = n]
  /\ conn' = [conn EXCEPT ![want[c]] = n]
  /\ Given(c, n) /\ UNCHANGED want

(* Faulty variant: the lock is not given back after an error. *)
DialKeeping(c, over) ==
  /\ at[c] = "locked"
  /\ \/ MayFail(c, over) /\ Empty(c) /\ UNCHANGED <<conn, dialed, holder>>
     \/ MayDial(over) /\ Connects(c) /\ holder' = None
  /\ UNCHANGED closed

Dial(c, over) ==
  /\ at[c] = "locked"
  /\ holder' = None
  /\ \/ MayFail(c, over) /\ Empty(c) /\ UNCHANGED <<conn, dialed>>
     \/ MayDial(over) /\ Connects(c)
  /\ UNCHANGED closed

(* The caller is told of an error in this step. *)
ToldOfError(c) == at[c] = "locked" /\ at'[c] = "out"

(* GetRandomEndorser, GetConnection, GetDiscoveryClient: some connection   *)
(* of the map whose key begins with the MSP id, or an error.  The key of a *)
(* peer of Org10 begins with Org1.                                         *)
Pick(c) ==
  /\ at[c] \in Outside
  /\ holder = None
  /\ \/ \E k \in Named : conn[k] > 0 /\ Given(c, conn[k]) /\ want' = [want EXCEPT ![c] = k]
     \/ (\A k \in Named : conn[k] = 0) /\ Empty(c)
  /\ UNCHANGED <<conn, dialed, closed, holder>>

(* GetEndorser and GetDeliver, for one of the given keys. *)
Steps(c, keys, over) == (\E k \in keys : Look(c, k)) \/ Lock(c) \/ Dial(c, over)

(* The caller is over. *)
Leave(c) ==
  /\ at[c] \in Outside
  /\ Empty(c)
  /\ UNCHANGED <<conn, dialed, closed, holder>>

Close ==
  /\ holder = None
  /\ closed' = closed \cup {<<k, conn[k]>> : k \in {k \in Keys : conn[k] > 0}}
  /\ conn' = [k \in Keys |-> 0]
  /\ UNCHANGED <<dialed, holder, at, want, got>>

-----------------------------------------------------------------------------
TypeOK ==
  /\ conn \in [Keys -> Nat] /\ dialed \in [Keys -> Nat]
  /\ closed \subseteq Keys \X Nat
  /\ holder \in Callers \cup {None}
  /\ at \in [Callers -> Outside \cup {"missed", "locked"}]
  /\ want \in [Callers -> Keys \cup {None}] /\ got \in [Callers -> Nat]

Open(k) == {n \in 1 .. dialed[k] : <<k, n>> \notin closed}

(* The pool knows every open connection, and has one of a key at most. *)
Accounted == \A k \in Keys : Open(k) = IF conn[k] > 0 THEN {conn[k]} ELSE {}

(* A caller that was given a connection has an open one. *)
Holds(c) == at[c] = "has" => got[c] \in Open(want[c])

Drained == \A k \in Keys : Open(k) = {}
=============================================================================
