---------------------------- MODULE ServiceProofs ----------------------------
(***************************************************************************)
(* Every connection of the two pools is accounted for, for any calls,      *)
(* subscribers, peers and orderers.  First what the operations of each     *)
(* pool preserve; then that nobody dials after the pools are closed.       *)
(***************************************************************************)
EXTENDS Service, TLAPS

LEMMA NoneApart ==
  /\ None \notin Callers /\ None \notin Calls
  /\ None \notin PeerKeys /\ None \notin OrdererKeys
  /\ LocalKeys \subseteq PeerKeys /\ NamedKeys \subseteq PeerKeys
BY ServiceAssumption DEF Callers

-----------------------------------------------------------------------------
(* The peer pool. *)

(* The newest connection of a key is the one in the map, or closed like    *)
(* all before it; who has the lock found none.                             *)
PeersFit ==
  /\ \A k \in PeerKeys, n \in Nat :
       <<k, n>> \in pClosed <=> n \in 1 .. pDialed[k] /\ n # pConn[k]
  /\ \A k \in PeerKeys : pConn[k] \in {0, pDialed[k]}
  /\ \A c \in Callers : pAt[c] = "locked" <=> pHolder = c
  /\ \A c \in Callers : pAt[c] \in {"missed", "locked"} => pWant[c] \in PeerKeys
  /\ \A c \in Callers : pAt[c] = "locked" => pConn[pWant[c]] = 0
  /\ \A c \in Callers : pAt[c] = "has" => pWant[c] \in PeerKeys /\ pGot[c] \in 1 .. pDialed[pWant[c]]

PeerInv == Peers!TypeOK /\ PeersFit

(* What a step of the caller c may change for the others. *)
PeerCurrent(d) == pAt[d] = "has" => pGot[d] = pConn[pWant[d]]
PeerMoves(c) ==
  /\ \A d \in Callers \ {c} : pAt'[d] = pAt[d]
  /\ PeerCurrent(c)'
  /\ \A d \in Callers : PeerCurrent(d) => PeerCurrent(d)'

LEMMA PeerInit ==
  ASSUME NEW local \in SUBSET PeerKeys, Peers!Init(local)
  PROVE  PeerInv /\ \A c \in Callers : pAt[c] = "out" /\ PeerCurrent(c)
<1> USE NoneApart
<1>1. Peers!TypeOK
  BY DEF Peers!TypeOK, Peers!Init, Peers!Outside
<1>2. PeersFit
  BY DEF PeersFit, Peers!Init
<1>3. \A c \in Callers : pAt[c] = "out" /\ PeerCurrent(c)
  BY DEF PeerCurrent, Peers!Init
<1> QED BY <1>1, <1>2, <1>3 DEF PeerInv

LEMMA PeerLook ==
  ASSUME PeerInv, NEW c \in Callers, NEW k \in PeerKeys, Peers!Look(c, k)
  PROVE  PeerInv' /\ PeerMoves(c) /\ pConn' = pConn
<1> USE NoneApart DEF PeerInv
<1>1. Peers!TypeOK'
  BY DEF Peers!TypeOK, Peers!Look, Peers!Given, Peers!Goes, Peers!Outside
<1>2. PeersFit'
  BY DEF Peers!TypeOK, PeersFit, Peers!Look, Peers!Given, Peers!Goes, Peers!Outside
<1>3. PeerMoves(c) /\ pConn' = pConn
  BY DEF Peers!TypeOK, PeerMoves, PeerCurrent, Peers!Look, Peers!Given, Peers!Goes, Peers!Outside
<1> QED BY <1>1, <1>2, <1>3

LEMMA PeerLock ==
  ASSUME PeerInv, NEW c \in Callers, Peers!Lock(c)
  PROVE  PeerInv' /\ PeerMoves(c) /\ pConn' = pConn
<1> USE NoneApart DEF PeerInv
<1>0. pWant[c] \in PeerKeys
  BY DEF PeersFit, Peers!Lock
<1>1. Peers!TypeOK'
  BY <1>0 DEF Peers!TypeOK, Peers!Lock, Peers!Given, Peers!Goes, Peers!Outside
<1>2. PeersFit'
  BY <1>0 DEF Peers!TypeOK, PeersFit, Peers!Lock, Peers!Given, Peers!Goes, Peers!Outside
<1>3. PeerMoves(c) /\ pConn' = pConn
  BY <1>0 DEF Peers!TypeOK, PeerMoves, PeerCurrent, Peers!Lock, Peers!Given, Peers!Goes, Peers!Outside
<1> QED BY <1>1, <1>2, <1>3

(* A caller that dials under the lock is the only one to dial its key: the *)
(* key has no connection, and nobody else's connection changes.            *)
LEMMA PeerDial ==
  ASSUME PeerInv, NEW c \in Callers, NEW over \in BOOLEAN, Peers!Dial(c, over)
  PROVE  PeerInv' /\ PeerMoves(c) /\ (over => pConn' = pConn)
<1> USE NoneApart DEF PeerInv
<1>0. pWant[c] \in PeerKeys /\ pConn[pWant[c]] = 0 /\ pHolder = c
  BY DEF PeersFit, Peers!Dial
<1>a. CASE Peers!MayFail(c, over) /\ Peers!Empty(c) /\ UNCHANGED <<pConn, pDialed>>
  <2>1. /\ Peers!Goes(c, "out", 0) /\ pHolder' = None /\ UNCHANGED <<pConn, pDialed, pClosed>>
        /\ pWant' = [pWant EXCEPT ![c] = None]
    BY <1>a DEF Peers!Dial, Peers!Empty
  <2>2. Peers!TypeOK'
    BY <2>1 DEF Peers!TypeOK, Peers!Goes, Peers!Outside
  <2>3. PeersFit'
    BY <1>0, <2>1 DEF Peers!TypeOK, PeersFit, Peers!Goes, Peers!Outside
  <2>4. PeerMoves(c)
    BY <2>1 DEF Peers!TypeOK, PeerMoves, PeerCurrent, Peers!Goes, Peers!Outside
  <2> QED BY <2>1, <2>2, <2>3, <2>4
<1>b. CASE Peers!MayDial(over) /\ Peers!Connects(c)
  <2> DEFINE k == pWant[c]
             n == pDialed[k] + 1
  <2>1. /\ pDialed' = [pDialed EXCEPT ![k] = n] /\ pConn' = [pConn EXCEPT ![k] = n]
        /\ Peers!Goes(c, "has", n) /\ pHolder' = None /\ UNCHANGED <<pClosed, pWant>>
    BY <1>b DEF Peers!Dial, Peers!Connects, Peers!Given
  <2>2. k \in PeerKeys /\ n \in Nat /\ n > 0 /\ pConn[k] = 0
    BY <1>0 DEF Peers!TypeOK
  <2> HIDE DEF k
  <2>3. Peers!TypeOK'
    BY <2>1, <2>2 DEF Peers!TypeOK, Peers!Goes, Peers!Outside
  <2>4. \A j \in PeerKeys : /\ pConn'[j] = IF j = k THEN n ELSE pConn[j]
                            /\ pDialed'[j] = IF j = k THEN n ELSE pDialed[j]
    BY <2>1, <2>2 DEF Peers!TypeOK
  <2>5. \A d \in Callers : /\ pAt'[d] = IF d = c THEN "has" ELSE pAt[d]
                           /\ pGot'[d] = IF d = c THEN n ELSE pGot[d]
    BY <2>1 DEF Peers!TypeOK, Peers!Goes
  <2>6. PeersFit'
    <3>1. \A j \in PeerKeys, m \in Nat :
             <<j, m>> \in pClosed' <=> m \in 1 .. pDialed'[j] /\ m # pConn'[j]
      <4> SUFFICES ASSUME NEW j \in PeerKeys, NEW m \in Nat
                   PROVE  <<j, m>> \in pClosed' <=> m \in 1 .. pDialed'[j] /\ m # pConn'[j]
        OBVIOUS
      <4>1. <<j, m>> \in pClosed' <=> m \in 1 .. pDialed[j] /\ m # pConn[j]
        BY <2>1 DEF PeersFit
      <4>2. pDialed[j] \in Nat /\ pConn[j] \in Nat
        BY DEF Peers!TypeOK
      <4>3. CASE j = k
        <5>1. pDialed'[j] = pDialed[j] + 1 /\ pConn'[j] = pDialed[j] + 1 /\ pConn[j] = 0
          BY <2>2, <2>4, <4>3
        <5> QED BY <4>1, <4>2, <5>1
      <4>4. CASE j # k
        BY <2>4, <4>1, <4>4
      <4> QED BY <4>3, <4>4
    <3>2. \A j \in PeerKeys : pConn'[j] \in {0, pDialed'[j]}
      BY <2>4 DEF PeersFit
    <3>3. \A d \in Callers : pAt'[d] = "locked" <=> pHolder' = d
      BY <1>0, <2>1, <2>5 DEF PeersFit
    <3>4. \A d \in Callers : pAt'[d] \in {"missed", "locked"} => pWant'[d] \in PeerKeys
      BY <2>1, <2>5 DEF PeersFit
    <3>5. \A d \in Callers : pAt'[d] = "locked" => pConn'[pWant'[d]] = 0
      BY <2>1, <3>3
    <3>6. \A d \in Callers : pAt'[d] = "has" => pWant'[d] \in PeerKeys /\ pGot'[d] \in 1 .. pDialed'[pWant'[d]]
      <4> SUFFICES ASSUME NEW d \in Callers, pAt'[d] = "has"
                   PROVE  pWant'[d] \in PeerKeys /\ pGot'[d] \in 1 .. pDialed'[pWant'[d]]
        OBVIOUS
      <4>1. CASE d = c
        BY <4>1, <2>1, <2>2, <2>4, <2>5 DEF k
      <4>2. CASE d # c
        BY <4>2, <2>1, <2>2, <2>4, <2>5 DEF Peers!TypeOK, PeersFit
      <4> QED BY <4>1, <4>2
    <3> QED BY <3>1, <3>2, <3>3, <3>4, <3>5, <3>6 DEF PeersFit
  <2>7. PeerMoves(c)
    <3>1. PeerCurrent(c)'
      BY <2>1, <2>2, <2>4, <2>5 DEF PeerCurrent, k
    <3>2. ASSUME NEW d \in Callers \ {c}, PeerCurrent(d) PROVE PeerCurrent(d)'
      BY <3>2, <2>1, <2>2, <2>4, <2>5 DEF PeerCurrent, PeersFit, Peers!TypeOK
    <3> QED BY <2>5, <3>1, <3>2 DEF PeerMoves
  <2> QED BY <1>b, <2>3, <2>6, <2>7 DEF Peers!MayDial
<1> QED BY <1>a, <1>b DEF Peers!Dial

LEMMA PeerPick ==
  ASSUME PeerInv, NEW c \in Callers, Peers!Pick(c)
  PROVE  PeerInv' /\ PeerMoves(c) /\ pConn' = pConn
<1> USE NoneApart DEF PeerInv
<1>1. Peers!TypeOK'
  BY DEF Peers!TypeOK, Peers!Pick, Peers!Empty, Peers!Given, Peers!Goes, Peers!Outside
<1>2. PeersFit'
  BY DEF Peers!TypeOK, PeersFit, Peers!Pick, Peers!Empty, Peers!Given, Peers!Goes, Peers!Outside
<1>3. PeerMoves(c) /\ pConn' = pConn
  BY DEF Peers!TypeOK, PeerMoves, PeerCurrent, Peers!Pick, Peers!Empty, Peers!Given, Peers!Goes, Peers!Outside
<1> QED BY <1>1, <1>2, <1>3

LEMMA PeerLeave ==
  ASSUME PeerInv, NEW c \in Callers, Peers!Leave(c)
  PROVE  PeerInv' /\ PeerMoves(c) /\ pConn' = pConn
<1> USE NoneApart DEF PeerInv
<1>1. Peers!TypeOK'
  BY DEF Peers!TypeOK, Peers!Leave, Peers!Empty, Peers!Goes, Peers!Outside
<1>2. PeersFit'
  BY DEF Peers!TypeOK, PeersFit, Peers!Leave, Peers!Empty, Peers!Goes, Peers!Outside
<1>3. PeerMoves(c) /\ pConn' = pConn
  BY DEF Peers!TypeOK, PeerMoves, PeerCurrent, Peers!Leave, Peers!Empty, Peers!Goes, Peers!Outside
<1> QED BY <1>1, <1>2, <1>3

LEMMA PeerClose ==
  ASSUME PeerInv, Peers!Close
  PROVE  PeerInv' /\ pAt' = pAt /\ \A k \in PeerKeys : pConn'[k] = 0
<1> USE NoneApart DEF PeerInv
<1>1. Peers!TypeOK'
  BY DEF Peers!TypeOK, Peers!Close
<1>2. PeersFit'
  <2>1. \A k \in PeerKeys : pConn'[k] = 0
    BY DEF Peers!Close
  <2>2. \A k \in PeerKeys, n \in Nat :
          <<k, n>> \in pClosed' <=> <<k, n>> \in pClosed \/ (n = pConn[k] /\ pConn[k] > 0)
    BY DEF Peers!Close, Peers!TypeOK
  <2>3. \A k \in PeerKeys, n \in Nat :
          <<k, n>> \in pClosed' <=> n \in 1 .. pDialed'[k] /\ n # pConn'[k]
    <3> SUFFICES ASSUME NEW k \in PeerKeys, NEW n \in Nat
                 PROVE  <<k, n>> \in pClosed' <=> n \in 1 .. pDialed'[k] /\ n # pConn'[k]
      OBVIOUS
    <3>1. <<k, n>> \in pClosed <=> n \in 1 .. pDialed[k] /\ n # pConn[k]
      BY DEF PeersFit
    <3>2. pDialed[k] \in Nat /\ pConn[k] \in {0, pDialed[k]} /\ pDialed' = pDialed /\ pConn'[k] = 0
      BY <2>1 DEF Peers!Close, Peers!TypeOK, PeersFit
    <3>3. <<k, n>> \in pClosed' <=> n \in 1 .. pDialed[k]
      BY <2>2, <3>1, <3>2
    <3> QED BY <3>2, <3>3
  <2> QED BY <2>1, <2>3 DEF Peers!Close, Peers!TypeOK, PeersFit
<1> QED BY <1>1, <1>2 DEF Peers!Close

(* The numbers of the open connections: what Accounted, Holds and Drained  *)
(* say of them.                                                            *)
LEMMA PeerOpen ==
  ASSUME PeerInv
  PROVE  /\ Peers!Accounted
         /\ \A c \in Callers : PeerCurrent(c) => Peers!Holds(c)
         /\ (\A k \in PeerKeys : pConn[k] = 0) => Peers!Drained
<1> USE NoneApart DEF PeerInv
<1>1. ASSUME NEW k \in PeerKeys PROVE Peers!Open(k) = {n \in 1 .. pDialed[k] : n = pConn[k]}
  BY DEF Peers!Open, PeersFit, Peers!TypeOK
<1>2. Peers!Accounted
  <2> SUFFICES ASSUME NEW k \in PeerKeys PROVE Peers!Open(k) = IF pConn[k] > 0 THEN {pConn[k]} ELSE {}
    BY DEF Peers!Accounted
  <2>1. pDialed[k] \in Nat /\ pConn[k] \in {0, pDialed[k]}
    BY DEF PeersFit, Peers!TypeOK
  <2>2. \A n : n \in 1 .. pDialed[k] /\ n = pConn[k] <=> pConn[k] > 0 /\ n = pConn[k]
    BY <2>1
  <2>3. {n \in 1 .. pDialed[k] : n = pConn[k]} = IF pConn[k] > 0 THEN {pConn[k]} ELSE {}
    BY <2>2
  <2> QED BY <1>1, <2>3
<1>3. ASSUME NEW c \in Callers, PeerCurrent(c) PROVE Peers!Holds(c)
  BY <1>1, <1>3 DEF Peers!Holds, PeerCurrent, PeersFit, Peers!TypeOK
<1>4. (\A k \in PeerKeys : pConn[k] = 0) => Peers!Drained
  <2>1. ASSUME NEW k \in PeerKeys, pConn[k] = 0 PROVE Peers!Open(k) = {}
    <3>1. \A n \in 1 .. pDialed[k] : n # pConn[k]
      BY <2>1 DEF Peers!TypeOK
    <3> QED BY <1>1, <3>1
  <2> QED BY <2>1 DEF Peers!Drained
<1> QED BY <1>2, <1>3, <1>4

-----------------------------------------------------------------------------
(* The orderer pool, where a dial does not see the context. *)

(* The newest connection of a key is the one in the map, or closed like    *)
(* all before it; who has the lock found none.                             *)
OrderersFit ==
  /\ \A k \in OrdererKeys, n \in Nat :
       <<k, n>> \in oClosed <=> n \in 1 .. oDialed[k] /\ n # oConn[k]
  /\ \A k \in OrdererKeys : oConn[k] \in {0, oDialed[k]}
  /\ \A c \in Calls : oAt[c] = "locked" <=> oHolder = c
  /\ \A c \in Calls : oAt[c] \in {"missed", "locked"} => oWant[c] \in OrdererKeys
  /\ \A c \in Calls : oAt[c] = "locked" => oConn[oWant[c]] = 0
  /\ \A c \in Calls : oAt[c] = "has" => oWant[c] \in OrdererKeys /\ oGot[c] \in 1 .. oDialed[oWant[c]]

OrdererInv == Orderers!TypeOK /\ OrderersFit

(* What a step of the caller c may change for the others. *)
OrdererCurrent(d) == oAt[d] = "has" => oGot[d] = oConn[oWant[d]]
OrdererMoves(c) ==
  /\ \A d \in Calls \ {c} : oAt'[d] = oAt[d]
  /\ OrdererCurrent(c)'
  /\ \A d \in Calls : OrdererCurrent(d) => OrdererCurrent(d)'

LEMMA OrdererInit ==
  ASSUME NEW local \in SUBSET OrdererKeys, Orderers!Init(local)
  PROVE  OrdererInv /\ \A c \in Calls : oAt[c] = "out" /\ OrdererCurrent(c)
<1> USE NoneApart
<1>1. Orderers!TypeOK
  BY DEF Orderers!TypeOK, Orderers!Init, Orderers!Outside
<1>2. OrderersFit
  BY DEF OrderersFit, Orderers!Init
<1>3. \A c \in Calls : oAt[c] = "out" /\ OrdererCurrent(c)
  BY DEF OrdererCurrent, Orderers!Init
<1> QED BY <1>1, <1>2, <1>3 DEF OrdererInv

LEMMA OrdererLook ==
  ASSUME OrdererInv, NEW c \in Calls, NEW k \in OrdererKeys, Orderers!Look(c, k)
  PROVE  OrdererInv' /\ OrdererMoves(c) /\ oConn' = oConn
<1> USE NoneApart DEF OrdererInv
<1>1. Orderers!TypeOK'
  BY DEF Orderers!TypeOK, Orderers!Look, Orderers!Given, Orderers!Goes, Orderers!Outside
<1>2. OrderersFit'
  BY DEF Orderers!TypeOK, OrderersFit, Orderers!Look, Orderers!Given, Orderers!Goes, Orderers!Outside
<1>3. OrdererMoves(c) /\ oConn' = oConn
  BY DEF Orderers!TypeOK, OrdererMoves, OrdererCurrent, Orderers!Look, Orderers!Given, Orderers!Goes, Orderers!Outside
<1> QED BY <1>1, <1>2, <1>3

LEMMA OrdererLock ==
  ASSUME OrdererInv, NEW c \in Calls, Orderers!Lock(c)
  PROVE  OrdererInv' /\ OrdererMoves(c) /\ oConn' = oConn
<1> USE NoneApart DEF OrdererInv
<1>0. oWant[c] \in OrdererKeys
  BY DEF OrderersFit, Orderers!Lock
<1>1. Orderers!TypeOK'
  BY <1>0 DEF Orderers!TypeOK, Orderers!Lock, Orderers!Given, Orderers!Goes, Orderers!Outside
<1>2. OrderersFit'
  BY <1>0 DEF Orderers!TypeOK, OrderersFit, Orderers!Lock, Orderers!Given, Orderers!Goes, Orderers!Outside
<1>3. OrdererMoves(c) /\ oConn' = oConn
  BY <1>0 DEF Orderers!TypeOK, OrdererMoves, OrdererCurrent, Orderers!Lock, Orderers!Given, Orderers!Goes, Orderers!Outside
<1> QED BY <1>1, <1>2, <1>3

(* A caller that dials under the lock is the only one to dial its key: the *)
(* key has no connection, and nobody else's connection changes.            *)
LEMMA OrdererDial ==
  ASSUME OrdererInv, NEW c \in Calls, NEW over \in BOOLEAN, Orderers!Dial(c, over)
  PROVE  OrdererInv' /\ OrdererMoves(c)
<1> USE NoneApart DEF OrdererInv
<1>0. oWant[c] \in OrdererKeys /\ oConn[oWant[c]] = 0 /\ oHolder = c
  BY DEF OrderersFit, Orderers!Dial
<1>a. CASE Orderers!MayFail(c, over) /\ Orderers!Empty(c) /\ UNCHANGED <<oConn, oDialed>>
  <2>1. /\ Orderers!Goes(c, "out", 0) /\ oHolder' = None /\ UNCHANGED <<oConn, oDialed, oClosed>>
        /\ oWant' = [oWant EXCEPT ![c] = None]
    BY <1>a DEF Orderers!Dial, Orderers!Empty
  <2>2. Orderers!TypeOK'
    BY <2>1 DEF Orderers!TypeOK, Orderers!Goes, Orderers!Outside
  <2>3. OrderersFit'
    BY <1>0, <2>1 DEF Orderers!TypeOK, OrderersFit, Orderers!Goes, Orderers!Outside
  <2>4. OrdererMoves(c)
    BY <2>1 DEF Orderers!TypeOK, OrdererMoves, OrdererCurrent, Orderers!Goes, Orderers!Outside
  <2> QED BY <2>1, <2>2, <2>3, <2>4
<1>b. CASE Orderers!MayDial(over) /\ Orderers!Connects(c)
  <2> DEFINE k == oWant[c]
             n == oDialed[k] + 1
  <2>1. /\ oDialed' = [oDialed EXCEPT ![k] = n] /\ oConn' = [oConn EXCEPT ![k] = n]
        /\ Orderers!Goes(c, "has", n) /\ oHolder' = None /\ UNCHANGED <<oClosed, oWant>>
    BY <1>b DEF Orderers!Dial, Orderers!Connects, Orderers!Given
  <2>2. k \in OrdererKeys /\ n \in Nat /\ n > 0 /\ oConn[k] = 0
    BY <1>0 DEF Orderers!TypeOK
  <2> HIDE DEF k
  <2>3. Orderers!TypeOK'
    BY <2>1, <2>2 DEF Orderers!TypeOK, Orderers!Goes, Orderers!Outside
  <2>4. \A j \in OrdererKeys : /\ oConn'[j] = IF j = k THEN n ELSE oConn[j]
                               /\ oDialed'[j] = IF j = k THEN n ELSE oDialed[j]
    BY <2>1, <2>2 DEF Orderers!TypeOK
  <2>5. \A d \in Calls : /\ oAt'[d] = IF d = c THEN "has" ELSE oAt[d]
                         /\ oGot'[d] = IF d = c THEN n ELSE oGot[d]
    BY <2>1 DEF Orderers!TypeOK, Orderers!Goes
  <2>6. OrderersFit'
    <3>1. \A j \in OrdererKeys, m \in Nat :
             <<j, m>> \in oClosed' <=> m \in 1 .. oDialed'[j] /\ m # oConn'[j]
      <4> SUFFICES ASSUME NEW j \in OrdererKeys, NEW m \in Nat
                   PROVE  <<j, m>> \in oClosed' <=> m \in 1 .. oDialed'[j] /\ m # oConn'[j]
        OBVIOUS
      <4>1. <<j, m>> \in oClosed' <=> m \in 1 .. oDialed[j] /\ m # oConn[j]
        BY <2>1 DEF OrderersFit
      <4>2. oDialed[j] \in Nat /\ oConn[j] \in Nat
        BY DEF Orderers!TypeOK
      <4>3. CASE j = k
        <5>1. oDialed'[j] = oDialed[j] + 1 /\ oConn'[j] = oDialed[j] + 1 /\ oConn[j] = 0
          BY <2>2, <2>4, <4>3
        <5> QED BY <4>1, <4>2, <5>1
      <4>4. CASE j # k
        BY <2>4, <4>1, <4>4
      <4> QED BY <4>3, <4>4
    <3>2. \A j \in OrdererKeys : oConn'[j] \in {0, oDialed'[j]}
      BY <2>4 DEF OrderersFit
    <3>3. \A d \in Calls : oAt'[d] = "locked" <=> oHolder' = d
      BY <1>0, <2>1, <2>5 DEF OrderersFit
    <3>4. \A d \in Calls : oAt'[d] \in {"missed", "locked"} => oWant'[d] \in OrdererKeys
      BY <2>1, <2>5 DEF OrderersFit
    <3>5. \A d \in Calls : oAt'[d] = "locked" => oConn'[oWant'[d]] = 0
      BY <2>1, <3>3
    <3>6. \A d \in Calls : oAt'[d] = "has" => oWant'[d] \in OrdererKeys /\ oGot'[d] \in 1 .. oDialed'[oWant'[d]]
      <4> SUFFICES ASSUME NEW d \in Calls, oAt'[d] = "has"
                   PROVE  oWant'[d] \in OrdererKeys /\ oGot'[d] \in 1 .. oDialed'[oWant'[d]]
        OBVIOUS
      <4>1. CASE d = c
        BY <4>1, <2>1, <2>2, <2>4, <2>5 DEF k
      <4>2. CASE d # c
        BY <4>2, <2>1, <2>2, <2>4, <2>5 DEF Orderers!TypeOK, OrderersFit
      <4> QED BY <4>1, <4>2
    <3> QED BY <3>1, <3>2, <3>3, <3>4, <3>5, <3>6 DEF OrderersFit
  <2>7. OrdererMoves(c)
    <3>1. OrdererCurrent(c)'
      BY <2>1, <2>2, <2>4, <2>5 DEF OrdererCurrent, k
    <3>2. ASSUME NEW d \in Calls \ {c}, OrdererCurrent(d) PROVE OrdererCurrent(d)'
      BY <3>2, <2>1, <2>2, <2>4, <2>5 DEF OrdererCurrent, OrderersFit, Orderers!TypeOK
    <3> QED BY <2>5, <3>1, <3>2 DEF OrdererMoves
  <2> QED BY <1>b, <2>3, <2>6, <2>7 
<1> QED BY <1>a, <1>b DEF Orderers!Dial

LEMMA OrdererLeave ==
  ASSUME OrdererInv, NEW c \in Calls, Orderers!Leave(c)
  PROVE  OrdererInv' /\ OrdererMoves(c) /\ oConn' = oConn
<1> USE NoneApart DEF OrdererInv
<1>1. Orderers!TypeOK'
  BY DEF Orderers!TypeOK, Orderers!Leave, Orderers!Empty, Orderers!Goes, Orderers!Outside
<1>2. OrderersFit'
  BY DEF Orderers!TypeOK, OrderersFit, Orderers!Leave, Orderers!Empty, Orderers!Goes, Orderers!Outside
<1>3. OrdererMoves(c) /\ oConn' = oConn
  BY DEF Orderers!TypeOK, OrdererMoves, OrdererCurrent, Orderers!Leave, Orderers!Empty, Orderers!Goes, Orderers!Outside
<1> QED BY <1>1, <1>2, <1>3

LEMMA OrdererClose ==
  ASSUME OrdererInv, Orderers!Close
  PROVE  OrdererInv' /\ oAt' = oAt /\ \A k \in OrdererKeys : oConn'[k] = 0
<1> USE NoneApart DEF OrdererInv
<1>1. Orderers!TypeOK'
  BY DEF Orderers!TypeOK, Orderers!Close
<1>2. OrderersFit'
  <2>1. \A k \in OrdererKeys : oConn'[k] = 0
    BY DEF Orderers!Close
  <2>2. \A k \in OrdererKeys, n \in Nat :
          <<k, n>> \in oClosed' <=> <<k, n>> \in oClosed \/ (n = oConn[k] /\ oConn[k] > 0)
    BY DEF Orderers!Close, Orderers!TypeOK
  <2>3. \A k \in OrdererKeys, n \in Nat :
          <<k, n>> \in oClosed' <=> n \in 1 .. oDialed'[k] /\ n # oConn'[k]
    <3> SUFFICES ASSUME NEW k \in OrdererKeys, NEW n \in Nat
                 PROVE  <<k, n>> \in oClosed' <=> n \in 1 .. oDialed'[k] /\ n # oConn'[k]
      OBVIOUS
    <3>1. <<k, n>> \in oClosed <=> n \in 1 .. oDialed[k] /\ n # oConn[k]
      BY DEF OrderersFit
    <3>2. oDialed[k] \in Nat /\ oConn[k] \in {0, oDialed[k]} /\ oDialed' = oDialed /\ oConn'[k] = 0
      BY <2>1 DEF Orderers!Close, Orderers!TypeOK, OrderersFit
    <3>3. <<k, n>> \in oClosed' <=> n \in 1 .. oDialed[k]
      BY <2>2, <3>1, <3>2
    <3> QED BY <3>2, <3>3
  <2> QED BY <2>1, <2>3 DEF Orderers!Close, Orderers!TypeOK, OrderersFit
<1> QED BY <1>1, <1>2 DEF Orderers!Close

(* The numbers of the open connections: what Accounted, Holds and Drained  *)
(* say of them.                                                            *)
LEMMA OrdererOpen ==
  ASSUME OrdererInv
  PROVE  /\ Orderers!Accounted
         /\ \A c \in Calls : OrdererCurrent(c) => Orderers!Holds(c)
         /\ (\A k \in OrdererKeys : oConn[k] = 0) => Orderers!Drained
<1> USE NoneApart DEF OrdererInv
<1>1. ASSUME NEW k \in OrdererKeys PROVE Orderers!Open(k) = {n \in 1 .. oDialed[k] : n = oConn[k]}
  BY DEF Orderers!Open, OrderersFit, Orderers!TypeOK
<1>2. Orderers!Accounted
  <2> SUFFICES ASSUME NEW k \in OrdererKeys PROVE Orderers!Open(k) = IF oConn[k] > 0 THEN {oConn[k]} ELSE {}
    BY DEF Orderers!Accounted
  <2>1. oDialed[k] \in Nat /\ oConn[k] \in {0, oDialed[k]}
    BY DEF OrderersFit, Orderers!TypeOK
  <2>2. \A n : n \in 1 .. oDialed[k] /\ n = oConn[k] <=> oConn[k] > 0 /\ n = oConn[k]
    BY <2>1
  <2>3. {n \in 1 .. oDialed[k] : n = oConn[k]} = IF oConn[k] > 0 THEN {oConn[k]} ELSE {}
    BY <2>2
  <2> QED BY <1>1, <2>3
<1>3. ASSUME NEW c \in Calls, OrdererCurrent(c) PROVE Orderers!Holds(c)
  BY <1>1, <1>3 DEF Orderers!Holds, OrdererCurrent, OrderersFit, Orderers!TypeOK
<1>4. (\A k \in OrdererKeys : oConn[k] = 0) => Orderers!Drained
  <2>1. ASSUME NEW k \in OrdererKeys, oConn[k] = 0 PROVE Orderers!Open(k) = {}
    <3>1. \A n \in 1 .. oDialed[k] : n # oConn[k]
      BY <2>1 DEF Orderers!TypeOK
    <3> QED BY <1>1, <3>1
  <2> QED BY <2>1 DEF Orderers!Drained
<1> QED BY <1>2, <1>3, <1>4

-----------------------------------------------------------------------------
(* All operations of a caller together. *)
LEMMA PeerSteps ==
  ASSUME PeerInv, NEW c \in Callers, NEW over \in BOOLEAN, NEW keys \in SUBSET PeerKeys,
         (Peers!Steps(c, keys, over) \/ Peers!Pick(c)) \/ Peers!Leave(c)
  PROVE  PeerInv' /\ PeerMoves(c) /\ (over => pConn' = pConn)
BY PeerLook, PeerLock, PeerDial, PeerPick, PeerLeave DEF Peers!Steps

LEMMA OrdererSteps ==
  ASSUME OrdererInv, NEW c \in Calls, NEW over \in BOOLEAN,
         Orderers!Steps(c, OrdererKeys, over) \/ Orderers!Leave(c)
  PROVE  OrdererInv' /\ OrdererMoves(c)
BY OrdererLook, OrdererLock, OrdererDial, OrdererLeave DEF Orderers!Steps

-----------------------------------------------------------------------------
(* The invariant. *)

(* Once main has seen the last call return the gRPC server lets none in.   *)
Stopping ==
  /\ grpcServer = "zero" <=> grpcRun = "start"
  /\ main = "drain" => grpcServer = "stopping"
  /\ main \in {"wait", "closePeers", "closeOrderers", "done", "failed"} =>
       grpcServer = "stopped" /\ Running = {}

(* A call that has returned has left its context over to its subscriber.   *)
Handed ==
  /\ \A c \in Calls : call[c] = "ended" => Over(c)
  /\ \A s \in Subscribers : subscriber[s] # "none" => call[CallOf[s]] # "none"

PoolsFit ==
  /\ PeerInv /\ OrdererInv
  /\ \A c \in Calls : PeerCurrent(c) /\ OrdererCurrent(c)
  /\ \A c \in Calls : call[c] # "running" => pAt[c] = "out" /\ oAt[c] = "out"

Emptied ==
  /\ main \in {"closeOrderers", "done"} => \A k \in PeerKeys : pConn[k] = 0
  /\ main = "done" => \A k \in OrdererKeys : oConn[k] = 0

Inv == TypeOK /\ Stopping /\ Handed /\ PoolsFit /\ Emptied

LEMMA PeersStay ==
  ASSUME UNCHANGED pPool
  PROVE  /\ PeerInv => PeerInv'
         /\ \A c \in Calls : PeerCurrent(c) => PeerCurrent(c)'
BY DEF pPool, PeerInv, Peers!TypeOK, PeersFit, PeerCurrent

LEMMA OrderersStay ==
  ASSUME UNCHANGED oPool
  PROVE  /\ OrdererInv => OrdererInv'
         /\ \A c \in Calls : OrdererCurrent(c) => OrdererCurrent(c)'
BY DEF oPool, OrdererInv, Orderers!TypeOK, OrderersFit, OrdererCurrent

LEMMA PoolTypes ==
  ASSUME PeerInv, OrdererInv
  PROVE  /\ Peers!TypeOK /\ Orderers!TypeOK
         /\ \A c \in Callers : pAt[c] = "locked" <=> pHolder = c
         /\ \A c \in Calls : oAt[c] = "locked" <=> oHolder = c
BY DEF PeerInv, PeersFit, OrdererInv, OrderersFit

LEMMA PoolTypesNext ==
  ASSUME PeerInv', OrdererInv'
  PROVE  /\ Peers!TypeOK' /\ Orderers!TypeOK'
         /\ \A c \in Callers : pAt'[c] = "locked" <=> pHolder' = c
         /\ \A c \in Calls : oAt'[c] = "locked" <=> oHolder' = c
BY DEF PeerInv, PeersFit, OrdererInv, OrderersFit

-----------------------------------------------------------------------------
LEMMA InitInv == Init => Inv
<1> SUFFICES ASSUME Init PROVE Inv
  OBVIOUS
<1>1. Peers!Init(LocalKeys) /\ Orderers!Init({})
  BY DEF Init
<1>3. PeerInv /\ \A c \in Callers : pAt[c] = "out" /\ PeerCurrent(c)
  BY <1>1, NoneApart, PeerInit
<1>4. OrdererInv /\ \A c \in Calls : oAt[c] = "out" /\ OrdererCurrent(c)
  BY <1>1, OrdererInit
<1>5. PoolsFit
  BY <1>3, <1>4 DEF PoolsFit, Callers
<1>6. TypeOK
  BY <1>3, <1>4, PoolTypes DEF TypeOK, Init
<1>7. Stopping /\ Handed /\ Emptied
  BY DEF Init, Stopping, Handed, Emptied
<1> QED BY <1>5, <1>6, <1>7 DEF Inv

(* The steps of main and of the servers that leave calls and pools alone.  *)
LEMMA ServerStep ==
  ASSUME Inv, (GrpcStep \/ HttpStep \/ MainStep) \/ Interrupt, UNCHANGED rest
  PROVE  Inv'
<1>1. PoolsFit'
  BY PeersStay, OrderersStay DEF Inv, PoolsFit, rest, pPool, oPool
<1>2. PeerInv' /\ OrdererInv'
  BY <1>1 DEF PoolsFit
<1>3. Handed'
  BY DEF Inv, Handed, rest, Over
<1>4. TypeOK' /\ Stopping' /\ Emptied'
  <2>0. /\ Peers!TypeOK' /\ Orderers!TypeOK'
        /\ \A c \in Callers : pAt'[c] = "locked" <=> pHolder' = c
        /\ \A c \in Calls : oAt'[c] = "locked" <=> oHolder' = c
        /\ UNCHANGED <<call, ctx, subscriber>> /\ pConn' = pConn /\ oConn' = oConn
    BY <1>2, PoolTypesNext DEF rest, pPool, oPool
  <2>1. CASE GrpcStep
    <3>1. /\ UNCHANGED <<main, httpServer, httpRun, crashed>>
          /\ grpcServer' \in {"new", "serving", grpcServer}
          /\ grpcRun' \in {"made", "serve", "end"}
          /\ cancelled' \in BOOLEAN /\ failed' \in BOOLEAN
      BY <2>1 DEF GrpcStep, GrpcMake, GrpcServe, GrpcEnd, Inv, TypeOK, Stopping
    <3>2. TypeOK'
      BY <2>0, <3>1 DEF Inv, TypeOK
    <3>3. Stopping' /\ Emptied'
      BY <2>0, <2>1, <3>1 DEF GrpcStep, GrpcMake, GrpcServe, GrpcEnd, Inv, Stopping, Emptied, Running
    <3> QED BY <3>2, <3>3
  <2>2. CASE HttpStep
    <3>1. /\ UNCHANGED <<main, grpcServer, grpcRun, crashed>>
          /\ httpServer' \in {"new", "serving", httpServer}
          /\ httpRun' \in {"dialed", "made", "serve", "end"}
      BY <2>2 DEF HttpStep, HttpDial, HttpMake, HttpServe, HttpEnd
    <3>2. cancelled' \in BOOLEAN /\ failed' \in BOOLEAN
      BY <2>2, Zenon DEF HttpStep, HttpDial, HttpMake, HttpServe, HttpEnd, Inv, TypeOK
    <3>3. TypeOK'
      BY <2>0, <3>1, <3>2 DEF Inv, TypeOK
    <3>4. Stopping' /\ Emptied'
      BY <2>0, <3>1 DEF Inv, Stopping, Emptied, Running
    <3> QED BY <3>3, <3>4
  <2>3. CASE Interrupt \/ Wake
    <3>1. main' = "shutHttp" /\ cancelled' = TRUE /\ UNCHANGED <<failed, servers, crashed>>
      BY <2>3 DEF Interrupt, Wake, ToShutdown, MainTo
    <3>2. TypeOK'
      BY <2>0, <3>1 DEF Inv, TypeOK, servers
    <3>3. Stopping' /\ Emptied'
      BY <2>0, <3>1 DEF Inv, Stopping, Emptied, Running, servers
    <3> QED BY <3>2, <3>3
  <2> USE <1>2, PoolTypesNext DEF Inv, TypeOK, Stopping, Emptied, Running, rest, servers, pPool, oPool
  <2>4. CASE ShutHttp
    BY <2>4 DEF ShutHttp, MainTo
  <2>5. CASE StopGrpc
    BY <2>5 DEF StopGrpc, MainTo
  <2>6. CASE Drain
    BY <2>6 DEF Drain, MainTo
  <2>7. CASE Wait
    BY <2>7 DEF Wait, MainTo
  <2>8. CASE ClosePeers
    BY <2>8 DEF ClosePeers, MainTo, Peers!Close
  <2>9. CASE CloseOrderers
    BY <2>9 DEF CloseOrderers, MainTo, Orderers!Close
  <2> QED BY <2>1, <2>2, <2>3, <2>4, <2>5, <2>6, <2>7, <2>8, <2>9 DEF MainStep
<1> QED BY <1>1, <1>3, <1>4 DEF Inv

LEMMA CloseStep ==
  ASSUME Inv, ClosePeers \/ CloseOrderers
  PROVE  Inv'
<1>0. /\ UNCHANGED <<cancelled, failed, servers, call, ctx, subscriber, crashed>>
      /\ Running = {} /\ grpcServer = "stopped"
  BY DEF Inv, Stopping, ClosePeers, CloseOrderers
<1>1. \A c \in Calls : call[c] # "running" /\ pAt[c] = "out" /\ oAt[c] = "out"
  BY <1>0 DEF Inv, PoolsFit, Running
<1>2. Handed'
  BY <1>0 DEF Inv, Handed, Over
<1>3. CASE ClosePeers
  <2>1. /\ Peers!Close /\ main = "closePeers" /\ UNCHANGED oPool
        /\ main' \in {"closeOrderers", "failed"}
    BY <1>3 DEF ClosePeers, MainTo
  <2>2. PeerInv' /\ pAt' = pAt /\ \A k \in PeerKeys : pConn'[k] = 0
    BY <2>1, PeerClose DEF Inv, PoolsFit
  <2>3. PoolsFit'
    BY <1>0, <1>1, <2>1, <2>2, OrderersStay DEF Inv, PoolsFit, oPool, PeerCurrent
  <2>4. TypeOK'
    BY <1>0, <2>1, <2>3, PoolTypesNext DEF Inv, TypeOK, PoolsFit, servers
  <2>5. Stopping' /\ Emptied'
    BY <1>0, <2>1, <2>2 DEF Inv, Stopping, Emptied, servers, Running
  <2> QED BY <1>2, <2>3, <2>4, <2>5 DEF Inv
<1>4. CASE CloseOrderers
  <2>1. /\ Orderers!Close /\ main = "closeOrderers" /\ UNCHANGED pPool
        /\ main' \in {"done", "failed"}
    BY <1>4 DEF CloseOrderers, MainTo
  <2>2. OrdererInv' /\ oAt' = oAt /\ \A k \in OrdererKeys : oConn'[k] = 0
    BY <2>1, OrdererClose DEF Inv, PoolsFit
  <2>3. PoolsFit'
    BY <1>0, <1>1, <2>1, <2>2, PeersStay DEF Inv, PoolsFit, pPool, OrdererCurrent
  <2>4. TypeOK'
    BY <1>0, <2>1, <2>3, PoolTypesNext DEF Inv, TypeOK, PoolsFit, servers
  <2>5. Stopping' /\ Emptied'
    BY <1>0, <2>1, <2>2 DEF Inv, Stopping, Emptied, servers, Running, pPool
  <2> QED BY <1>2, <2>3, <2>4, <2>5 DEF Inv
<1> QED BY <1>3, <1>4

(* What a step of a call or a subscriber has to show: it changes nothing   *)
(* of the process, and main is not past the last call when a call runs.    *)
LEMMA CallBase ==
  ASSUME Inv, UNCHANGED process, PoolsFit', Handed',
         call' \in [Calls -> {"none", "running", "ended"}],
         ctx' \in [Calls -> {"live", "lost", "returned"}],
         subscriber' \in [Subscribers -> {"none", "running", "failed", "ended"}],
         crashed' \in {"no", "zeroServer", "noClient", "roots"},
         \A c \in Calls : call'[c] = "running" => call[c] = "running" \/ grpcServer = "serving",
         oConn' = oConn \/ Running # {},
         pConn' = pConn \/ Running # {}
  PROVE  Inv'
<1>1. TypeOK'
  BY PoolTypesNext DEF Inv, TypeOK, PoolsFit, process, servers
<1>2. Stopping'
  BY DEF Inv, Stopping, process, servers, Running
<1>3. Emptied'
  BY DEF Inv, Emptied, Stopping, process
<1> QED BY <1>1, <1>2, <1>3 DEF Inv

(* The crash of two that add certificates leaves everything as it was. *)
LEMMA RootsInv ==
  ASSUME Inv, NEW c, RootsRace(c)
  PROVE  Inv'
<1> USE DEF Inv
<1>1. PoolsFit'
  BY PeersStay, OrderersStay DEF RootsRace, PoolsFit, pPool, oPool
<1>2. Handed'
  BY DEF RootsRace, Handed, Over
<1> QED BY <1>1, <1>2, CallBase DEF RootsRace, TypeOK, pPool, oPool

LEMMA CallInv ==
  ASSUME Inv, NEW c \in Calls, CallStep(c)
  PROVE  Inv'
<1> USE DEF Inv
<1>0. c \in Callers /\ Over(c) \in BOOLEAN
  BY DEF Callers, Over
<1>1. CASE Arrive(c)
  <2>1. PoolsFit'
    BY <1>1, PeersStay, OrderersStay DEF Arrive, PoolsFit, TypeOK, pPool, oPool
  <2>2. Handed'
    BY <1>1 DEF Arrive, Handed, TypeOK, Over
  <2> QED BY <1>1, <2>1, <2>2, CallBase DEF Arrive, TypeOK, pPool, oPool
<1>2. CASE LoseContext(c)
  <2>1. PoolsFit'
    BY <1>2, PeersStay, OrderersStay DEF LoseContext, PoolsFit, pPool, oPool
  <2>2. Handed'
    BY <1>2 DEF LoseContext, Handed, TypeOK, Over
  <2> QED BY <1>2, <2>1, <2>2, CallBase DEF LoseContext, TypeOK, pPool, oPool
<1>3. CASE RootsRace(c)
  BY <1>3, RootsInv
<1>4. CASE CallUsesPeers(c)
  <2>1. PeerInv' /\ PeerMoves(c)
    BY <1>0, <1>4, PeerSteps DEF CallUsesPeers, PoolsFit
  <2>2. PoolsFit'
    BY <1>4, <2>1, OrderersStay DEF CallUsesPeers, PoolsFit, PeerMoves, oPool, Callers
  <2>3. Handed'
    BY <1>4 DEF CallUsesPeers, Handed, Over
  <2> QED BY <1>4, <2>2, <2>3, CallBase DEF CallUsesPeers, TypeOK, oPool, Running
<1>5. CASE CallUsesOrderers(c)
  <2>1. OrdererInv' /\ OrdererMoves(c)
    BY <1>0, <1>5, OrdererSteps DEF CallUsesOrderers, PoolsFit
  <2>2. PoolsFit'
    BY <1>5, <2>1, PeersStay DEF CallUsesOrderers, PoolsFit, OrdererMoves, pPool
  <2>3. Handed'
    BY <1>5 DEF CallUsesOrderers, Handed, Over
  <2> QED BY <1>5, <2>2, <2>3, CallBase DEF CallUsesOrderers, TypeOK, pPool, Running
<1>6. CASE Return(c)
  <2>1. /\ PeerInv' /\ PeerMoves(c)
        /\ OrdererInv' /\ OrdererMoves(c)
    BY <1>0, <1>6, PeerSteps, OrdererSteps DEF Return, PoolsFit
  <2>2. /\ call[c] = "running" /\ call' = [call EXCEPT ![c] = "ended"]
        /\ ctx' = [ctx EXCEPT ![c] = IF Over(c) THEN @ ELSE "returned"]
        /\ UNCHANGED <<process, subscriber, crashed>>
    BY <1>6 DEF Return
  <2>3. pAt' = [pAt EXCEPT ![c] = "out"] /\ oAt' = [oAt EXCEPT ![c] = "out"]
    BY <1>6 DEF Return, Peers!Leave, Peers!Goes, Peers!Empty, Orderers!Leave, Orderers!Goes,
         Orderers!Empty
  <2>4. PoolsFit'
    BY <1>0, <2>1, <2>2, <2>3 DEF PoolsFit, TypeOK, Peers!TypeOK, Orderers!TypeOK,
         PeerMoves, OrdererMoves, Callers
  <2>5. Handed'
    BY <2>2 DEF Handed, TypeOK, Over
  <2> QED BY <2>2, <2>4, <2>5, CallBase DEF TypeOK, Running, Over
<1> QED BY <1>1, <1>2, <1>3, <1>4, <1>5, <1>6 DEF CallStep

(* A subscriber may outlive its call, but then its dial is refused.        *)
LEMMA SubscriberInv ==
  ASSUME Inv, NEW s \in Subscribers, SubscriberStep(s)
  PROVE  Inv'
<1> USE DEF Inv
<1>0. s \in Callers /\ s \notin Calls /\ CallOf[s] \in Calls /\ Over(CallOf[s]) \in BOOLEAN
  BY ServiceAssumption DEF Callers, Over
<1>1. CASE Subscribe(s)
  <2>1. PoolsFit'
    BY <1>1, PeersStay, OrderersStay DEF Subscribe, PoolsFit, pPool, oPool
  <2>2. Handed'
    BY <1>0, <1>1 DEF Subscribe, Handed, TypeOK, Over
  <2> QED BY <1>1, <2>1, <2>2, CallBase DEF Subscribe, TypeOK, pPool, oPool
<1>2. CASE SubscriberUsesPeers(s)
  <2>1. PeerInv' /\ PeerMoves(s) /\ (Over(CallOf[s]) => pConn' = pConn)
    BY <1>0, <1>2, NoneApart, PeerSteps DEF SubscriberUsesPeers, PoolsFit
  <2>2. PoolsFit'
    BY <1>0, <1>2, <2>1, OrderersStay DEF SubscriberUsesPeers, PoolsFit, PeerMoves, oPool, Callers
  <2>3. Handed'
    BY <1>2 DEF SubscriberUsesPeers, Handed, Over
  <2>4. pConn' = pConn \/ Running # {}
    BY <1>0, <1>2, <2>1 DEF SubscriberUsesPeers, Handed, Running, TypeOK
  <2> QED BY <1>2, <2>2, <2>3, <2>4, CallBase DEF SubscriberUsesPeers, TypeOK, oPool
<1>3. CASE SubscriberEnds(s)
  <2>1. PeerInv' /\ PeerMoves(s)
    BY <1>0, <1>3, PeerSteps DEF SubscriberEnds, PoolsFit
  <2>2. PoolsFit'
    BY <1>0, <1>3, <2>1, OrderersStay DEF SubscriberEnds, PoolsFit, PeerMoves, oPool, Callers
  <2>3. Handed'
    BY <1>3 DEF SubscriberEnds, Handed, Over, TypeOK
  <2>4. pConn' = pConn
    BY <1>3 DEF SubscriberEnds, Peers!Leave
  <2> QED BY <1>3, <2>2, <2>3, <2>4, CallBase DEF SubscriberEnds, TypeOK, oPool
<1>4. CASE RootsRace(s)
  BY <1>4, RootsInv
<1> QED BY <1>1, <1>2, <1>3, <1>4 DEF SubscriberStep

LEMMA NextInv == Inv /\ [Next]_vars => Inv'
<1> SUFFICES ASSUME Inv, [Next]_vars PROVE Inv'
  OBVIOUS
<1>1. CASE UNCHANGED vars
  <2>1. UNCHANGED rest /\ UNCHANGED process /\ UNCHANGED crashed
    BY <1>1 DEF vars, rest, process
  <2>2. PoolsFit'
    BY <2>1, PeersStay, OrderersStay DEF Inv, PoolsFit, rest, pPool, oPool
  <2>3. Handed'
    BY <2>1 DEF Inv, Handed, rest, Over
  <2> QED BY <2>1, <2>2, <2>3, CallBase DEF Inv, TypeOK, rest, pPool, oPool
<1>2. CASE ClosePeers \/ CloseOrderers
  BY <1>2, CloseStep
<1>3. CASE (GrpcStep \/ HttpStep) \/ (Interrupt \/ (MainStep /\ ~(ClosePeers \/ CloseOrderers)))
  <2>1. UNCHANGED rest
    BY <1>3 DEF GrpcStep, GrpcMake, GrpcServe, GrpcEnd, HttpStep, HttpDial, HttpMake, HttpServe, HttpEnd,
         MainStep, Interrupt, Wake, ToShutdown, ShutHttp, StopGrpc, Drain, Wait, rest
  <2> QED BY <1>3, <2>1, ServerStep
<1>4. CASE (\E c \in Calls : CallStep(c)) \/ (\E s \in Subscribers : SubscriberStep(s))
  BY <1>4, CallInv, SubscriberInv
<1> QED BY <1>1, <1>2, <1>3, <1>4 DEF Next

(* Every variable of the process and of its pools keeps its type, and a    *)
(* pool's lock is held exactly by the caller that dials (main.go,          *)
(* pool_grpc.go).                                                          *)
THEOREM TypeCorrect == Spec => []TypeOK
<1>1. Inv => TypeOK
  BY DEF Inv
<1> QED BY InitInv, NextInv, <1>1, PTL DEF Spec

(* No two connections of one peer or orderer are ever open, none is open   *)
(* that its pool does not know, no running call is given one that is       *)
(* closed, and none is left open when main returns in order (pool_grpc.go  *)
(* of both packages, listen of main.go).                                   *)
THEOREM AllAccounted == Spec => []ConnectionsAccounted
<1>1. Inv => ConnectionsAccounted
  <2> SUFFICES ASSUME Inv PROVE ConnectionsAccounted
    OBVIOUS
  <2>1. /\ Peers!Accounted
        /\ \A c \in Callers : PeerCurrent(c) => Peers!Holds(c)
        /\ (\A k \in PeerKeys : pConn[k] = 0) => Peers!Drained
    BY PeerOpen DEF Inv, PoolsFit
  <2>2. /\ Orderers!Accounted
        /\ \A c \in Calls : OrdererCurrent(c) => Orderers!Holds(c)
        /\ (\A k \in OrdererKeys : oConn[k] = 0) => Orderers!Drained
    BY OrdererOpen DEF Inv, PoolsFit
  <2>3. \A c \in Calls : Peers!Holds(c) /\ Orderers!Holds(c)
    BY <2>1, <2>2 DEF Inv, PoolsFit, Callers
  <2>4. main = "done" => Peers!Drained /\ Orderers!Drained
    BY <2>1, <2>2 DEF Inv, Emptied
  <2> QED BY <2>1, <2>2, <2>3, <2>4 DEF ConnectionsAccounted
<1> QED BY InitInv, NextInv, <1>1, PTL DEF Spec
=============================================================================
