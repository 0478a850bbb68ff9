---------------------------- MODULE GatherProofs ----------------------------
(***************************************************************************)
(* An answer without error is complete, for any set of peers.              *)
(***************************************************************************)
EXTENDS Gather, TLAPS

Taken(p) == \E i \in 1 .. Len(taken) : taken[i] = p

(* A worker that has not called has no outcome, and one that failed in a   *)
(* group sends nothing; only ChannelJoined leaves heights out.             *)
WorkersFit ==
  \A p \in Peers :
    /\ wpc[p] \in {"idle", "call"} <=> outcome[p] = "none"
    /\ kind \in Group /\ outcome[p] = "err" => wpc[p] = "done"
    /\ outcome[p] = "blank" => kind = "joined"

(* The collector holds a result exactly between receiving and appending,   *)
(* it is off while workers are left to start, and an inline collector is   *)
(* the handler.                                                            *)
CollectorFits ==
  /\ held # None <=> collector = "append"
  /\ collector = "off" <=> hpc = "start" \/ (\E p \in Peers : wpc[p] = "idle")
  /\ collector = "flush" => closed
  /\ hpc = "start" => ~closed /\ closer = "off"
  /\ kind \in Inline => (collector \in {"recv", "append"} <=> hpc = "collect")

(* A result is taken once, and only from a worker that is done.            *)
TakenOnce ==
  /\ \A p \in Peers : Taken(p) \/ held = p =>
       /\ wpc[p] = "done"
       /\ kind \in Group => NoError(p)
  /\ \A p \in Peers : Taken(p) /\ kind = "installed" => NoError(p)
  /\ \A p \in Peers : ~(Taken(p) /\ held = p)
  /\ \A i, j \in 1 .. Len(taken) : taken[i] = taken[j] => i = j

(* Nothing gets lost: a worker that is done has handed its result over,    *)
(* unless it failed in a group or the handler has given up.                *)
NothingLost ==
  \A p \in Peers : wpc[p] = "done" =>
    \/ Taken(p) \/ held = p \/ hpc = "error"
    \/ kind \in Group /\ outcome[p] = "err"

(* The channel is closed when all workers are done and none of a group     *)
(* failed, and the handler answers when what was sent has been appended.   *)
Closing == closed \/ closer = "close" \/ hpc \in {"close", "drain", "ok"}

ClosedLate ==
  /\ Closing => /\ WorkersDone
                /\ kind \in Group /\ hpc # "error" => ~Failed
  /\ kind \in Group /\ closer = "close" => hpc = "drain"
  /\ kind = "joined" /\ closed => closer = "done"
  /\ kind \in {"endorse", "join"} => closer = "off"
  /\ hpc = "ok" => collector = "done" /\ closed
  /\ collector = "done" => hpc \in {"ok", "error"}

Inv == TypeOK /\ WorkersFit /\ CollectorFits /\ TakenOnce /\ NothingLost /\ ClosedLate

(***************************************************************************)
(* Types                                                                   *)
(***************************************************************************)

(* The steps, with both ways in which a call ends as one. *)
LEMMA StepCases ==
  ASSUME [Next]_vars
  PROVE  \/ \E p \in Peers : Start(p) \/ StartFails(p) \/ Receive(p)
         \/ \E p \in Peers, result \in Results : Call(p, result)
         \/ AllStarted \/ AppendResult \/ RangeEnds \/ CloserWaits \/ CloserCloses
         \/ Wait \/ Close \/ Drain \/ CallerCancels \/ ServerCancels
         \/ UNCHANGED vars
BY DEF Next, WorkerStep, HandlerStep, CallEnds, Results

(* Every step keeps every variable in its type; only AppendResult touches  *)
(* the results, and what it appends is a peer, for it holds one.           *)
LEMMA TypeStep == TypeOK /\ CollectorFits /\ [Next]_vars => TypeOK'
<1> SUFFICES ASSUME TypeOK, CollectorFits, [Next]_vars
             PROVE  TypeOK'
  OBVIOUS
<1> USE NoneAssumption DEF TypeOK, workers, collecting, closing, Inline
<1>1. ASSUME NEW p \in Peers, Start(p) \/ StartFails(p) \/ Receive(p)
      PROVE  TypeOK'
  BY <1>1 DEF Start, StartFails, Receive
<1>2. ASSUME NEW p \in Peers, NEW result \in Results, Call(p, result)
      PROVE  TypeOK'
  BY <1>2 DEF Call, Results
<1>3. CASE AllStarted
  BY <1>3 DEF AllStarted
<1>4. CASE AppendResult
  <2>1. held \in Peers
    BY <1>4 DEF AppendResult, CollectorFits
  <2>2. taken' \in Seq(Peers)
    BY <1>4, <2>1 DEF AppendResult
  <2>3. QED
    BY <1>4, <2>2 DEF AppendResult
<1>5. CASE RangeEnds \/ CloserWaits \/ CloserCloses
  BY <1>5 DEF RangeEnds, CloserWaits, CloserCloses
<1>6. CASE Wait \/ Close \/ Drain
  BY <1>6 DEF Wait, Close, Drain
<1>7. CASE CallerCancels \/ ServerCancels \/ UNCHANGED vars
  BY <1>7 DEF CallerCancels, ServerCancels, vars
<1>8. QED
  BY <1>1, <1>2, <1>3, <1>4, <1>5, <1>6, <1>7, StepCases

(***************************************************************************)
(* The invariant                                                           *)
(***************************************************************************)

Parts == WorkersFit /\ CollectorFits /\ TakenOnce /\ NothingLost /\ ClosedLate

(* Starting a worker, or failing to. *)
LEMMA StartStep ==
  ASSUME Inv, NEW p \in Peers, Start(p) \/ StartFails(p)
  PROVE  Parts'
<1> USE DEF NoError, Inv, TypeOK, workers, collecting, closing, Group, Inline
<1>1. UNCHANGED <<kind, ctx, outcome, collector, held, taken, closer, closed>> /\ hpc = "start"
  BY DEF Start, StartFails
<1>2. \A q \in Peers : wpc'[q] = wpc[q] \/ (wpc[q] = "idle" /\ wpc'[q] = "call")
  BY DEF Start, StartFails
<1>3. WorkersFit'
  BY <1>1, <1>2 DEF WorkersFit
<1>4. CollectorFits'
  BY <1>1 DEF CollectorFits, Start, StartFails
<1>5. TakenOnce'
  BY <1>1, <1>2 DEF TakenOnce, Taken
<1>6. NothingLost'
  BY <1>1, <1>2 DEF NothingLost, Taken, Start, StartFails
<1>7. ClosedLate'
  BY <1>1 DEF ClosedLate, Closing, CollectorFits, Start, StartFails
<1>8. QED
  BY <1>3, <1>4, <1>5, <1>6, <1>7 DEF Parts

(* A call ends. *)
LEMMA CallStep ==
  ASSUME Inv, NEW p \in Peers, NEW result \in Results, Call(p, result)
  PROVE  Parts'
<1> USE DEF NoError, Inv, TypeOK, workers, collecting, closing, Group, Inline
<1>1. UNCHANGED <<kind, ctx, hpc, collector, held, taken, closer, closed>> /\ wpc[p] = "call"
  BY DEF Call
<1>2. \A q \in Peers : q # p => wpc'[q] = wpc[q] /\ outcome'[q] = outcome[q]
  BY DEF Call
<1>3. /\ outcome'[p] = result
      /\ wpc'[p] = IF result = "err" /\ kind \in Group THEN "done" ELSE "send"
  BY DEF Call
<1>4. WorkersFit'
  <2>1. result \in {"ok", "err", "blank"} /\ (result = "blank" => kind = "joined")
    BY DEF Results
  <2>2. QED
    BY <1>1, <1>2, <1>3, <2>1 DEF WorkersFit
<1>5. CollectorFits'
  BY <1>1, <1>2, <1>3 DEF CollectorFits
<1>6. TakenOnce'
  <2>1. ~Taken(p) /\ held # p
    BY <1>1 DEF TakenOnce
  <2>2. QED
    BY <1>1, <1>2, <2>1 DEF TakenOnce, Taken
<1>7. NothingLost'
  BY <1>1, <1>2, <1>3 DEF NothingLost, Taken
<1>8. ClosedLate'
  <2>1. ~Closing
    BY <1>1 DEF ClosedLate, WorkersDone
  <2>2. QED
    BY <1>1, <2>1 DEF ClosedLate, Closing
<1>9. QED
  BY <1>4, <1>5, <1>6, <1>7, <1>8 DEF Parts

(* The collector receives the result of a worker, which is then done. *)
LEMMA ReceiveStep ==
  ASSUME Inv, NEW p \in Peers, Receive(p)
  PROVE  Parts'
<1> USE NoneAssumption DEF NoError, Inv, TypeOK, workers, collecting, closing, Group, Inline
<1>1. /\ UNCHANGED <<kind, ctx, hpc, outcome, taken, closer, closed>>
      /\ wpc[p] = "send" /\ collector = "recv" /\ held = None
      /\ held' = p /\ collector' = "append"
  BY DEF Receive, CollectorFits
<1>2. wpc'[p] = "done" /\ \A q \in Peers : q # p => wpc'[q] = wpc[q]
  BY DEF Receive
<1>3. ~Taken(p) /\ (kind \in Group => NoError(p))
  BY <1>1 DEF TakenOnce, WorkersFit
<1>4. WorkersFit'
  BY <1>1, <1>2 DEF WorkersFit
<1>5. CollectorFits'
  BY <1>1, <1>2 DEF CollectorFits
<1>6. TakenOnce'
  BY <1>1, <1>2, <1>3 DEF TakenOnce, Taken
<1>7. NothingLost'
  BY <1>1, <1>2 DEF NothingLost, Taken
<1>8. ClosedLate'
  <2>1. ~Closing
    BY <1>1 DEF ClosedLate, WorkersDone
  <2>2. QED
    BY <1>1, <2>1 DEF ClosedLate, Closing
<1>9. QED
  BY <1>4, <1>5, <1>6, <1>7, <1>8 DEF Parts

(* The collector appends a result, or gives up. *)
LEMMA AppendStep ==
  ASSUME Inv, AppendResult
  PROVE  Parts'
<1> USE NoneAssumption DEF NoError, Inv, TypeOK, workers, collecting, closing, Group, Inline
<1>1. /\ UNCHANGED <<kind, ctx, wpc, outcome, closer, closed>>
      /\ held \in Peers /\ held' = None /\ collector = "append"
  BY DEF AppendResult, CollectorFits
<1>2. CASE GivesUp(held)
  <2>1. taken' = taken /\ hpc' = "error" /\ collector' = "done" /\ kind = "installed"
    BY <1>2 DEF AppendResult, GivesUp
  <2>2. WorkersFit' /\ CollectorFits'
    BY <1>1, <2>1 DEF WorkersFit, CollectorFits
  <2>3. TakenOnce' /\ NothingLost'
    BY <1>1, <2>1 DEF TakenOnce, NothingLost, Taken
  <2>4. ClosedLate'
    BY <1>1, <2>1 DEF ClosedLate, Closing, WorkersDone
  <2>5. QED
    BY <2>2, <2>3, <2>4 DEF Parts
<1>3. CASE ~GivesUp(held)
  <2>1. taken' = Append(taken, held) /\ hpc' = hpc /\ collector' = "recv"
    BY <1>3 DEF AppendResult
  <2>2. \A p \in Peers : Taken(p)' <=> Taken(p) \/ p = held
    BY <1>1, <2>1 DEF Taken
  <2>3. WorkersFit' /\ CollectorFits'
    BY <1>1, <2>1 DEF WorkersFit, CollectorFits
  <2>4. TakenOnce'
    <3>1. ~Taken(held) /\ (kind = "installed" => outcome[held] # "err")
      BY <1>1, <1>3 DEF TakenOnce, GivesUp
    <3>2. kind = "installed" => NoError(held)
      BY <1>1, <3>1 DEF TakenOnce, WorkersFit
    <3>3. \A i, j \in 1 .. Len(taken') : taken'[i] = taken'[j] => i = j
      BY <1>1, <2>1, <3>1 DEF TakenOnce, Taken
    <3>4. QED
      BY <1>1, <2>2, <3>2, <3>3 DEF TakenOnce
  <2>5. NothingLost'
    BY <1>1, <2>1, <2>2 DEF NothingLost
  <2>6. ClosedLate'
    BY <1>1, <2>1 DEF ClosedLate, Closing, WorkersDone, Failed
  <2>7. QED
    BY <2>3, <2>4, <2>5, <2>6 DEF Parts
<1>4. QED
  BY <1>2, <1>3

(* All other steps leave the workers and their results alone. *)
LEMMA RestStep ==
  ASSUME Inv,
         \/ AllStarted \/ RangeEnds \/ CloserWaits \/ CloserCloses \/ Wait \/ Close \/ Drain
         \/ CallerCancels \/ ServerCancels \/ UNCHANGED vars
  PROVE  Parts'
<1> USE NoneAssumption DEF NoError, Inv, TypeOK, workers, collecting, closing, Group, Inline
<1>1. UNCHANGED <<kind, wpc, outcome, held, taken>> /\ (hpc = "error" => hpc' = "error")
  <2>1. UNCHANGED <<kind, wpc, outcome, held, taken>>
    BY DEF AllStarted, RangeEnds, CloserWaits, CloserCloses, Wait, Close, Drain,
           CallerCancels, ServerCancels, vars
  <2>2. RangeEnds /\ hpc = "error" => hpc' = "error"
    BY DEF RangeEnds, CollectorFits
  <2>3. QED
    BY <2>1, <2>2 DEF AllStarted, CloserWaits, CloserCloses, Wait, Close, Drain,
                      CallerCancels, ServerCancels, vars
<1>2. WorkersFit' /\ TakenOnce' /\ NothingLost'
  BY <1>1 DEF WorkersFit, TakenOnce, NothingLost, Taken
<1>3. CollectorFits' /\ ClosedLate'
  <2> USE DEF CollectorFits, ClosedLate, Closing, WorkersDone, Failed
  <2>1. CASE AllStarted
    BY <1>1, <2>1 DEF AllStarted
  <2>2. CASE RangeEnds
    BY <1>1, <2>2 DEF RangeEnds
  <2>3. CASE CloserWaits \/ CloserCloses
    BY <1>1, <2>3 DEF CloserWaits, CloserCloses
  <2>4. CASE Wait
    BY <1>1, <2>4 DEF Wait
  <2>5. CASE Close
    <3>1. /\ hpc = "close" /\ hpc' = "drain" /\ collector' = collector
          /\ (closed => closed') /\ closer' \in {closer, "close"}
          /\ kind = "joined" => closed' = closed /\ closer = "wait"
          /\ kind # "joined" => closer' = closer
      BY <2>5 DEF Close
    <3>2. QED
      BY <1>1, <3>1
  <2>6. CASE Drain
    BY <1>1, <2>6 DEF Drain
  <2>7. CASE CallerCancels \/ ServerCancels \/ UNCHANGED vars
    BY <1>1, <2>7 DEF CallerCancels, ServerCancels, vars
  <2>8. QED
    BY <2>1, <2>2, <2>3, <2>4, <2>5, <2>6, <2>7
<1>4. QED
  BY <1>2, <1>3 DEF Parts

(***************************************************************************)
(* The results                                                             *)
(***************************************************************************)

(* A request begins with nothing started. *)
LEMMA InitInv == Init => Inv
<1> SUFFICES ASSUME Init
             PROVE  Inv
  OBVIOUS
<1> USE NoneAssumption DEF Init
<1>1. TypeOK
  <2>1. taken \in Seq(Peers)
    OBVIOUS
  <2>2. QED
    BY <2>1 DEF TypeOK
<1>2. Len(taken) = 0 /\ \A p \in Peers : ~Taken(p) /\ held # p
  <2>1. Len(taken) = 0
    OBVIOUS
  <2>2. QED
    BY <2>1 DEF Taken
<1>3. TakenOnce /\ NothingLost
  BY <1>2 DEF TakenOnce, NothingLost
<1>4. WorkersFit /\ CollectorFits /\ ClosedLate
  BY DEF WorkersFit, CollectorFits, ClosedLate, Closing, Kinds, Inline
<1>5. QED
  BY <1>1, <1>3, <1>4 DEF Inv

(* Inv is inductive. *)
LEMMA Invariance == Spec => []Inv
<1>1. Inv /\ [Next]_vars => Inv'
  <2> SUFFICES ASSUME Inv, [Next]_vars
               PROVE  Inv'
    OBVIOUS
  <2>1. TypeOK'
    BY TypeStep DEF Inv
  <2>2. Parts'
    BY StepCases, StartStep, CallStep, ReceiveStep, AppendStep, RestStep
  <2>3. QED
    BY <2>1, <2>2 DEF Inv, Parts
<1>2. QED
  BY <1>1, InitInv, PTL DEF Spec

(* Type correctness. *)
THEOREM TypeCorrect == Spec => []TypeOK
BY Invariance, PTL DEF Inv

(* An answer without error (peer.go:42-48, channel_joined.go:49-56,        *)
(* chaincode_installed.go:53-58, chaincode_install.go:83-87,               *)
(* channel_join.go:87-91) has one result of every peer.                    *)
THEOREM OkProved == Spec => []OkIsComplete
<1>1. Inv => OkIsComplete
  <2> SUFFICES ASSUME Inv, hpc = "ok"
               PROVE  /\ \A p \in Peers : Taken(p)
                      /\ \A i, j \in 1 .. Len(taken) : taken[i] = taken[j] => i = j
                      /\ kind \in Group \cup {"installed"} => \A p \in Peers : NoError(p)
    BY DEF OkIsComplete, Taken
  <2>1. held = None /\ WorkersDone /\ (kind \in Group => ~Failed)
    BY DEF Inv, ClosedLate, Closing, CollectorFits
  <2>2. ASSUME NEW p \in Peers
        PROVE  Taken(p)
    BY NoneAssumption, <2>1 DEF Inv, NothingLost, WorkersDone, Failed
  <2>3. QED
    BY <2>2 DEF Inv, TakenOnce
<1>2. QED
  BY <1>1, Invariance, PTL
=============================================================================
