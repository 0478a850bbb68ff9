------------------------- MODULE PeerRolloutProofs -------------------------
(***************************************************************************)
(* What a request is told by a peer, and when a peer has two packages of   *)
(* one label, for any peers, requests and packages and any number of       *)
(* failed calls.                                                           *)
(***************************************************************************)
EXTENDS PeerRollout, TLAPS

(* A request was told that an item is new only of a peer that has it. *)
NewsAreTrue == \A p \in Peers, i \in Items : news[p][i] > 0 => i \in has[p]

(* Two calls with alike items that may both take effect at a peer have     *)
(* raced there, and so have a call that may take effect and another item   *)
(* that the peer got after the call's check.                               *)
RacedAt(p, i) == <<p, Label[i]>> \in raced

ActAct ==
  \A p \in Peers : \A r, s \in Requests :
    r # s /\ step[r][p] = "act" /\ step[s][p] = "act" /\ Alike(item[r], item[s])
      => RacedAt(p, item[r])

ActLate ==
  \A p \in Peers : \A r \in Requests : \A i \in late[p] :
    step[r][p] = "act" /\ Alike(i, item[r]) => RacedAt(p, i)

ActHas ==
  \A p \in Peers : \A r \in Requests : \A i \in has[p] :
    step[r][p] = "act" /\ Alike(i, item[r]) => RacedAt(p, i)

LateLate ==
  \A p \in Peers : \A i, j \in late[p] : Alike(i, j) /\ i # j => RacedAt(p, i)

LateHas ==
  \A p \in Peers : \A i \in late[p], j \in has[p] : Alike(i, j) /\ i # j => RacedAt(p, i)

HasHas ==
  \A p \in Peers : \A i, j \in has[p] : Alike(i, j) /\ i # j => RacedAt(p, i)

Races == ActAct /\ ActLate /\ ActHas /\ LateLate /\ LateHas /\ HasHas

Inv == TypeOK /\ NewsAreTrue /\ ResultIsTrue /\ Races

(***************************************************************************)
(* Types                                                                   *)
(***************************************************************************)

(* The steps of a request at a peer, and the three others. *)
LEMMA StepCases ==
  ASSUME [Next]_vars
  PROVE  \/ \E r \in Requests, p \in Peers : Query(r, p) \/ QueryFails(r, p)
         \/ \E r \in Requests, p \in Peers : Refused(r, p) \/ Act(r, p) \/ ActFails(r, p)
         \/ \E r \in Requests : Repeat(r)
         \/ \E p \in Peers, i \in Items : Arrive(p, i)
         \/ UNCHANGED vars
BY DEF Next, ProcessPeer

(* Every step keeps every variable in its type. *)
LEMMA TypeStep == TypeOK /\ [Next]_vars => TypeOK'
<1> SUFFICES ASSUME TypeOK, [Next]_vars
             PROVE  TypeOK'
  OBVIOUS
<1> USE DEF TypeOK, Results
<1>0. ASSUME NEW r \in Requests, NEW p \in Peers, NEW x \in {"query", "act"} \cup Results, Becomes(r, p, x)
      PROVE  step' \in [Requests -> [Peers -> {"query", "act"} \cup Results]]
  BY <1>0 DEF Becomes
<1>a. Fault => faults' \in Nat
  BY DEF Fault
<1>1. ASSUME NEW r \in Requests, NEW p \in Peers, Query(r, p) \/ QueryFails(r, p)
      PROVE  TypeOK'
  <2>1. step' \in [Requests -> [Peers -> {"query", "act"} \cup Results]]
    BY <1>0, <1>1 DEF Query, QueryFails
  <2>2. raced' \subseteq Peers \X {Label[i] : i \in Items}
    BY <1>1 DEF Query, QueryFails
  <2>3. QED
    BY <1>1, <1>a, <2>1, <2>2 DEF Query, QueryFails
<1>2. ASSUME NEW r \in Requests, NEW p \in Peers, Refused(r, p) \/ Act(r, p) \/ ActFails(r, p)
      PROVE  TypeOK'
  <2>1. step' \in [Requests -> [Peers -> {"query", "act"} \cup Results]]
    BY <1>0, <1>2 DEF Refused, Act, ActFails, Told
  <2>2. news' \in [Peers -> [Items -> Nat]]
    BY <1>2 DEF Refused, Act, ActFails, Told
  <2>3. has' \in [Peers -> SUBSET Items] /\ late' \in [Peers -> SUBSET Items]
    <3> item[r] \in Items
      OBVIOUS
    <3>1. [has EXCEPT ![p] = @ \cup {item[r]}] \in [Peers -> SUBSET Items]
      OBVIOUS
    <3>2. [late EXCEPT ![p] = @ \cup {item[r]}] \in [Peers -> SUBSET Items]
      OBVIOUS
    <3>3. /\ has' \in {has, [has EXCEPT ![p] = @ \cup {item[r]}]}
          /\ late' \in {late, [late EXCEPT ![p] = @ \cup {item[r]}]}
      BY <1>2 DEF Refused, Act, ActFails
    <3>4. QED
      BY <3>1, <3>2, <3>3
  <2>4. faults' \in Nat
    BY <1>2, <1>a DEF Refused, Act, ActFails
  <2>5. item' = item /\ raced' = raced
    BY <1>2 DEF Refused, Act, ActFails
  <2>6. QED
    BY <2>1, <2>2, <2>3, <2>4, <2>5
<1>3. ASSUME NEW r \in Requests, Repeat(r)
      PROVE  TypeOK'
  BY <1>3 DEF Repeat
<1>4. ASSUME NEW p \in Peers, NEW i \in Items, Arrive(p, i)
      PROVE  TypeOK'
  BY <1>4 DEF Arrive
<1>5. CASE UNCHANGED vars
  BY <1>5 DEF vars
<1>6. QED
  BY <1>1, <1>2, <1>3, <1>4, <1>5, StepCases

(***************************************************************************)
(* What requests are told                                                  *)
(***************************************************************************)

(* What a step at one peer leaves of all others. *)
LEMMA Becoming ==
  ASSUME TypeOK, NEW r \in Requests, NEW p \in Peers, NEW x, Becomes(r, p, x),
         NEW s \in Requests, NEW q \in Peers
  PROVE  step'[s][q] = IF s = r /\ q = p THEN x ELSE step[s][q]
BY DEF TypeOK, Becomes

(* A peer never loses an item. *)
LEMMA HasGrows ==
  ASSUME TypeOK, [Next]_vars, NEW q \in Peers
  PROVE  has[q] \subseteq has'[q]
<1> USE DEF TypeOK
<1>1. ASSUME NEW r \in Requests, NEW p \in Peers, Act(r, p)
      PROVE  has[q] \subseteq has'[q]
  BY <1>1 DEF Act
<1>2. ASSUME NEW p \in Peers, NEW i \in Items, Arrive(p, i)
      PROVE  has[q] \subseteq has'[q]
  BY <1>2 DEF Arrive
<1>3. QED
  BY <1>1, <1>2, StepCases DEF Query, QueryFails, Refused, ActFails, Repeat, vars

(* A request is told that an item is new only when the peer takes it, and  *)
(* it takes it once.                                                       *)
LEMMA NewsStep == TypeOK /\ NewsAreTrue /\ NewOnce /\ [Next]_vars => NewsAreTrue' /\ NewOnce'
<1> SUFFICES ASSUME TypeOK, NewsAreTrue, NewOnce, [Next]_vars, NEW q \in Peers, NEW k \in Items
             PROVE  /\ news'[q][k] > 0 => k \in has'[q]
                    /\ news'[q][k] <= 1
  BY DEF NewsAreTrue, NewOnce
<1>1. has[q] \subseteq has'[q]
  BY HasGrows
<1>2. news[q][k] > 0 => k \in has[q]
  BY DEF NewsAreTrue
<1>3. news[q][k] \in Nat /\ news[q][k] <= 1
  BY DEF NewOnce, TypeOK
<1>4. ASSUME NEW r \in Requests, NEW p \in Peers, Act(r, p)
      PROVE  /\ news'[q][k] > 0 => k \in has'[q]
             /\ news'[q][k] <= 1
  BY <1>1, <1>2, <1>3, <1>4 DEF Act, Told, TypeOK
<1>5. CASE UNCHANGED news
  BY <1>1, <1>2, <1>3, <1>5
<1>6. QED
  BY <1>4, <1>5, StepCases DEF Query, QueryFails, Refused, ActFails, Repeat, Arrive, vars

(* The result a request gets is true, and stays true, since peers lose     *)
(* nothing.                                                                *)
LEMMA ResultStep == TypeOK /\ ResultIsTrue /\ [Next]_vars => ResultIsTrue'
<1> SUFFICES ASSUME TypeOK, ResultIsTrue, [Next]_vars, NEW s \in Requests, NEW q \in Peers
             PROVE  /\ step'[s][q] = "new" => item'[s] \in has'[q]
                    /\ step'[s][q] = "existed" => \E i \in has'[q] : Alike(i, item'[s])
  BY DEF ResultIsTrue, Alike
<1>1. has[q] \subseteq has'[q]
  BY HasGrows
<1>2. /\ step[s][q] = "new" => item[s] \in has[q]
      /\ step[s][q] = "existed" => \E i \in has[q] : Alike(i, item[s])
  BY DEF ResultIsTrue
<1>3. item' = item
  BY StepCases DEF Query, QueryFails, Refused, Act, ActFails, Repeat, Arrive, vars
<1>4. ASSUME NEW r \in Requests, NEW p \in Peers, Query(r, p) \/ QueryFails(r, p)
      PROVE  /\ step'[s][q] = "new" => item[s] \in has'[q]
             /\ step'[s][q] = "existed" => \E i \in has'[q] : Alike(i, item[s])
  <2>1. CASE s = r /\ q = p
    <3>1. /\ step'[s][q] = "existed" => Found(r, p)
          /\ step'[s][q] # "new"
      BY <1>4, <2>1, Becoming DEF Query, QueryFails
    <3>2. QED
      BY <1>1, <2>1, <3>1 DEF Found
  <2>2. CASE ~(s = r /\ q = p)
    <3>1. step'[s][q] = step[s][q]
      BY <1>4, <2>2, Becoming DEF Query, QueryFails
    <3>2. QED
      BY <1>1, <1>2, <3>1
  <2>3. QED
    BY <2>1, <2>2
<1>5. ASSUME NEW r \in Requests, NEW p \in Peers, Refused(r, p) \/ Act(r, p) \/ ActFails(r, p)
      PROVE  /\ step'[s][q] = "new" => item[s] \in has'[q]
             /\ step'[s][q] = "existed" => \E i \in has'[q] : Alike(i, item[s])
  <2>1. CASE s = r /\ q = p
    <3>1. /\ step'[s][q] = "new" => Act(r, p)
          /\ step'[s][q] # "existed"
      BY <1>5, <2>1, Becoming DEF Refused, Act, ActFails, Told
    <3>2. Act(r, p) => item[r] \in has'[p]
      BY DEF Act, TypeOK
    <3>3. QED
      BY <2>1, <3>1, <3>2
  <2>2. CASE ~(s = r /\ q = p)
    <3>1. step'[s][q] = step[s][q]
      BY <1>5, <2>2, Becoming DEF Refused, Act, ActFails, Told
    <3>2. QED
      BY <1>1, <1>2, <3>1
  <2>3. QED
    BY <2>1, <2>2
<1>6. ASSUME NEW r \in Requests, Repeat(r)
      PROVE  /\ step'[s][q] = "new" => item[s] \in has'[q]
             /\ step'[s][q] = "existed" => \E i \in has'[q] : Alike(i, item[s])
  BY <1>1, <1>2, <1>6 DEF Repeat, TypeOK
<1>7. CASE UNCHANGED step
  BY <1>1, <1>2, <1>3, <1>7
<1>8. QED
  BY <1>3, <1>4, <1>5, <1>6, <1>7, StepCases DEF Arrive, vars

(***************************************************************************)
(* Two packages of one label                                               *)
(***************************************************************************)

(* A check that finds nothing brings in a call.  What may take effect next *)
(* to it is recorded, and the peer has nothing alike.                      *)
LEMMA RacesQuery ==
  ASSUME TypeOK, Races, NEW r \in Requests, NEW p \in Peers, Query(r, p)
  PROVE  Races'
<1> USE DEF Races, Alike, RacedAt
<1>1. item' = item /\ has' = has /\ late' = late /\ raced \subseteq raced'
  BY DEF Query
<1>2. ASSUME NEW s \in Requests, NEW q \in Peers, step'[s][q] = "act"
      PROVE  step[s][q] = "act" \/ (s = r /\ q = p)
  <2>1. PICK x \in {"existed", "act"} : Becomes(r, p, x)
    BY DEF Query
  <2>2. QED
    BY <1>2, <2>1, Becoming
<1>3. step'[r][p] = "act" =>
        /\ ~Found(r, p)
        /\ \A i \in Rivals(r, p) : Alike(i, item[r]) => <<p, Label[item[r]]>> \in raced'
  <2>1. step'[r][p] = "existed" \/ ~Found(r, p)
    BY Becoming DEF Query
  <2>2. ~Found(r, p) /\ Raced(r, p) => <<p, Label[item[r]]>> \in raced'
    BY DEF Query
  <2>3. QED
    BY <2>1, <2>2 DEF Raced
<1>4. ActAct'
  <2> SUFFICES ASSUME NEW q \in Peers, NEW s \in Requests, NEW t \in Requests, s # t,
                      step'[s][q] = "act", step'[t][q] = "act", Label[item[s]] = Label[item[t]]
               PROVE  <<q, Label[item[s]]>> \in raced'
    BY <1>1 DEF ActAct
  <2>1. CASE step[s][q] = "act" /\ step[t][q] = "act"
    BY <1>1, <2>1 DEF ActAct
  <2>2. CASE s = r /\ q = p
    BY <1>2, <1>3, <2>2 DEF Rivals
  <2>3. CASE t = r /\ q = p
    BY <1>2, <1>3, <2>3 DEF Rivals
  <2>4. QED
    BY <1>2, <2>1, <2>2, <2>3
<1>5. ActLate'
  <2> SUFFICES ASSUME NEW q \in Peers, NEW s \in Requests, NEW i \in late[q],
                      step'[s][q] = "act", Label[i] = Label[item[s]]
               PROVE  <<q, Label[i]>> \in raced'
    BY <1>1 DEF ActLate
  <2>1. CASE step[s][q] = "act"
    BY <1>1, <2>1 DEF ActLate
  <2>2. CASE s = r /\ q = p
    BY <1>3, <2>2 DEF Rivals
  <2>3. QED
    BY <1>2, <2>1, <2>2
<1>6. ActHas'
  <2> SUFFICES ASSUME NEW q \in Peers, NEW s \in Requests, NEW i \in has[q],
                      step'[s][q] = "act", Label[i] = Label[item[s]]
               PROVE  <<q, Label[i]>> \in raced'
    BY <1>1 DEF ActHas
  <2>1. CASE step[s][q] = "act"
    BY <1>1, <2>1 DEF ActHas
  <2>2. CASE s = r /\ q = p
    BY <1>3, <2>2 DEF Found
  <2>3. QED
    BY <1>2, <2>1, <2>2
<1>7. LateLate' /\ LateHas' /\ HasHas'
  BY <1>1 DEF LateLate, LateHas, HasHas
<1>8. QED
  BY <1>4, <1>5, <1>6, <1>7

(* A call that takes effect gives the peer an item that others, under way  *)
(* or there already, have raced with.                                      *)
LEMMA RacesAct ==
  ASSUME TypeOK, Races, NEW r \in Requests, NEW p \in Peers, Act(r, p)
  PROVE  Races'
<1> USE DEF Races, Alike, RacedAt
<1>1. item' = item /\ late' = late /\ raced' = raced /\ step[r][p] = "act"
  BY DEF Act
<1>2. ASSUME NEW s \in Requests, NEW q \in Peers, step'[s][q] = "act"
      PROVE  step[s][q] = "act" /\ ~(s = r /\ q = p)
  BY <1>2, Becoming DEF Act, Told
<1>3. ASSUME NEW q \in Peers, NEW i \in has'[q]
      PROVE  i \in has[q] \/ (q = p /\ i = item[r])
  <2>1. has'[q] = IF q = p THEN has[q] \cup {item[r]} ELSE has[q]
    BY DEF Act, TypeOK
  <2>2. QED
    BY <1>3, <2>1
<1>4. ActAct' /\ ActLate' /\ LateLate'
  BY <1>1, <1>2 DEF ActAct, ActLate, LateLate
<1>5. ActHas'
  BY <1>1, <1>2, <1>3 DEF ActHas, ActAct
<1>6. LateHas'
  BY <1>1, <1>3 DEF LateHas, ActLate
<1>7. HasHas'
  BY <1>1, <1>3 DEF HasHas, ActHas
<1>8. QED
  BY <1>4, <1>5, <1>6, <1>7

(* A call that failed may still take effect, so that it goes on racing.    *)
LEMMA RacesFails ==
  ASSUME TypeOK, Races, NEW r \in Requests, NEW p \in Peers, ActFails(r, p)
  PROVE  Races'
<1> USE DEF Races, Alike, RacedAt
<1>1. item' = item /\ has' = has /\ raced' = raced /\ step[r][p] = "act"
  BY DEF ActFails
<1>2. ASSUME NEW s \in Requests, NEW q \in Peers, step'[s][q] = "act"
      PROVE  step[s][q] = "act" /\ ~(s = r /\ q = p)
  BY <1>2, Becoming DEF ActFails
<1>3. ASSUME NEW q \in Peers, NEW i \in late'[q]
      PROVE  i \in late[q] \/ (q = p /\ i = item[r])
  <2>1. late'[q] \in {late[q], IF q = p THEN late[q] \cup {item[r]} ELSE late[q]}
    BY DEF ActFails, TypeOK
  <2>2. QED
    BY <1>3, <2>1
<1>4. ActAct' /\ ActHas' /\ HasHas'
  BY <1>1, <1>2 DEF ActAct, ActHas, HasHas
<1>5. ActLate'
  BY <1>1, <1>2, <1>3 DEF ActLate, ActAct
<1>6. LateLate'
  BY <1>1, <1>3 DEF LateLate, ActLate
<1>7. LateHas'
  BY <1>1, <1>3 DEF LateHas, ActHas
<1>8. QED
  BY <1>4, <1>5, <1>6, <1>7

(* The failed call takes effect. *)
LEMMA RacesArrive ==
  ASSUME TypeOK, Races, NEW p \in Peers, NEW k \in Items, Arrive(p, k)
  PROVE  Races'
<1> USE DEF Races, Alike, RacedAt
<1>1. item' = item /\ step' = step /\ raced' = raced /\ k \in late[p]
  BY DEF Arrive
<1>2. ASSUME NEW q \in Peers, NEW i \in has'[q]
      PROVE  i \in has[q] \/ (q = p /\ i = k)
  <2>1. has'[q] = IF q = p THEN has[q] \cup {k} ELSE has[q]
    BY DEF Arrive, TypeOK
  <2>2. QED
    BY <1>2, <2>1
<1>3. ASSUME NEW q \in Peers, NEW i \in late'[q]
      PROVE  i \in late[q]
  BY <1>3 DEF Arrive, TypeOK
<1>4. ActAct' /\ ActLate' /\ LateLate'
  BY <1>1, <1>3 DEF ActAct, ActLate, LateLate
<1>5. ActHas'
  BY <1>1, <1>2 DEF ActHas, ActLate
<1>6. LateHas'
  BY <1>1, <1>2, <1>3 DEF LateHas, LateLate
<1>7. HasHas'
  BY <1>1, <1>2 DEF HasHas, LateHas
<1>8. QED
  BY <1>4, <1>5, <1>6, <1>7

(* No step brings a call or an item next to one alike without a race. *)
LEMMA RacesStep == TypeOK /\ Races /\ [Next]_vars => Races'
<1> SUFFICES ASSUME TypeOK, Races, [Next]_vars
             PROVE  Races'
  OBVIOUS
<1>1. ASSUME UNCHANGED <<item, has, late, raced>>,
             \A s \in Requests, q \in Peers : step'[s][q] = "act" => step[s][q] = "act"
      PROVE  Races'
  BY <1>1 DEF Races, ActAct, ActLate, ActHas, LateLate, LateHas, HasHas, Alike, RacedAt
<1>2. ASSUME NEW r \in Requests, NEW p \in Peers, QueryFails(r, p) \/ Refused(r, p)
      PROVE  Races'
  <2>1. \A s \in Requests, q \in Peers : step'[s][q] = "act" => step[s][q] = "act"
    BY <1>2, Becoming DEF QueryFails, Refused
  <2>2. QED
    BY <1>1, <1>2, <2>1 DEF QueryFails, Refused
<1>3. ASSUME NEW r \in Requests, Repeat(r)
      PROVE  Races'
  <2>1. \A s \in Requests, q \in Peers : step'[s][q] = "act" => step[s][q] = "act"
    BY <1>3 DEF Repeat, TypeOK
  <2>2. QED
    BY <1>1, <1>3, <2>1 DEF Repeat
<1>4. CASE UNCHANGED vars
  BY <1>1, <1>4 DEF vars
<1>5. QED
  BY <1>2, <1>3, <1>4, RacesQuery, RacesAct, RacesFails, RacesArrive, StepCases

(***************************************************************************)
(* The results                                                             *)
(***************************************************************************)

(* Requests begin with peers of which none has two alike items. *)
LEMMA InitInv == Init => Inv
<1> SUFFICES ASSUME Init
             PROVE  Inv
  OBVIOUS
<1> USE DEF Init, Brings
<1>1. TypeOK
  BY FaultsAssumption DEF TypeOK
<1>2. NewsAreTrue /\ ResultIsTrue
  BY DEF NewsAreTrue, ResultIsTrue
<1>3. Races
  BY DEF Races, ActAct, ActLate, ActHas, LateLate, LateHas, HasHas, Alike
<1>4. QED
  BY <1>1, <1>2, <1>3 DEF Inv

(* Inv together with NewOnce is inductive. *)
LEMMA Invariance == Spec => [](Inv /\ NewOnce)
<1>1. Init => Inv /\ NewOnce
  BY InitInv DEF Init, NewOnce
<1>2. Inv /\ NewOnce /\ [Next]_vars => (Inv /\ NewOnce)'
  BY TypeStep, NewsStep, ResultStep, RacesStep DEF Inv
<1>3. QED
  BY <1>1, <1>2, PTL DEF Spec

(* Type correctness. *)
THEOREM TypeCorrect == Spec => []TypeOK
BY Invariance, PTL DEF Inv

(* Whatever fails, is repeated or comes late, at most one request is told  *)
(* that an item is new at a peer.                                          *)
THEOREM NewOnceProved == Spec => []NewOnce
BY Invariance, PTL

(* What a request is told of a peer (processPeerInstall, processPeerJoin)  *)
(* is true from then on.                                                   *)
THEOREM ResultProved == Spec => []ResultIsTrue
BY Invariance, PTL DEF Inv

(* Two packages of one label at a peer come from two calls that were about *)
(* to install there at the same time, and from nothing else.               *)
THEOREM AlikeProved == Spec => []AlikeOnlyByRace
<1>1. Inv => AlikeOnlyByRace
  BY DEF Inv, Races, HasHas, RacedAt, AlikeOnlyByRace
<1>2. QED
  BY <1>1, Invariance, PTL
=============================================================================
