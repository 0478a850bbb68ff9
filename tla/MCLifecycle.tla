---------------------------- MODULE MCLifecycle ----------------------------
(***************************************************************************)
(* Three organisations of which two make a quorum, and definitions that    *)
(* differ in the policy only, in the version and in the init flag.         *)
(***************************************************************************)
EXTENDS Lifecycle

CONSTANTS o1, o2, o3, r1, r2

Def(v, p, i) == [version |-> v, policy |-> p, init |-> i]

MCOrgs == {o1, o2, o3}
MCQuorums == {{o1, o2}, {o1, o3}, {o2, o3}}
MCDefinitions == {Def(1, "a", FALSE), Def(1, "b", FALSE), Def(2, "a", TRUE)}
TwoDefinitions == {Def(1, "a", FALSE), Def(2, "a", TRUE)}
OneRequest == {r1}
OneOf == [r \in {r1} |-> o1]

(* Only o1 has a request, so o2 and o3 are interchangeable: where one of   *)
(* the two did not approve the first definition, it is o3.                 *)
OneInit == Init /\ (history # <<>> => approved[o2].cur = Current)
OneSpec == OneInit /\ [][Next]_vars /\ Fairness

(* Both organisations of a channel, each with a request of its own. *)
TwoOrgs == {o1, o2}
BothAgree == {TwoOrgs}
TwoRequests == {r1, r2}
TwoOf == [r \in {r1, r2} |-> IF r = r1 THEN o1 ELSE o2]
TwoInit == Init /\ Agreed
TwoSpec == TwoInit /\ [][Next]_vars /\ Fairness
=============================================================================
