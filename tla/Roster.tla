------------------------------- MODULE Roster -------------------------------
(***************************************************************************)
(* What an administrator may expect of the handlers that change a          *)
(* channel's consenters and anchor peers: a request takes effect at most   *)
(* once and in one step, on the lists that are in force at that moment,    *)
(* whoever has changed them since the request looked.                      *)
(***************************************************************************)
EXTENDS SequencesExt

CONSTANT Requests

VARIABLES roster,  \* hosts of the consenters, in order
          anchors, \* anchor peers of the organisation
          wish,    \* what each request is for
          served   \* requests that took effect

rvars == <<roster, anchors, wish, served>>

Init == served = {}

Add(h) == h \notin ToSet(roster) /\ roster' = Append(roster, h) /\ UNCHANGED anchors

(* All others stay, in their order. *)
Delete(h) ==
  LET stays == {i \in DOMAIN roster : roster[i] # h}
  IN  /\ \E at \in [1 .. Cardinality(stays) -> stays] :
           /\ \A i, j \in DOMAIN at : i < j => at[i] < at[j]
           /\ roster' = [i \in DOMAIN at |-> roster[at[i]]]
      /\ UNCHANGED anchors

Update == UNCHANGED <<roster, anchors>>
Modify(peers) == anchors' = peers /\ UNCHANGED roster

Serve(r) ==
  /\ r \notin served /\ served' = served \cup {r}
  /\ \/ wish[r].op = "add" /\ Add(wish[r].host)
     \/ wish[r].op = "delete" /\ Delete(wish[r].host)
     \/ wish[r].op = "update" /\ Update
     \/ wish[r].op = "anchors" /\ Modify(wish[r].peers)
  /\ UNCHANGED wish

(* Other tools reorder the consenters, or set the anchor peers. *)
Elsewhere ==
  /\ roster' \in {roster, Reverse(roster)}
  /\ UNCHANGED <<wish, served>>

Spec == Init /\ [][(\E r \in Requests : Serve(r)) \/ Elsewhere]_rvars
=============================================================================
