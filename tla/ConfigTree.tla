----------------------------- MODULE ConfigTree -----------------------------
(***************************************************************************)
(* Channel configurations as trees of versioned elements, the update that  *)
(* Compute makes of two of them (src/pkg/util/update.go) and what the      *)
(* orderers make of that update (Fabric, external).                        *)
(*                                                                         *)
(* A configuration is a function from the paths it has to elements         *)
(* [version, mod, data]: version number, modification policy, value or     *)
(* policy (None for a group).  Compute walks down the groups both          *)
(* configurations have; here its result is given path by path.             *)
(***************************************************************************)
EXTENDS Integers, FiniteSets

CONSTANTS Paths,  \* every element a configuration may have
          Groups, \* those that are groups
          Root,   \* the channel group
          Parent, \* the group an element is in; Parent[Root] = Root
          None    \* no value

(* A channel's tree has the groups of the channel, of the orderer,         *)
(* application and consortium, and of organisations, with elements in      *)
(* each: no path has more than three groups above it.                      *)
ASSUME TreeAssumption ==
  /\ Root \in Groups /\ Groups \subseteq Paths
  /\ Parent \in [Paths -> Groups]
  /\ Parent[Root] = Root
  /\ \A p \in Paths : Parent[Parent[Parent[p]]] = Root

(* The path itself and the groups above it. *)
Line(p) == {p, Parent[p], Parent[Parent[p]], Root}

IsTree(c) ==
  /\ DOMAIN c \subseteq Paths
  /\ Root \in DOMAIN c
  /\ c = [p \in DOMAIN c |-> [version |-> c[p].version, mod |-> c[p].mod, data |-> c[p].data]]
  /\ \A p \in DOMAIN c : Parent[p] \in DOMAIN c /\ c[p].version \in Nat

Members(c, g) == {p \in DOMAIN c \ {Root} : Parent[p] = g}
Alike(e, f) == e.mod = f.mod /\ e.data = f.data

-----------------------------------------------------------------------------
(* util.Compute(original, updated) *)

(* Elements of both configurations whose policy or value differs, and      *)
(* groups whose policy or membership does: they get a new version.         *)
Differing(o, u) ==
  {p \in DOMAIN o \cap DOMAIN u :
     \/ ~Alike(o[p], u[p])
     \/ p \in Groups /\ Members(o, p) # Members(u, p)}

(* Faulty variant: the groups between the channel's and a change are       *)
(* passed over.                                                            *)
UpdatedSkipping(o, u) ==
  IF Differing(o, u) = {} THEN {} ELSE Differing(o, u) \cup {Root}

(* Those, and the groups above them: computeGroupUpdate returns TRUE.      *)
Updated(o, u) == UNION {Line(p) : p \in Differing(o, u)}

(* "no differences detected" *)
NoDifferences(o, u) == Root \notin Updated(o, u)

(* The members of a differing group that are not updated themselves go     *)
(* into both sets with their version alone.                                *)
Same(o, u) ==
  {p \in (DOMAIN o \cap DOMAIN u) \ ({Root} \cup Updated(o, u)) : Parent[p] \in Differing(o, u)}

ReadSet(o, u) ==
  [p \in (Updated(o, u) \cap Groups) \cup Same(o, u) |-> o[p].version]

(* Faulty variant: versions are copied. *)
WriteSetUncounted(o, u) ==
  [p \in Updated(o, u) \cup Same(o, u) \cup (DOMAIN u \ DOMAIN o) |->
     IF p \notin DOMAIN o THEN [version |-> 0, mod |-> u[p].mod, data |-> u[p].data]
     ELSE [version |-> o[p].version, mod |-> u[p].mod, data |-> u[p].data]]

WriteSet(o, u) ==
  LET differing == Differing(o, u) IN
  [p \in Updated(o, u) \cup Same(o, u) \cup (DOMAIN u \ DOMAIN o) |->
     IF p \notin DOMAIN o THEN [version |-> 0, mod |-> u[p].mod, data |-> u[p].data]
     ELSE IF p \in differing
          THEN [version |-> o[p].version + 1, mod |-> u[p].mod, data |-> u[p].data]
          ELSE [version |-> o[p].version, mod |-> None, data |-> None]]

Compute(o, u) == [read |-> ReadSet(o, u), write |-> WriteSet(o, u)]

-----------------------------------------------------------------------------
(* The orderers: what they check of an update and what they make of it.    *)

(* Elements of the write set that the read set does not have at the same   *)
(* version.                                                                *)
Delta(upd) ==
  {p \in DOMAIN upd.write :
     p \in DOMAIN upd.read => upd.read[p] # upd.write[p].version}

Accepts(c, upd) ==
  /\ \A p \in DOMAIN upd.read : p \in DOMAIN c /\ c[p].version = upd.read[p]
  /\ Delta(upd) # {}
  /\ \A p \in Delta(upd) :
       upd.write[p].version = IF p \in DOMAIN c THEN c[p].version + 1 ELSE 0

(* A changed group has the members the write set lists, another one keeps  *)
(* its own; what no group reaches is gone.                                 *)
Result(c, upd) ==
  LET delta == Delta(upd)
      Kept(q) == IF Parent[q] \in delta THEN q \in DOMAIN upd.write ELSE q \in DOMAIN c
  IN [p \in {q \in DOMAIN c \cup delta : \A l \in Line(q) \ {Root} : Kept(l)} |->
        IF p \in delta THEN upd.write[p] ELSE c[p]]
=============================================================================
