-------------------------- MODULE ConfigChangeProofs --------------------------
(***************************************************************************)
(* No update of a channel's configuration is lost or overwrites another,   *)
(* for any tree of at most three levels of groups, any requests and any    *)
(* changes of other tools.                                                 *)
(*                                                                         *)
(* The argument is about versions: a version counts the changes of one     *)
(* element only while all groups above it keep theirs, since an element    *)
(* may be removed and put back with version 0.  Compared from the root     *)
(* down they tell all the same (Follows).                                  *)
(*                                                                         *)
(* And the lists of consenters, of any length: ids are kept and never      *)
(* given twice, and each change is one that Roster allows.  The highest    *)
(* remembered id and the places of the hosts that stay are found by        *)
(* induction: every set of naturals has a least element (Least), since     *)
(* finite sets are well-founded under inclusion.                           *)
(***************************************************************************)
EXTENDS ConfigChange, FiniteSetTheorems, TLAPS

LEMMA LineFacts ==
  ASSUME NEW p \in Paths
  PROVE  /\ Parent[p] \in Paths /\ Parent[p] \in Groups
         /\ Line(p) = {p} \cup Line(Parent[p])
         /\ Line(p) \subseteq Paths /\ Root \in Line(p)
         /\ Line(Parent[p]) \subseteq Groups
         /\ \A l \in Line(p) : Line(l) \subseteq Line(p)
BY TreeAssumption DEF Line

LEMMA TreeLine ==
  ASSUME NEW c, IsTree(c), NEW p \in DOMAIN c
  PROVE  Line(p) \subseteq DOMAIN c
BY TreeAssumption DEF IsTree, Line

LEMMA TreeVersion ==
  ASSUME NEW c, IsTree(c), NEW p \in DOMAIN c
  PROVE  p \in Paths /\ Parent[p] \in DOMAIN c /\ c[p].version \in Nat
BY Zenon DEF IsTree

(* The highest element above p that is not in the tree.                    *)
LEMMA HighestMissing ==
  ASSUME NEW c, IsTree(c), NEW p \in Paths, p \notin DOMAIN c
  PROVE  \E t \in Line(p) \ {Root} : t \notin DOMAIN c /\ Parent[t] \in DOMAIN c
<1>1. CASE Parent[p] \in DOMAIN c
  BY <1>1 DEF IsTree, Line
<1>2. CASE Parent[p] \notin DOMAIN c /\ Parent[Parent[p]] \in DOMAIN c
  BY <1>2 DEF IsTree, Line
<1>3. CASE Parent[p] \notin DOMAIN c /\ Parent[Parent[p]] \notin DOMAIN c
  BY <1>3, TreeAssumption DEF IsTree, Line
<1> QED BY <1>1, <1>2, <1>3

-----------------------------------------------------------------------------
(* What Compute puts into an update.                                       *)
New(o, u) == DOMAIN u \ DOMAIN o

LEMMA DifferingBoth ==
  ASSUME NEW o, NEW u, IsTree(o), IsTree(u)
  PROVE  /\ Differing(o, u) \subseteq DOMAIN o \cap DOMAIN u
         /\ Updated(o, u) \subseteq DOMAIN o \cap DOMAIN u
         /\ Updated(o, u) \ Differing(o, u) \subseteq Groups
         /\ \A p \in Differing(o, u) : Line(p) \subseteq Updated(o, u)
         /\ \A l \in DOMAIN o \cup DOMAIN u : l # Root /\ Parent[l] \in DOMAIN o \cap DOMAIN u
              /\ (l \notin DOMAIN o \/ l \notin DOMAIN u) => Parent[l] \in Differing(o, u)
<1>1. Differing(o, u) \subseteq DOMAIN o \cap DOMAIN u
  BY DEF Differing
<1>2. \A p \in Differing(o, u) : Line(p) \subseteq Updated(o, u)
  BY DEF Updated
<1>3. Updated(o, u) \subseteq DOMAIN o \cap DOMAIN u
  BY <1>1, TreeLine DEF Updated
<1>4. Updated(o, u) \ Differing(o, u) \subseteq Groups
  <2> SUFFICES ASSUME NEW p \in Differing(o, u), NEW l \in Line(p), l # p PROVE l \in Groups
    BY DEF Updated
  <2> QED BY <1>1, LineFacts DEF IsTree
<1>5. ASSUME NEW l \in DOMAIN o \cup DOMAIN u, l # Root, Parent[l] \in DOMAIN o \cap DOMAIN u,
             l \notin DOMAIN o \/ l \notin DOMAIN u
      PROVE  Parent[l] \in Differing(o, u)
  <2>1. l \in Paths /\ Parent[l] \in Groups
    BY LineFacts DEF IsTree
  <2>2. Members(o, Parent[l]) # Members(u, Parent[l])
    BY <1>5 DEF Members
  <2> QED BY <1>5, <2>1, <2>2 DEF Differing
<1> QED BY <1>1, <1>2, <1>3, <1>4, <1>5

LEMMA ComputeFacts ==
  ASSUME NEW o, NEW u, IsTree(o), IsTree(u)
  PROVE  LET upd == Compute(o, u) IN
         /\ DOMAIN upd.read \subseteq DOMAIN o /\ \A p \in DOMAIN upd.read : upd.read[p] = o[p].version
         /\ \A p \in Differing(o, u) : Line(p) \cap Groups \subseteq DOMAIN upd.read
         /\ DOMAIN upd.write \subseteq DOMAIN u
         /\ Delta(upd) = Differing(o, u) \cup New(o, u)
         /\ \A p \in DOMAIN upd.write \ Delta(upd) : p \in DOMAIN upd.read
         /\ \A p \in Differing(o, u) :
              upd.write[p] = [version |-> o[p].version + 1, mod |-> u[p].mod, data |-> u[p].data]
         /\ \A p \in New(o, u) : upd.write[p] = [version |-> 0, mod |-> u[p].mod, data |-> u[p].data]
         /\ \A l \in DOMAIN u \ {Root} : Parent[l] \in Delta(upd) => l \in DOMAIN upd.write
<1> DEFINE upd == Compute(o, u)
           D == Differing(o, u)
           U == Updated(o, u)
           S == Same(o, u)
<1>0. /\ D \subseteq U /\ U \subseteq DOMAIN o \cap DOMAIN u /\ U \ D \subseteq Groups
      /\ \A p \in D : Line(p) \subseteq U
  BY DifferingBoth DEF Line
<1>1. S \subseteq (DOMAIN o \cap DOMAIN u) \ U
  BY DEF Same
<1>2. /\ upd.read = [p \in (U \cap Groups) \cup S |-> o[p].version]
      /\ upd.write = [p \in U \cup S \cup (DOMAIN u \ DOMAIN o) |->
           IF p \notin DOMAIN o THEN [version |-> 0, mod |-> u[p].mod, data |-> u[p].data]
           ELSE IF p \in D
                THEN [version |-> o[p].version + 1, mod |-> u[p].mod, data |-> u[p].data]
                ELSE [version |-> o[p].version, mod |-> None, data |-> None]]
  BY DEF Compute, ReadSet, WriteSet
<1> HIDE DEF upd, D, U, S
<1>3. /\ DOMAIN upd.read = (U \cap Groups) \cup S /\ \A p \in DOMAIN upd.read : upd.read[p] = o[p].version
      /\ DOMAIN upd.write = U \cup S \cup New(o, u)
  BY <1>2 DEF New
<1>4. \A p \in D : upd.write[p] = [version |-> o[p].version + 1, mod |-> u[p].mod, data |-> u[p].data]
  BY <1>0, <1>2
<1>5. \A p \in New(o, u) : upd.write[p] = [version |-> 0, mod |-> u[p].mod, data |-> u[p].data]
  BY <1>2 DEF New
<1>6. \A p \in (U \cup S) \ D : upd.write[p].version = o[p].version
  BY <1>0, <1>1, <1>2
<1>7. \A p \in D : o[p].version + 1 # o[p].version /\ upd.write[p].version # o[p].version
  <2> SUFFICES ASSUME NEW p \in D
               PROVE  o[p].version + 1 # o[p].version /\ upd.write[p].version # o[p].version
    OBVIOUS
  <2>1. o[p].version \in Nat
    BY <1>0, TreeVersion
  <2>2. upd.write[p] = [version |-> o[p].version + 1, mod |-> u[p].mod, data |-> u[p].data]
    BY <1>4
  <2> QED BY <2>1, <2>2
<1>8. Delta(upd) = D \cup New(o, u)
  <2>1. ASSUME NEW p \in D PROVE p \in Delta(upd)
    BY <1>0, <1>3, <1>7 DEF Delta
  <2>2. ASSUME NEW p \in New(o, u) PROVE p \in Delta(upd)
    BY <1>0, <1>1, <1>3 DEF Delta, New
  <2>3. ASSUME NEW p \in Delta(upd), p \notin D, p \notin New(o, u) PROVE FALSE
    BY <2>3, <1>0, <1>1, <1>3, <1>6 DEF Delta
  <2> QED BY <2>1, <2>2, <2>3
<1>9. \A p \in D : Line(p) \cap Groups \subseteq DOMAIN upd.read
  BY <1>0, <1>3
<1>10. \A p \in DOMAIN upd.write \ Delta(upd) : p \in DOMAIN upd.read
  BY <1>0, <1>3, <1>8
<1>11. DOMAIN upd.write \subseteq DOMAIN u /\ DOMAIN upd.read \subseteq DOMAIN o
  BY <1>0, <1>1, <1>3 DEF New
<1>12. ASSUME NEW l \in DOMAIN u \ {Root}, Parent[l] \in Delta(upd) PROVE l \in DOMAIN upd.write
  <2>1. CASE l \notin DOMAIN o
    BY <2>1, <1>3 DEF New
  <2>2. CASE l \in DOMAIN o
    <3>1. Parent[l] \in D
      BY <2>2, <1>8, <1>12 DEF IsTree, New
    <3>2. l \in U \/ l \in S
      BY <2>2, <3>1 DEF Same, S, U, D
    <3> QED BY <3>2, <1>3
  <2> QED BY <2>1, <2>2
<1> QED BY <1>3, <1>4, <1>5, <1>8, <1>9, <1>10, <1>11, <1>12 DEF D, upd

LEMMA FreshTaken ==
  ASSUME NEW o, NEW u, IsTree(o), IsTree(u), ~NoDifferences(o, u)
  PROVE  Accepts(o, Compute(o, u))
<1> DEFINE upd == Compute(o, u)
<1>1. \A p \in DOMAIN upd.read : p \in DOMAIN o /\ o[p].version = upd.read[p]
  BY ComputeFacts
<1>2. Delta(upd) # {}
  <2>1. PICK p \in Differing(o, u) : Root \in Line(p)
    BY DEF NoDifferences, Updated
  <2> QED BY <2>1, ComputeFacts
<1>3. ASSUME NEW p \in Delta(upd)
      PROVE  upd.write[p].version = IF p \in DOMAIN o THEN o[p].version + 1 ELSE 0
  <2>1. CASE p \in Differing(o, u)
    <3>1. upd.write[p] = [version |-> o[p].version + 1, mod |-> u[p].mod, data |-> u[p].data]
      BY <2>1, ComputeFacts
    <3>2. p \in DOMAIN o
      BY <2>1, DifferingBoth
    <3> QED BY <3>1, <3>2
  <2>2. CASE p \in New(o, u)
    <3>1. upd.write[p] = [version |-> 0, mod |-> u[p].mod, data |-> u[p].data]
      BY <2>2, ComputeFacts
    <3> QED BY <2>2, <3>1 DEF New
  <2> QED BY <1>3, <2>1, <2>2, ComputeFacts
<1> QED BY <1>1, <1>2, <1>3 DEF Accepts

-----------------------------------------------------------------------------
(* Two configurations that agree on the versions from the root down to g.  *)
Agree(o, c, g) ==
  \A l \in Line(g) : l \in DOMAIN o /\ l \in DOMAIN c /\ o[l].version = c[l].version

(* c was made later than o: below groups of equal versions it has the same *)
(* elements, in versions as high or higher, and equal versions are equal   *)
(* elements.                                                               *)
Later(o, c, p) ==
  /\ p \in DOMAIN o <=> p \in DOMAIN c
  /\ p \in DOMAIN o => /\ o[p].version <= c[p].version
                       /\ o[p].version = c[p].version => Alike(o[p], c[p])
Follows(o, c) == \A p \in Paths : (p = Root \/ Agree(o, c, Parent[p])) => Later(o, c, p)

LEMMA FollowsSelf ==
  ASSUME NEW o, IsTree(o)
  PROVE  Follows(o, o)
BY TreeVersion DEF Follows, Later, Alike

LEMMA LaterTransitive ==
  ASSUME NEW o, NEW c, NEW n, IsTree(o), IsTree(c), IsTree(n), NEW p \in Paths,
         Later(o, c, p), Later(c, n, p)
  PROVE  /\ Later(o, n, p)
         /\ p \in DOMAIN o /\ p \in DOMAIN n /\ o[p].version = n[p].version =>
              p \in DOMAIN c /\ o[p].version = c[p].version /\ c[p].version = n[p].version
<1>1. CASE p \in DOMAIN o
  <2>1. p \in DOMAIN c /\ p \in DOMAIN n
    BY <1>1 DEF Later
  <2>2. o[p].version \in Nat /\ c[p].version \in Nat /\ n[p].version \in Nat
    BY <1>1, <2>1, TreeVersion
  <2> QED BY <1>1, <2>1, <2>2 DEF Later, Alike
<1>2. CASE p \notin DOMAIN o
  BY <1>2 DEF Later
<1> QED BY <1>1, <1>2

LEMMA FollowsTransitive ==
  ASSUME NEW o, NEW c, NEW n, IsTree(o), IsTree(c), IsTree(n), Follows(o, c), Follows(c, n)
  PROVE  Follows(o, n)
<1> DEFINE Between(g) == Agree(o, n, g) => Agree(o, c, g) /\ Agree(c, n, g)
<1>1. Between(Root)
  <2> SUFFICES ASSUME Agree(o, n, Root) PROVE Agree(o, c, Root) /\ Agree(c, n, Root)
    OBVIOUS
  <2>1. Root \in Paths /\ Line(Root) = {Root}
    BY TreeAssumption DEF Line
  <2>2. Later(o, c, Root) /\ Later(c, n, Root)
    BY <2>1 DEF Follows
  <2>3. Root \in DOMAIN o /\ Root \in DOMAIN n /\ o[Root].version = n[Root].version
    BY <2>1 DEF Agree
  <2> QED BY <2>1, <2>2, <2>3, LaterTransitive DEF Agree
<1>2. ASSUME NEW g \in Paths, Between(Parent[g]) PROVE Between(g)
  <2> SUFFICES ASSUME Agree(o, n, g) PROVE Agree(o, c, g) /\ Agree(c, n, g)
    OBVIOUS
  <2>1. Line(g) = {g} \cup Line(Parent[g])
    BY LineFacts
  <2>2. Agree(o, c, Parent[g]) /\ Agree(c, n, Parent[g])
    BY <1>2, <2>1 DEF Agree
  <2>3. Later(o, c, g) /\ Later(c, n, g)
    BY <2>2 DEF Follows
  <2>4. g \in DOMAIN o /\ g \in DOMAIN n /\ o[g].version = n[g].version
    BY <2>1 DEF Agree
  <2> QED BY <2>1, <2>2, <2>3, <2>4, LaterTransitive DEF Agree
<1> SUFFICES ASSUME NEW p \in Paths, p = Root \/ Agree(o, n, Parent[p]) PROVE Later(o, n, p)
  BY DEF Follows
<1>3. Between(Parent[p])
  <2>1. /\ Parent[p] \in Paths /\ Parent[Parent[p]] \in Paths
        /\ Parent[Parent[Parent[p]]] = Root
    BY TreeAssumption
  <2> HIDE DEF Between
  <2>2. Between(Parent[Parent[p]])
    BY <1>1, <1>2, <2>1
  <2> QED BY <1>2, <2>1, <2>2
<1>4. Later(o, c, p) /\ Later(c, n, p)
  BY <1>3 DEF Follows
<1> QED BY <1>4, LaterTransitive

-----------------------------------------------------------------------------
(* What the orderers make of an update they accept.                        *)
Kept(c, upd, l) ==
  IF Parent[l] \in Delta(upd) THEN l \in DOMAIN upd.write ELSE l \in DOMAIN c

LEMMA ResultIs ==
  ASSUME NEW c, NEW upd
  PROVE  LET n == Result(c, upd) IN
         /\ \A q : q \in DOMAIN n <=> /\ q \in DOMAIN c \cup Delta(upd)
                                     /\ \A l \in Line(q) \ {Root} : Kept(c, upd, l)
         /\ \A p \in DOMAIN n : n[p] = IF p \in Delta(upd) THEN upd.write[p] ELSE c[p]
BY DEF Result, Kept

(* An update that Compute made of two trees.                               *)
Computed(upd) == \E o, u : IsTree(o) /\ IsTree(u) /\ upd = Compute(o, u)

LEMMA WrittenFacts ==
  ASSUME NEW upd, Computed(upd)
  PROVE  /\ \A p \in Delta(upd) : /\ p \in Paths /\ upd.write[p].version \in Nat
                                  /\ upd.write[p] = [version |-> upd.write[p].version,
                                                     mod |-> upd.write[p].mod, data |-> upd.write[p].data]
         /\ \A p \in DOMAIN upd.write \ Delta(upd) : p \in DOMAIN upd.read
         /\ Delta(upd) \subseteq DOMAIN upd.write
<1>1. PICK o, u : IsTree(o) /\ IsTree(u) /\ upd = Compute(o, u)
  BY DEF Computed
<1>2. Delta(upd) = Differing(o, u) \cup New(o, u)
  BY <1>1, ComputeFacts
<1>3. ASSUME NEW p \in Delta(upd)
      PROVE  /\ p \in Paths /\ upd.write[p].version \in Nat
             /\ upd.write[p] = [version |-> upd.write[p].version,
                                mod |-> upd.write[p].mod, data |-> upd.write[p].data]
  <2>1. CASE p \in Differing(o, u)
    <3>1. p \in DOMAIN o
      BY <1>1, <2>1, DifferingBoth
    <3>2. p \in Paths /\ o[p].version + 1 \in Nat
      BY <1>1, <3>1, TreeVersion
    <3>3. upd.write[p] = [version |-> o[p].version + 1, mod |-> u[p].mod, data |-> u[p].data]
      BY <1>1, <2>1, ComputeFacts
    <3> QED BY <3>2, <3>3
  <2>2. CASE p \in New(o, u)
    <3>1. p \in Paths
      BY <1>1, <2>2, TreeVersion DEF New
    <3>2. upd.write[p] = [version |-> 0, mod |-> u[p].mod, data |-> u[p].data]
      BY <1>1, <2>2, ComputeFacts
    <3> QED BY <3>1, <3>2
  <2> QED BY <1>2, <2>1, <2>2
<1>4. \A p \in DOMAIN upd.write \ Delta(upd) : p \in DOMAIN upd.read
  BY <1>1, ComputeFacts
<1> QED BY <1>3, <1>4 DEF Delta

LEMMA ResultTree ==
  ASSUME NEW c, NEW upd, IsTree(c), Computed(upd), Accepts(c, upd)
  PROVE  IsTree(Result(c, upd))
<1> DEFINE n == Result(c, upd)
<1>1. DOMAIN n \subseteq DOMAIN c \cup Delta(upd)
  BY ResultIs
<1>2. ASSUME NEW p \in DOMAIN n PROVE p \in Paths
  BY <1>1, WrittenFacts, TreeVersion
<1>3. ASSUME NEW p \in DOMAIN n
      PROVE  n[p].version \in Nat /\ n[p] = [version |-> n[p].version, mod |-> n[p].mod, data |-> n[p].data]
  <2>1. CASE p \in Delta(upd)
    <3>1. n[p] = upd.write[p]
      BY <2>1, ResultIs
    <3> QED BY <2>1, <3>1, WrittenFacts
  <2>2. CASE p \notin Delta(upd)
    <3>1. p \in DOMAIN c /\ n[p] = c[p]
      BY <2>2, <1>1, ResultIs
    <3>2. c[p].version \in Nat
      BY <3>1, TreeVersion
    <3>3. c[p] = [version |-> c[p].version, mod |-> c[p].mod, data |-> c[p].data]
      BY <3>1 DEF IsTree
    <3> QED BY <3>1, <3>2, <3>3
  <2> QED BY <2>1, <2>2
<1>4. ASSUME NEW p \in DOMAIN n PROVE Parent[p] \in DOMAIN n
  <2>0. p \in Paths
    BY <1>2
  <2>1. Line(Parent[p]) \subseteq Line(p) /\ Parent[p] \in Line(p)
    BY <2>0, LineFacts DEF Line
  <2>2. \A l \in Line(p) \ {Root} : Kept(c, upd, l)
    BY ResultIs
  <2>3. \A q \in DOMAIN upd.write : q \in DOMAIN c \cup Delta(upd)
    BY WrittenFacts DEF Accepts
  <2>4. Parent[p] \in DOMAIN c \cup Delta(upd)
    <3>1. CASE Parent[p] = Root
      BY <3>1 DEF IsTree
    <3>2. CASE Parent[p] # Root
      BY <3>2, <2>1, <2>2, <2>3 DEF Kept
    <3> QED BY <3>1, <3>2
  <2> QED BY <2>1, <2>2, <2>4, ResultIs
<1>5. Root \in DOMAIN n
  <2>1. Line(Root) = {Root} /\ Root \in DOMAIN c
    BY TreeAssumption DEF Line, IsTree
  <2> QED BY <2>1, ResultIs
<1>6. n = [p \in DOMAIN n |-> [version |-> n[p].version, mod |-> n[p].mod, data |-> n[p].data]]
  <2>1. n = [p \in DOMAIN n |-> n[p]]
    BY DEF Result
  <2> HIDE DEF n
  <2> QED BY <1>3, <2>1
<1> QED BY <1>2, <1>3, <1>4, <1>5, <1>6 DEF IsTree

LEMMA ResultFollows ==
  ASSUME NEW c, NEW upd, IsTree(c), Computed(upd), Accepts(c, upd)
  PROVE  Follows(c, Result(c, upd))
<1> DEFINE n == Result(c, upd)
<1>0. \A p \in Delta(upd) : upd.write[p].version = IF p \in DOMAIN c THEN c[p].version + 1 ELSE 0
  BY DEF Accepts
<1> SUFFICES ASSUME NEW p \in Paths, p = Root \/ Agree(c, n, Parent[p]) PROVE Later(c, n, p)
  BY DEF Follows
<1>1. p \in DOMAIN c <=> p \in DOMAIN n
  <2>1. CASE p = Root
    BY <2>1, ResultTree DEF IsTree
  <2>2. CASE p # Root
    <3>1. Parent[p] \in DOMAIN c /\ Parent[p] \in DOMAIN n /\ c[Parent[p]].version = n[Parent[p]].version
      BY <2>2 DEF Agree, Line
    <3>2. Parent[p] \notin Delta(upd)
      <4> SUFFICES ASSUME Parent[p] \in Delta(upd) PROVE FALSE
        OBVIOUS
      <4>1. n[Parent[p]] = upd.write[Parent[p]]
        BY <3>1, ResultIs
      <4>2. n[Parent[p]].version = c[Parent[p]].version + 1 /\ c[Parent[p]].version \in Nat
        BY <1>0, <3>1, <4>1, TreeVersion
      <4> QED BY <3>1, <4>2
    <3>3. Kept(c, upd, p) <=> p \in DOMAIN c
      BY <3>2 DEF Kept
    <3>4. ASSUME p \in DOMAIN n PROVE p \in DOMAIN c
      <4>1. p \in Line(p) \ {Root}
        BY <2>2 DEF Line
      <4> QED BY <3>3, <3>4, <4>1, ResultIs
    <3>5. ASSUME p \in DOMAIN c PROVE p \in DOMAIN n
      <4>1. Line(p) = {p} \cup Line(Parent[p])
        BY LineFacts
      <4>2. \A l \in Line(Parent[p]) \ {Root} : Kept(c, upd, l)
        BY <3>1, ResultIs
      <4> QED BY <3>3, <3>5, <4>1, <4>2, ResultIs
    <3> QED BY <3>4, <3>5
  <2> QED BY <2>1, <2>2
<1>2. ASSUME p \in DOMAIN c
      PROVE  c[p].version <= n[p].version /\ (c[p].version = n[p].version => Alike(c[p], n[p]))
  <2>1. c[p].version \in Nat
    BY <1>2, TreeVersion
  <2>2. CASE p \in Delta(upd)
    <3>1. n[p] = upd.write[p] /\ upd.write[p].version = c[p].version + 1
      BY <1>0, <1>1, <1>2, <2>2, ResultIs
    <3> QED BY <2>1, <3>1
  <2>3. CASE p \notin Delta(upd)
    <3>1. n[p] = c[p]
      BY <1>1, <1>2, <2>3, ResultIs
    <3> QED BY <2>1, <3>1 DEF Alike
  <2> QED BY <2>2, <2>3
<1> QED BY <1>1, <1>2 DEF Later

-----------------------------------------------------------------------------
(* The update that leads from o to u, accepted in a later configuration c. *)
(* What u leaves out of o has had nothing added to it in c.                *)
LEMMA ReadAgrees ==
  ASSUME NEW o, NEW u, NEW c, IsTree(o), IsTree(u), IsTree(c), Accepts(c, Compute(o, u)),
         NEW p \in Differing(o, u)
  PROVE  p \in Paths /\ (p \in Groups => Agree(o, c, p)) /\ (p # Root => Agree(o, c, Parent[p]))
<1> DEFINE upd == Compute(o, u)
<1>1. p \in DOMAIN o /\ p \in Paths
  BY DifferingBoth, TreeVersion
<1>2. \A l \in Line(p) \cap Groups : l \in DOMAIN upd.read
  BY ComputeFacts
<1>3. \A l \in Line(p) \cap Groups : l \in DOMAIN o /\ l \in DOMAIN c /\ o[l].version = c[l].version
  <2>1. \A l \in DOMAIN upd.read : l \in DOMAIN o /\ upd.read[l] = o[l].version
    BY ComputeFacts
  <2>2. \A l \in DOMAIN upd.read : l \in DOMAIN c /\ c[l].version = upd.read[l]
    BY DEF Accepts
  <2> QED BY <1>2, <2>1, <2>2
<1>4. Line(p) = {p} \cup Line(Parent[p]) /\ Line(Parent[p]) \subseteq Groups
  BY <1>1, LineFacts
<1> QED BY <1>1, <1>3, <1>4 DEF Agree

LEMMA UpdateMerges ==
  ASSUME NEW o, NEW u, NEW c, IsTree(o), IsTree(u), IsTree(c), Follows(o, c),
         Accepts(c, Compute(o, u)), DOMAIN o \subseteq DOMAIN u \/ c = o
  PROVE  Merged(o, u, c, Result(c, Compute(o, u)))
<1> DEFINE upd == Compute(o, u)
           n == Result(c, upd)
           D == Differing(o, u)
<1>1. /\ D \subseteq DOMAIN o \cap DOMAIN u
      /\ \A l \in DOMAIN o \cup DOMAIN u : l # Root /\ Parent[l] \in DOMAIN o \cap DOMAIN u
              /\ (l \notin DOMAIN o \/ l \notin DOMAIN u) => Parent[l] \in D
  BY DifferingBoth
<1>2. /\ Delta(upd) = D \cup New(o, u)
      /\ DOMAIN upd.write \subseteq DOMAIN u
      /\ \A l \in DOMAIN u \ {Root} : Parent[l] \in Delta(upd) => l \in DOMAIN upd.write
  BY ComputeFacts
(* Members of a differing group, and differing elements, are as they were. *)
<1>3. ASSUME NEW l \in Paths, l # Root, Parent[l] \in D PROVE l \in DOMAIN o <=> l \in DOMAIN c
  <2>1. Parent[l] \in Groups
    BY LineFacts
  <2>2. Agree(o, c, Parent[l])
    BY <1>3, <2>1, ReadAgrees
  <2> QED BY <2>2 DEF Follows, Later
<1>4. ASSUME NEW p \in D PROVE p \in Paths /\ p \in DOMAIN o /\ p \in DOMAIN u /\ p \in DOMAIN c /\ Alike(c[p], o[p])
  <2>1. p \in Paths /\ p \in DOMAIN o /\ p \in DOMAIN u
    BY <1>1, TreeVersion
  <2>2. Later(o, c, p)
    BY <2>1, ReadAgrees DEF Follows
  <2>3. p \in DOMAIN c /\ p \in Delta(upd)
    BY <1>2, <2>1, <2>2 DEF Later
  <2>4. upd.write[p] = [version |-> o[p].version + 1, mod |-> u[p].mod, data |-> u[p].data]
    BY ComputeFacts
  <2>5. upd.write[p].version = c[p].version + 1
    BY <2>3 DEF Accepts
  <2>6. o[p].version \in Nat /\ c[p].version \in Nat
    BY <2>1, <2>3, TreeVersion
  <2>7. o[p].version = c[p].version
    BY <2>4, <2>5, <2>6
  <2> QED BY <2>1, <2>2, <2>3, <2>7 DEF Later, Alike
<1>5. ASSUME NEW p \in DOMAIN u \ DOMAIN o
      PROVE  \E t \in Line(p) \ {Root} : /\ t \in Paths /\ t \in DOMAIN u \ DOMAIN o /\ Parent[t] \in D
                                         /\ t \notin DOMAIN c
  <2>1. p \in Paths /\ Line(p) \subseteq DOMAIN u
    BY TreeVersion, TreeLine
  <2>2. PICK t \in Line(p) \ {Root} : t \notin DOMAIN o /\ Parent[t] \in DOMAIN o
    BY <2>1, HighestMissing
  <2>3. t \in DOMAIN u /\ t \in Paths /\ Parent[t] \in DOMAIN u
    BY <2>1, TreeVersion
  <2>4. Parent[t] \in D
    BY <1>1, <2>2, <2>3
  <2> QED BY <1>3, <2>2, <2>3, <2>4
<1>6. ASSUME NEW p \in DOMAIN u \ DOMAIN o PROVE p \notin DOMAIN c
  BY <1>5, TreeLine
<1>7. ASSUME NEW q \in DOMAIN n PROVE q \in (DOMAIN c \cup (DOMAIN u \ DOMAIN o)) \ (DOMAIN o \ DOMAIN u)
  <2>1. q \in DOMAIN c \cup Delta(upd) /\ \A l \in Line(q) \ {Root} : Kept(c, upd, l)
    BY ResultIs
  <2>2. q \in DOMAIN c \cup (DOMAIN u \ DOMAIN o)
    BY <1>2, <1>4, <2>1 DEF New
  <2>3. ASSUME q \in DOMAIN o, q \notin DOMAIN u PROVE FALSE
    <3>1. q \in Paths /\ Line(q) \subseteq DOMAIN o
      BY <2>3, TreeVersion, TreeLine
    <3>2. PICK t \in Line(q) \ {Root} : t \notin DOMAIN u /\ Parent[t] \in DOMAIN u
      BY <2>3, <3>1, HighestMissing
    <3>3. t \in DOMAIN o /\ Parent[t] \in DOMAIN o
      BY <3>1, <3>2, TreeVersion
    <3>4. Parent[t] \in D
      BY <1>1, <3>2, <3>3
    <3> QED BY <1>2, <2>1, <3>2, <3>4 DEF Kept
  <2> QED BY <2>2, <2>3
<1>8. ASSUME NEW q \in (DOMAIN c \cup (DOMAIN u \ DOMAIN o)) \ (DOMAIN o \ DOMAIN u) PROVE q \in DOMAIN n
  <2>0. q \in Paths
    BY TreeVersion
  <2>1. q \in DOMAIN c \cup Delta(upd)
    BY <1>2 DEF New
  <2>2. ASSUME NEW l \in Line(q) \ {Root} PROVE Kept(c, upd, l)
    <3>1. CASE q \in DOMAIN c
      <4>1. l \in DOMAIN c /\ l \in Paths /\ Parent[l] \in DOMAIN c
        BY <3>1, TreeLine, TreeVersion
      <4>2. CASE Parent[l] \in Delta(upd)
        <5>1. Parent[l] \in D
          BY <1>2, <1>6, <4>1, <4>2 DEF New
        <5>2. l \in DOMAIN o
          BY <1>3, <4>1, <5>1
        <5>3. l \in DOMAIN u
          <6>1. CASE DOMAIN o \subseteq DOMAIN u
            BY <5>2, <6>1
          <6>2. CASE c = o
            BY <3>1, <6>2, TreeLine
          <6> QED BY <6>1, <6>2
        <5> QED BY <1>2, <4>2, <5>3 DEF Kept
      <4>3. CASE Parent[l] \notin Delta(upd)
        BY <4>1, <4>3 DEF Kept
      <4> QED BY <4>2, <4>3
    <3>2. CASE q \in DOMAIN u \ DOMAIN o
      <4>1. l \in DOMAIN u /\ l \in Paths /\ Parent[l] \in DOMAIN u
        BY <3>2, TreeLine, TreeVersion
      <4>2. CASE Parent[l] \in Delta(upd)
        BY <1>2, <4>1, <4>2 DEF Kept
      <4>3. CASE Parent[l] \notin Delta(upd)
        <5>1. Parent[l] \in DOMAIN o /\ Parent[l] \notin D
          BY <1>2, <4>1, <4>3 DEF New
        <5>2. l \in DOMAIN o
          BY <1>1, <4>1, <5>1
        <5>3. PICK t \in Line(q) \ {Root} : /\ t \in Paths /\ t \in DOMAIN u \ DOMAIN o /\ Parent[t] \in D
          BY <1>5, <3>2
        <5>4. Agree(o, c, Parent[t])
          BY <5>3, LineFacts, ReadAgrees
        <5>5. l \in Line(Parent[t])
          <6>1. t \notin Line(l)
            BY <5>2, <5>3, TreeLine
          <6>2. l # t
            BY <5>2, <5>3
          <6> QED BY <2>0, <6>1, <6>2, TreeAssumption DEF Line
        <5> QED BY <4>3, <5>4, <5>5 DEF Agree, Kept
      <4> QED BY <4>2, <4>3
    <3> QED BY <3>1, <3>2
  <2> QED BY <2>1, <2>2, ResultIs
<1>9. ASSUME NEW p \in DOMAIN n
      PROVE  IF p \in Changed(o, u) \cup (DOMAIN u \ DOMAIN o) THEN Alike(n[p], u[p]) ELSE Alike(n[p], c[p])
  <2>1. CASE p \in DOMAIN u \ DOMAIN o
    <3>1. n[p] = upd.write[p] /\ upd.write[p] = [version |-> 0, mod |-> u[p].mod, data |-> u[p].data]
      BY <1>2, <2>1, ComputeFacts, ResultIs DEF New
    <3> QED BY <2>1, <3>1 DEF Alike
  <2>2. CASE p \in D
    <3>1. n[p] = upd.write[p]
      BY <1>2, <2>2, ResultIs
    <3>2. upd.write[p] = [version |-> o[p].version + 1, mod |-> u[p].mod, data |-> u[p].data]
      BY <2>2, ComputeFacts
    <3>3. Alike(n[p], u[p])
      BY <3>1, <3>2 DEF Alike
    <3>4. p \notin Changed(o, u) => Alike(n[p], c[p])
      BY <1>4, <2>2, <3>3 DEF Changed, Alike
    <3> QED BY <1>4, <2>2, <3>3, <3>4
  <2>3. CASE p \notin D /\ p \notin DOMAIN u \ DOMAIN o
    <3>1. n[p] = c[p]
      BY <1>2, <2>3, ResultIs DEF New
    <3>2. p \notin Changed(o, u)
      BY <2>3 DEF Changed, Differing
    <3> QED BY <2>3, <3>1, <3>2 DEF Alike
  <2> QED BY <2>1, <2>2, <2>3
<1>10. ASSUME NEW p \in Changed(o, u) PROVE p \in DOMAIN c /\ Alike(c[p], o[p])
  <2>1. p \in D
    BY DEF Changed, Differing
  <2> QED BY <1>4, <2>1
<1>11. DOMAIN n = (DOMAIN c \cup (DOMAIN u \ DOMAIN o)) \ (DOMAIN o \ DOMAIN u)
  BY <1>7, <1>8
<1> HIDE DEF n
<1>12. Merged(o, u, c, n)
  BY <1>6, <1>9, <1>10, <1>11 DEF Merged
<1> QED BY <1>12 DEF n

-----------------------------------------------------------------------------
(* Lists of consenters.                                                    *)

(* Induction over data: every set of naturals that is not empty has a      *)
(* least element, because finite sets are well-founded under inclusion.    *)
LEMMA Least ==
  ASSUME NEW T, T \subseteq Nat, T # {}
  PROVE  \E m \in T : \A n \in T : m <= n
<1> DEFINE R == StrictSubsetOrdering(Nat)
           F == FiniteSubsetsOf(Nat)
           G == {0 .. n : n \in T}
<1>1. IsWellFoundedOn(R, F)
  BY FS_StrictSubsetOrderingWellFounded
<1>2. G \subseteq F /\ G # {}
  <2>1. \A n \in T : 0 .. n \subseteq Nat /\ IsFiniteSet(0 .. n)
    BY FS_Interval
  <2> QED BY <2>1 DEF FiniteSubsetsOf
<1>3. PICK x \in G : \A y \in G : <<y, x>> \notin R
  <2> HIDE DEF R, F, G
  <2> QED BY <1>1, <1>2, WFMin
<1>4. PICK m \in T : x = 0 .. m
  OBVIOUS
<1>5. ASSUME NEW n \in T, n < m PROVE FALSE
  <2>1. 0 .. n \subseteq 0 .. m /\ 0 .. n # 0 .. m /\ 0 .. n \subseteq Nat /\ 0 .. m \subseteq Nat
    <3>1. m \in 0 .. m /\ m \notin 0 .. n
      BY <1>5
    <3> QED BY <1>5, <3>1
  <2>2. <<0 .. n, 0 .. m>> \in R
    BY <2>1 DEF StrictSubsetOrdering
  <2> QED BY <1>3, <1>4, <2>2
<1> QED BY <1>5

LEMMA Greatest ==
  ASSUME NEW n \in Nat, NEW T, T \subseteq 1 .. n, T # {}
  PROVE  \E m \in T : \A k \in T : k <= m
<1> DEFINE U == {n - t : t \in T}
<1>1. U \subseteq Nat /\ U # {}
  <2>1. \A t \in T : t \in 1 .. n /\ n - t \in Nat
    OBVIOUS
  <2> QED BY <2>1
<1>2. PICK l \in U : \A k \in U : l <= k
  <2> HIDE DEF U
  <2> QED BY <1>1, Least
<1>3. PICK m \in T : l = n - m
  OBVIOUS
<1>4. ASSUME NEW k \in T PROVE k <= m
  <2>1. n - k \in U /\ k \in 1 .. n /\ m \in 1 .. n
    OBVIOUS
  <2>2. n - m <= n - k
    BY <1>2, <1>3, <2>1
  <2> QED BY <2>1, <2>2
<1> QED BY <1>4

(* The place of i among the elements of T.                                 *)
UpTo(T, i) == {j \in T : j <= i}

LEMMA Places ==
  ASSUME NEW n \in Nat, NEW T, T \subseteq 1 .. n
  PROVE  /\ Cardinality(T) \in Nat
         /\ \A i \in T : Cardinality(UpTo(T, i)) \in 1 .. Cardinality(T)
         /\ \A i, j \in T : i < j => Cardinality(UpTo(T, i)) < Cardinality(UpTo(T, j))
         /\ \A k \in 1 .. Cardinality(T) : \E i \in T : Cardinality(UpTo(T, i)) = k
<1>1. IsFiniteSet(T)
  <2>1. IsFiniteSet(1 .. n) /\ T \in SUBSET (1 .. n)
    BY FS_Interval
  <2> QED BY <2>1, FS_Subset
<1>2. ASSUME NEW i
      PROVE  /\ IsFiniteSet(UpTo(T, i)) /\ Cardinality(UpTo(T, i)) \in Nat
             /\ Cardinality(UpTo(T, i)) <= Cardinality(T)
  <2>1. UpTo(T, i) \in SUBSET T
    BY DEF UpTo
  <2> QED BY <1>1, <2>1, FS_Subset, FS_CardinalityType
<1>3. Cardinality(T) \in Nat
  BY <1>1, FS_CardinalityType
<1>4. ASSUME NEW i \in T PROVE Cardinality(UpTo(T, i)) \in 1 .. Cardinality(T)
  <2>1. i \in UpTo(T, i)
    BY DEF UpTo
  <2>2. Cardinality(UpTo(T, i)) # 0
    BY <1>2, <2>1, FS_EmptySet
  <2> QED BY <1>2, <1>3, <2>2
<1>5. ASSUME NEW i \in T, NEW j \in T, i < j
      PROVE  Cardinality(UpTo(T, i)) < Cardinality(UpTo(T, j))
  <2>0. \A t \in T : t \in Int
    OBVIOUS
  <2>1. UpTo(T, i) \in SUBSET UpTo(T, j)
    <3>1. \A t \in T : t <= i => t <= j
      BY <1>5, <2>0
    <3> QED BY <3>1 DEF UpTo
  <2>2. j \in UpTo(T, j) /\ j \notin UpTo(T, i)
    <3>1. j <= j /\ ~(j <= i)
      BY <1>5, <2>0
    <3> QED BY <3>1 DEF UpTo
  <2>3. /\ Cardinality(UpTo(T, i)) <= Cardinality(UpTo(T, j))
        /\ Cardinality(UpTo(T, j)) = Cardinality(UpTo(T, i)) => UpTo(T, j) = UpTo(T, i)
    BY <1>2, <2>1, FS_Subset
  <2> QED BY <1>2, <2>2, <2>3
<1>6. ASSUME NEW k \in 1 .. Cardinality(T) PROVE \E i \in T : Cardinality(UpTo(T, i)) = k
  <2> DEFINE A == {i \in T : Cardinality(UpTo(T, i)) >= k}
  <2>1. A # {}
    <3>1. T # {}
      BY <1>3, <1>6, FS_EmptySet
    <3>2. PICK m \in T : \A i \in T : i <= m
      BY <3>1, Greatest
    <3>3. UpTo(T, m) = T
      BY <3>2 DEF UpTo
    <3> QED BY <1>3, <1>6, <3>3
  <2>2. PICK i \in A : \A j \in A : i <= j
    <3>1. A \subseteq Nat
      <4>1. \A t \in T : t \in Nat
        OBVIOUS
      <4> QED BY <4>1
    <3> HIDE DEF A
    <3> QED BY <2>1, <3>1, Least
  <2>3. ASSUME Cardinality(UpTo(T, i)) # k PROVE FALSE
    <3> DEFINE B == UpTo(T, i) \ {i}
    <3>1. i \in UpTo(T, i) /\ IsFiniteSet(UpTo(T, i)) /\ Cardinality(UpTo(T, i)) \in Nat
      BY <1>2 DEF UpTo
    <3>2. Cardinality(B) = Cardinality(UpTo(T, i)) - 1 /\ IsFiniteSet(B)
      BY <3>1, FS_RemoveElement
    <3>3. Cardinality(B) >= k /\ Cardinality(B) \in Nat
      BY <1>6, <2>2, <2>3, <3>1, <3>2
    <3>4. B # {}
      BY <1>3, <1>6, <3>2, <3>3, FS_EmptySet
    <3>5. B \subseteq T
      BY DEF UpTo
    <3>6. PICK m \in B : \A j \in B : j <= m
      BY <3>4, <3>5, Greatest
    <3>7. UpTo(T, m) = B
      <4>1. m \in T /\ m <= i /\ m # i /\ \A t \in T : t \in Int
        BY <3>6 DEF UpTo
      <4>2. \A t \in T : t <= m => t <= i /\ t # i
        BY <4>1
      <4>3. \A t \in T : t <= i /\ t # i => t <= m
        BY <3>6 DEF UpTo
      <4> QED BY <4>2, <4>3 DEF UpTo
    <3>8. m \in A
      BY <3>3, <3>5, <3>6, <3>7
    <3>9. m < i
      BY <3>6 DEF UpTo
    <3> QED BY <2>2, <3>8, <3>9
  <2> QED BY <2>3
<1> QED BY <1>3, <1>4, <1>5, <1>6

(* The places of the hosts other than h.                                   *)
Staying(hosts, h) == {i \in DOMAIN hosts : hosts[i] # h}

(* The elements of s at these places, which are in order.                  *)
Rising(at) == \A i, j \in DOMAIN at : i < j => at[i] < at[j]
Picked(s, at) == [k \in DOMAIN at |-> s[at[k]]]

LEMMA WithoutIs ==
  ASSUME NEW n \in Nat, NEW hosts, DOMAIN hosts = 1 .. n, NEW h
  PROVE  /\ Staying(hosts, h) \subseteq 1 .. n /\ Cardinality(Staying(hosts, h)) \in Nat
         /\ \E at \in [1 .. Cardinality(Staying(hosts, h)) -> Staying(hosts, h)] :
              Rising(at) /\ Without(hosts, h) = Picked(hosts, at)
<1> DEFINE T == Staying(hosts, h)
           At(k) == CHOOSE i \in T : Cardinality(UpTo(T, i)) = k
           at == [k \in 1 .. Cardinality(T) |-> At(k)]
<1>1. T \subseteq 1 .. n
  BY DEF Staying
<1>2. Without(hosts, h) = [k \in 1 .. Cardinality(T) |-> hosts[At(k)]]
  BY DEF Without, UpTo, Staying
<1> HIDE DEF T
<1>3. /\ Cardinality(T) \in Nat
      /\ \A i, j \in T : i < j => Cardinality(UpTo(T, i)) < Cardinality(UpTo(T, j))
      /\ \A k \in 1 .. Cardinality(T) : \E i \in T : Cardinality(UpTo(T, i)) = k
      /\ \A i \in T : Cardinality(UpTo(T, i)) \in 1 .. Cardinality(T)
  BY <1>1, Places
<1>4. \A k \in 1 .. Cardinality(T) : At(k) \in T /\ Cardinality(UpTo(T, At(k))) = k
  BY <1>3
<1> HIDE DEF At
<1>5. at \in [1 .. Cardinality(T) -> T] /\ DOMAIN at = 1 .. Cardinality(T)
  BY <1>4
<1>6. ASSUME NEW i \in DOMAIN at, NEW j \in DOMAIN at, i < j PROVE at[i] < at[j]
  <2>1. at[i] \in T /\ at[j] \in T /\ at[i] \in 1 .. n /\ at[j] \in 1 .. n
    BY <1>1, <1>5
  <2>2. Cardinality(UpTo(T, at[i])) = i /\ Cardinality(UpTo(T, at[j])) = j
    BY <1>4
  <2>3. i \in 1 .. Cardinality(T) /\ j \in 1 .. Cardinality(T)
    OBVIOUS
  <2>4. at[i] = at[j] \/ at[j] < at[i] \/ at[i] < at[j]
    BY <2>1
  <2>5. CASE at[j] < at[i]
    <3>1. j < i
      BY <1>3, <2>1, <2>2, <2>5
    <3> QED BY <1>3, <1>6, <2>3, <3>1
  <2>6. CASE at[i] = at[j]
    BY <1>3, <1>6, <2>2, <2>3, <2>6
  <2> QED BY <2>4, <2>5, <2>6
<1>7. Without(hosts, h) = Picked(hosts, at)
  BY <1>2, <1>5 DEF Picked
<1> HIDE DEF at
<1>8. Rising(at)
  BY <1>6 DEF Rising
<1> QED BY <1>1, <1>3, <1>5, <1>7, <1>8 DEF T

(* The highest id that is remembered, if any, is that of the last one.     *)
LEMMA HighestIs ==
  ASSUME NEW n \in Nat, NEW nodes, DOMAIN nodes = 1 .. n,
         \A i \in DOMAIN nodes : nodes[i].id \in Nat
  PROVE  HighestId(nodes) \in Nat /\ \A j \in Remembered(nodes) : nodes[j].id <= HighestId(nodes)
<1> DEFINE M == Remembered(nodes)
<1>1. M \subseteq 1 .. n /\ \A i, j \in M : j < i => nodes[j].id < nodes[i].id
  <2>1. \A i, j \in M : j < i => j \in 1 .. i - 1
    BY DEF Remembered
  <2> QED BY <2>1 DEF Remembered
<1>2. CASE M = {}
  BY <1>2 DEF HighestId
<1>3. CASE M # {}
  <2> DEFINE last == CHOOSE k \in M : \A j \in M : j <= k
  <2>1. \E k \in M : \A j \in M : j <= k
    <3> HIDE DEF M
    <3> QED BY <1>1, <1>3, Greatest
  <2>2. last \in M /\ \A j \in M : j <= last
    BY <2>1
  <2>3. HighestId(nodes) = nodes[last].id
    BY <1>3 DEF HighestId
  <2> HIDE DEF last, M
  <2>4. ASSUME NEW j \in M PROVE nodes[j].id <= nodes[last].id
    <3>1. j \in 1 .. n /\ last \in 1 .. n /\ j <= last /\ nodes[last].id \in Nat /\ nodes[j].id \in Nat
      BY <1>1, <2>2
    <3>2. CASE j = last
      BY <3>1, <3>2
    <3>3. CASE j < last
      <4>1. nodes[j].id < nodes[last].id
        BY <1>1, <2>2, <3>3
      <4> QED BY <3>1, <4>1
    <3> QED BY <3>1, <3>2, <3>3
  <2>5. nodes[last].id \in Nat
    BY <1>1, <2>2
  <2> QED BY <2>3, <2>4, <2>5 DEF M
<1> QED BY <1>2, <1>3

(* What createBrfOrderersUpdEnvelope makes of a list: who is remembered    *)
(* keeps the id, the others get higher ones, and all are different.        *)
RememberedAs(nodes, h) == {j \in Remembered(nodes) : nodes[j].host = h}
NewUpTo(nodes, hosts, i) == {j \in 1 .. i : RememberedAs(nodes, hosts[j]) = {}}
IdOf(nodes, hosts, i) ==
  LET Known == RememberedAs(nodes, hosts[i])
  IN IF Known = {} THEN HighestId(nodes) + Cardinality(NewUpTo(nodes, hosts, i))
     ELSE nodes[CHOOSE j \in Known : \A k \in Known : k <= j].id

(* The host at i keeps its id, if it is remembered.                        *)
Keeps(nodes, hosts, new, i) == \A j \in RememberedAs(nodes, hosts[i]) : new[i].id = nodes[j].id

(* Functions on 1 .. m are sequences.                                      *)
IsList(s, m) == DOMAIN s = 1 .. m /\ s = [i \in 1 .. m |-> s[i]]

LEMMA Sequence ==
  ASSUME NEW m \in Nat, NEW s, IsList(s, m)
  PROVE  Len(s) = m /\ s \in Seq({s[i] : i \in DOMAIN s})
<1> DEFINE R == {s[i] : i \in DOMAIN s}
<1>1. s \in [1 .. m -> R]
  BY DEF IsList
<1> HIDE DEF R
<1>2. s \in Seq(R)
  BY <1>1
<1>3. Len(s) = m
  BY <1>2 DEF IsList
<1> QED BY <1>2, <1>3 DEF R

LEMMA BftIs ==
  ASSUME NEW n \in Nat, NEW nodes, DOMAIN nodes = 1 .. n,
         \A i \in DOMAIN nodes : nodes[i].id \in Nat \ {0},
         \A i, j \in DOMAIN nodes :
            nodes[i].host = nodes[j].host \/ nodes[i].id = nodes[j].id => i = j,
         NEW m \in Nat, NEW hosts, DOMAIN hosts = 1 .. m,
         \A i, j \in DOMAIN hosts : hosts[i] = hosts[j] => i = j
  PROVE  LET new == BftList(nodes, hosts) IN
         /\ IsList(new, m)
         /\ \A i \in 1 .. m : new[i].host = hosts[i] /\ new[i].id \in Nat \ {0}
         /\ \A i, j \in 1 .. m : new[i].id = new[j].id => i = j
         /\ \A i \in 1 .. m : Keeps(nodes, hosts, new, i)
         /\ \A i \in 1 .. m : RememberedAs(nodes, hosts[i]) = {} =>
               \A j \in Remembered(nodes) : nodes[j].id < new[i].id
<1> DEFINE Known(h) == RememberedAs(nodes, h)
           Unknown(t) == NewUpTo(nodes, hosts, t)
           Id(t) == IdOf(nodes, hosts, t)
           new == BftList(nodes, hosts)
           H == HighestId(nodes)
<1>1. new = [i \in 1 .. m |-> [host |-> hosts[i], id |-> Id(i), msp |-> None, client |-> "server"]]
  BY DEF BftList, RememberedAs, NewUpTo, IdOf
<1>2. H \in Nat /\ \A j \in Remembered(nodes) : nodes[j].id <= H
  BY HighestIs DEF H
<1>3. Remembered(nodes) \subseteq 1 .. n
  BY DEF Remembered
<1> HIDE DEF Known, Unknown, Id, new, H
<1>4. ASSUME NEW i \in 1 .. m, NEW j \in Known(hosts[i]) PROVE Id(i) = nodes[j].id
  <2>1. \A k \in Known(hosts[i]) : k = j
    BY <1>3 DEF Known, RememberedAs
  <2>2. j <= j
    BY <1>3 DEF Known, RememberedAs
  <2>3. (CHOOSE k \in Known(hosts[i]) : \A l \in Known(hosts[i]) : l <= k) = j
    BY <2>1, <2>2
  <2> QED BY <2>1, <2>3 DEF Id, IdOf, Known
<1>5. ASSUME NEW i \in 1 .. m
      PROVE  /\ IsFiniteSet(Unknown(i)) /\ Cardinality(Unknown(i)) \in Nat
             /\ Known(hosts[i]) = {} => Cardinality(Unknown(i)) > 0
  <2>1. Unknown(i) \in SUBSET (1 .. i) /\ IsFiniteSet(1 .. i)
    BY FS_Interval DEF Unknown, NewUpTo
  <2>2. IsFiniteSet(Unknown(i)) /\ Cardinality(Unknown(i)) \in Nat
    BY <2>1, FS_Subset, FS_CardinalityType
  <2>3. Known(hosts[i]) = {} => i \in Unknown(i)
    BY DEF Unknown, NewUpTo, Known
  <2> QED BY <2>2, <2>3, FS_EmptySet
<1>6. ASSUME NEW i \in 1 .. m, Known(hosts[i]) = {}
      PROVE  Id(i) \in Nat /\ Id(i) = H + Cardinality(Unknown(i)) /\ H < Id(i)
  BY <1>2, <1>5, <1>6 DEF H, Id, IdOf, Known, Unknown
<1>7. ASSUME NEW i \in 1 .. m, Known(hosts[i]) # {}
      PROVE  \E j \in Known(hosts[i]) : j \in 1 .. n /\ Id(i) = nodes[j].id /\ nodes[j].id <= H
  BY <1>2, <1>3, <1>4, <1>7 DEF Known, RememberedAs
<1>8. ASSUME NEW i \in 1 .. m PROVE Id(i) \in Nat \ {0}
  BY <1>2, <1>6, <1>7
<1>9. ASSUME NEW i \in 1 .. m, NEW j \in 1 .. m, i < j, Known(hosts[j]) = {}, Known(hosts[i]) = {}
      PROVE  Id(i) # Id(j)
  <2>1. Unknown(i) \in SUBSET Unknown(j)
    <3>1. \A k \in 1 .. i : k \in 1 .. j
      BY <1>9
    <3> QED BY <3>1 DEF Unknown, NewUpTo
  <2>2. j \in Unknown(j) /\ j \notin Unknown(i)
    BY <1>9 DEF Unknown, NewUpTo, Known
  <2>3. Cardinality(Unknown(i)) # Cardinality(Unknown(j))
    BY <1>5, <2>1, <2>2, FS_Subset
  <2>4. /\ Id(i) = H + Cardinality(Unknown(i)) /\ Id(j) = H + Cardinality(Unknown(j))
        /\ H \in Nat /\ Cardinality(Unknown(i)) \in Nat /\ Cardinality(Unknown(j)) \in Nat
    BY <1>2, <1>5, <1>6, <1>9
  <2> QED BY <2>3, <2>4
<1>10. ASSUME NEW i \in 1 .. m, NEW j \in 1 .. m, Known(hosts[i]) = {}, Known(hosts[j]) # {}
       PROVE  Id(i) # Id(j)
  <2>1. Id(i) \in Nat /\ H < Id(i) /\ H \in Nat
    BY <1>2, <1>6, <1>10
  <2>2. PICK l \in Known(hosts[j]) : l \in 1 .. n /\ Id(j) = nodes[l].id /\ nodes[l].id <= H
    BY <1>7, <1>10
  <2>3. nodes[l].id \in Nat
    BY <2>2
  <2> QED BY <2>1, <2>2, <2>3
<1>11. ASSUME NEW i \in 1 .. m, NEW j \in 1 .. m, Known(hosts[i]) # {}, Known(hosts[j]) # {}, Id(i) = Id(j)
       PROVE  i = j
  <2>1. PICK k \in Known(hosts[i]) : k \in 1 .. n /\ Id(i) = nodes[k].id
    BY <1>7, <1>11
  <2>2. PICK l \in Known(hosts[j]) : l \in 1 .. n /\ Id(j) = nodes[l].id
    BY <1>7, <1>11
  <2>3. k = l
    BY <1>11, <2>1, <2>2
  <2>4. hosts[i] = hosts[j]
    BY <2>1, <2>2, <2>3 DEF Known, RememberedAs
  <2> QED BY <2>4
<1>12. ASSUME NEW i \in 1 .. m, NEW j \in 1 .. m, Id(i) = Id(j) PROVE i = j
  <2>1. CASE Known(hosts[i]) = {} /\ Known(hosts[j]) = {}
    <3>1. ~(i < j) /\ ~(j < i)
      BY <1>9, <1>12, <2>1
    <3> QED BY <3>1
  <2> QED BY <1>10, <1>11, <1>12, <2>1
<1>13. \A i \in 1 .. m : new[i].host = hosts[i] /\ new[i].id = Id(i)
  BY <1>1
<1>14. IsList(new, m)
  BY <1>1 DEF IsList
<1>15. ASSUME NEW i \in 1 .. m, Known(hosts[i]) = {}, NEW j \in Remembered(nodes)
       PROVE  nodes[j].id < Id(i)
  <2>1. j \in 1 .. n /\ nodes[j].id \in Nat /\ nodes[j].id <= H /\ H < Id(i) /\ Id(i) \in Nat
    BY <1>2, <1>3, <1>6, <1>15
  <2> QED BY <1>2, <2>1
<1>16. \A i \in 1 .. m : \A j \in Known(hosts[i]) : Id(i) = nodes[j].id
  BY <1>4
<1>17. /\ \A i \in 1 .. m : new[i].host = hosts[i] /\ new[i].id \in Nat \ {0}
       /\ \A i, j \in 1 .. m : new[i].id = new[j].id => i = j
  <2>1. ASSUME NEW i \in 1 .. m PROVE new[i].host = hosts[i] /\ new[i].id \in Nat \ {0}
    <3>1. new[i].id = Id(i) /\ new[i].host = hosts[i]
      BY <1>13
    <3> QED BY <1>8, <3>1
  <2>2. ASSUME NEW i \in 1 .. m, NEW j \in 1 .. m, new[i].id = new[j].id PROVE i = j
    <3>1. Id(i) = Id(j)
      BY <1>13, <2>2
    <3> QED BY <1>12, <3>1
  <2> QED BY <2>1, <2>2
<1>18. /\ \A i \in 1 .. m : Keeps(nodes, hosts, new, i)
       /\ \A i \in 1 .. m : Known(hosts[i]) = {} =>
             \A j \in Remembered(nodes) : nodes[j].id < new[i].id
  BY <1>13, <1>15, <1>16 DEF Keeps, Known
<1> QED BY <1>14, <1>17, <1>18 DEF Known, new

LEMMA AscendingRemembered ==
  ASSUME NEW n \in Nat, NEW nodes, DOMAIN nodes = 1 .. n,
         \A i \in DOMAIN nodes : nodes[i].id \in Nat \ {0}, Ascending(nodes)
  PROVE  Remembered(nodes) = DOMAIN nodes
<1> SUFFICES ASSUME NEW i \in DOMAIN nodes PROVE nodes[i].id > 0 /\ \A j \in 1 .. i - 1 : nodes[j].id < nodes[i].id
  BY DEF Remembered
<1>1. \A j \in 1 .. i - 1 : j \in DOMAIN nodes /\ j < i
  OBVIOUS
<1> QED BY <1>1 DEF Ascending

-----------------------------------------------------------------------------
(* The inductive invariant.                                                *)

History == history \in Seq({history[i] : i \in DOMAIN history}) /\ Len(history) > 0

IsChannel(c) == IsTree(c) /\ {Consensus, Parent[Anchors]} \subseteq DOMAIN c

Ordered == \A i \in DOMAIN history : IsChannel(history[i]) /\ Follows(history[i], Current)

Live(r) == r \in pending \/ phase[r] \in {"computed", "waiting"}
Made ==
  /\ update = [r \in Requests |-> update[r]]
  /\ \A r \in Requests : Live(r) =>
       /\ base[r] \in DOMAIN history
       /\ ~InPlace(Base(r), op[r])
       /\ ~NoDifferences(Base(r), Wanted(Base(r), op[r]))
       /\ update[r] = Compute(Base(r), Wanted(Base(r), op[r]))
  /\ \A r \in pending \cup applied \cup dropped : phase[r] \notin {"idle", "computed"}

Inv == TypeOK /\ History /\ Ordered /\ Made

LEMMA WantedChannel ==
  ASSUME NEW c, IsChannel(c), NEW o
  PROVE  IsChannel(Wanted(c, o)) /\ DOMAIN c \subseteq DOMAIN Wanted(c, o)
<1>0. /\ c = [p \in DOMAIN c |-> [version |-> c[p].version, mod |-> c[p].mod, data |-> c[p].data]]
      /\ DOMAIN c \subseteq Paths /\ Root \in DOMAIN c
      /\ Consensus \in DOMAIN c /\ Parent[Anchors] \in DOMAIN c /\ Anchors \in Paths
      /\ \A p \in DOMAIN c : Parent[p] \in DOMAIN c /\ c[p].version \in Nat
  BY ConfigAssumption DEF IsChannel, IsTree
<1>1. CASE o.op = "anchors"
  <2> DEFINE w == SetAnchors(c, o)
  <2>1. PICK m : w = [p \in DOMAIN c \cup {Anchors} |->
                        IF p = Anchors THEN [version |-> 0, mod |-> m, data |-> o.peers] ELSE c[p]]
    BY DEF SetAnchors
  <2> HIDE DEF w
  <2>2. DOMAIN w = DOMAIN c \cup {Anchors}
    BY <2>1
  <2>3. ASSUME NEW p \in DOMAIN w
        PROVE  w[p].version \in Nat /\ w[p] = [version |-> w[p].version, mod |-> w[p].mod, data |-> w[p].data]
    <3>1. CASE p = Anchors
      BY <2>1, <2>2, <3>1
    <3>2. CASE p # Anchors
      <4>1. p \in DOMAIN c /\ w[p] = c[p]
        BY <2>1, <2>2, <3>2
      <4>2. c[p] = [version |-> c[p].version, mod |-> c[p].mod, data |-> c[p].data]
        BY <1>0, <4>1
      <4> QED BY <1>0, <4>1, <4>2
    <3> QED BY <3>1, <3>2
  <2>4. w = [p \in DOMAIN w |-> w[p]]
    BY <2>1
  <2>5. w = [p \in DOMAIN w |-> [version |-> w[p].version, mod |-> w[p].mod, data |-> w[p].data]]
    BY <2>3, <2>4
  <2>6. \A p \in DOMAIN w : Parent[p] \in DOMAIN w
    BY <1>0, <2>2
  <2>7. IsTree(w)
    BY <1>0, <2>2, <2>3, <2>5, <2>6 DEF IsTree
  <2> QED BY <1>0, <1>1, <2>2, <2>7 DEF IsChannel, Wanted, w
<1>2. CASE o.op # "anchors"
  <2> DEFINE w == SetConsenters(c, o)
  <2>1. PICK N : w = [c EXCEPT ![Consensus].data.nodes = N]
    BY DEF SetConsenters
  <2> HIDE DEF w
  <2>2. DOMAIN w = DOMAIN c /\ w = [p \in DOMAIN w |-> w[p]]
    BY <2>1
  <2>3. ASSUME NEW p \in DOMAIN w
        PROVE  w[p].version \in Nat /\ w[p] = [version |-> w[p].version, mod |-> w[p].mod, data |-> w[p].data]
    <3>1. c[p] = [version |-> c[p].version, mod |-> c[p].mod, data |-> c[p].data] /\ c[p].version \in Nat
      BY <1>0, <2>2
    <3>2. w[p] = IF p = Consensus THEN [c[p] EXCEPT !.data = [c[p].data EXCEPT !.nodes = N]] ELSE c[p]
      BY <2>1, <2>2
    <3> QED BY <3>1, <3>2
  <2>4. w = [p \in DOMAIN w |-> [version |-> w[p].version, mod |-> w[p].mod, data |-> w[p].data]]
    BY <2>2, <2>3
  <2>5. IsTree(w)
    BY <1>0, <2>2, <2>3, <2>4 DEF IsTree
  <2> QED BY <1>0, <1>2, <2>2, <2>5 DEF IsChannel, Wanted, w
<1> QED BY <1>1, <1>2

(* A configuration that follows the newest one is added to the history.    *)
LEMMA Appended ==
  ASSUME Inv, NEW n, IsChannel(n), Follows(Current, n), history' = Append(history, n)
  PROVE  /\ History' /\ Ordered'
         /\ Len(history') = Len(history) + 1 /\ DOMAIN history' = DOMAIN history \cup {Len(history')}
         /\ \A i \in DOMAIN history : history'[i] = history[i]
         /\ Current' = n
<1> DEFINE S == {history[i] : i \in DOMAIN history}
<1>1. history \in Seq(S) /\ Len(history) \in Nat /\ Len(history) > 0
  BY DEF Inv, History
<1>2. /\ Len(history') = Len(history) + 1 /\ DOMAIN history' = 1 .. Len(history) + 1
      /\ DOMAIN history = 1 .. Len(history) /\ history' \in Seq(S \cup {n})
      /\ history'[Len(history) + 1] = n
      /\ \A i \in DOMAIN history : history'[i] = history[i]
  <2> HIDE DEF S
  <2> QED BY <1>1
<1>3. Current' = n
  BY <1>2 DEF Current
<1>4. History'
  <2>1. S \cup {n} = {history'[j] : j \in DOMAIN history'}
    <3>1. ASSUME NEW e \in S \cup {n} PROVE \E j \in DOMAIN history' : e = history'[j]
      <4>1. CASE e = n
        BY <1>1, <1>2, <4>1
      <4>2. CASE e \in S
        <5>1. PICK i \in DOMAIN history : e = history[i]
          BY <4>2
        <5>2. i \in DOMAIN history' /\ history'[i] = e
          BY <1>1, <1>2, <5>1
        <5> QED BY <5>2
      <4> QED BY <4>1, <4>2
    <3>2. ASSUME NEW j \in DOMAIN history' PROVE history'[j] \in S \cup {n}
      BY <1>1, <1>2
    <3> HIDE DEF S
    <3> QED BY <3>1, <3>2
  <2> HIDE DEF S
  <2>2. history' \in Seq({history'[j] : j \in DOMAIN history'})
    BY <1>2, <2>1
  <2> QED BY <1>1, <1>2, <2>2 DEF History
<1>5. \A i \in DOMAIN history : IsChannel(history[i]) /\ Follows(history[i], Current)
  BY DEF Inv, Ordered
<1>6. IsTree(Current) /\ IsTree(n)
  BY <1>1, <1>2, <1>5 DEF Current, IsChannel
<1>7. Ordered'
  <2> SUFFICES ASSUME NEW i \in DOMAIN history' PROVE IsChannel(history'[i]) /\ Follows(history'[i], n)
    BY <1>3 DEF Ordered
  <2>1. CASE i \in DOMAIN history
    <3>1. Follows(history[i], n)
      BY <1>5, <1>6, <2>1, FollowsTransitive DEF IsChannel
    <3> QED BY <1>2, <1>5, <2>1, <3>1
  <2>2. CASE i = Len(history) + 1
    BY <1>2, <1>6, <2>2, FollowsSelf
  <2> QED BY <1>1, <1>2, <2>1, <2>2
<1> QED BY <1>2, <1>3, <1>4, <1>7

LEMMA NewestChannel == Inv => IsChannel(Current) /\ Len(history) \in DOMAIN history
<1> SUFFICES ASSUME Inv PROVE IsChannel(Current) /\ Len(history) \in DOMAIN history
  OBVIOUS
<1>1. Len(history) \in DOMAIN history
  BY DEF Inv, History
<1> QED BY <1>1 DEF Inv, Ordered, Current

(* An accepted update of a request, and a change of another tool.          *)
LEMMA AcceptedChannel ==
  ASSUME NEW c, NEW o, NEW u, IsChannel(c), IsChannel(o), IsChannel(u), Follows(o, c),
         Accepts(c, Compute(o, u)), DOMAIN o \subseteq DOMAIN u \/ c = o
  PROVE  LET n == Result(c, Compute(o, u)) IN IsChannel(n) /\ Follows(c, n)
<1> DEFINE upd == Compute(o, u)
           n == Result(c, upd)
<1>1. IsTree(c) /\ IsTree(o) /\ IsTree(u) /\ Computed(upd)
  BY DEF IsChannel, Computed
<1>2. IsTree(n) /\ Follows(c, n)
  BY <1>1, ResultTree, ResultFollows
<1>3. DOMAIN n = (DOMAIN c \cup (DOMAIN u \ DOMAIN o)) \ (DOMAIN o \ DOMAIN u)
  BY <1>1, UpdateMerges DEF Merged
<1> QED BY <1>2, <1>3 DEF IsChannel

LEMMA Moved ==
  ASSUME Inv, NEW u, IsChannel(u), Move(u)
  PROVE  \E n : IsChannel(n) /\ Follows(Current, n) /\ history' = Append(history, n)
<1>1. IsChannel(Current)
  BY NewestChannel
<1>2. Accepts(Current, Compute(Current, u))
  BY <1>1, FreshTaken DEF Move, IsChannel
<1>3. Follows(Current, Current)
  BY <1>1, FollowsSelf DEF IsChannel
<1>4. LET n == Result(Current, Compute(Current, u)) IN IsChannel(n) /\ Follows(Current, n)
  BY <1>1, <1>2, <1>3, AcceptedChannel
<1> QED BY <1>4 DEF Move, Configure

(* Other tools leave the consensus type, and the consenters but for their  *)
(* order.                                                                  *)
Reordered(c, n) ==
  n[Consensus].data \in {c[Consensus].data, [c[Consensus].data EXCEPT !.nodes = Reverse(@)]}

LEMMA ElsewhereMoves ==
  ASSUME Inv, Elsewhere
  PROVE  \E u : IsChannel(u) /\ Reordered(Current, u) /\ Move(u)
<1> DEFINE c == Current
<1>0. /\ c = [p \in DOMAIN c |-> [version |-> c[p].version, mod |-> c[p].mod, data |-> c[p].data]]
      /\ DOMAIN c \subseteq Paths /\ Root \in DOMAIN c
      /\ Consensus \in DOMAIN c /\ Parent[Anchors] \in DOMAIN c
      /\ \A p \in DOMAIN c : Parent[p] \in DOMAIN c /\ c[p].version \in Nat
  BY NewestChannel DEF IsChannel, IsTree
<1> HIDE DEF c
(* A tree with the elements of c, some of them with another policy or      *)
(* value.                                                                  *)
<1>1. ASSUME NEW u, DOMAIN u = DOMAIN c, u = [p \in DOMAIN u |-> u[p]],
             \A p \in DOMAIN u : \E m, d : u[p] = [version |-> c[p].version, mod |-> m, data |-> d]
      PROVE  IsChannel(u)
  <2>1. ASSUME NEW p \in DOMAIN u
        PROVE  u[p].version \in Nat /\ u[p] = [version |-> u[p].version, mod |-> u[p].mod, data |-> u[p].data]
    <3>1. PICK m, d : u[p] = [version |-> c[p].version, mod |-> m, data |-> d]
      BY <1>1
    <3> QED BY <1>0, <1>1, <3>1
  <2>2. u = [p \in DOMAIN u |-> [version |-> u[p].version, mod |-> u[p].mod, data |-> u[p].data]]
    BY <1>1, <2>1
  <2>3. IsTree(u)
    BY <1>0, <1>1, <2>1, <2>2 DEF IsTree
  <2> QED BY <1>0, <1>1, <2>3 DEF IsChannel
<1>2. ASSUME SetElsewhere PROVE \E u : IsChannel(u) /\ Reordered(c, u) /\ Move(u)
  <2>1. PICK p \in Free \cap DOMAIN c, m \in {"Admins", "Majority"} : Move([c EXCEPT ![p].mod = m])
    BY <1>2 DEF SetElsewhere, c
  <2> DEFINE u == [c EXCEPT ![p].mod = m]
  <2>2. DOMAIN u = DOMAIN c /\ u = [q \in DOMAIN u |-> u[q]]
    OBVIOUS
  <2>3. ASSUME NEW q \in DOMAIN u PROVE \E k, d : u[q] = [version |-> c[q].version, mod |-> k, data |-> d]
    <3>1. c[q] = [version |-> c[q].version, mod |-> c[q].mod, data |-> c[q].data]
      BY <1>0, <2>2
    <3>2. u[q] = IF q = p THEN [c[q] EXCEPT !.mod = m] ELSE c[q]
      BY <2>2
    <3>3. u[q] = [version |-> c[q].version, mod |-> IF q = p THEN m ELSE c[q].mod, data |-> c[q].data]
      BY <3>1, <3>2
    <3> QED BY <3>3
  <2>4. Reordered(c, u)
    BY <1>0 DEF Reordered
  <2> HIDE DEF u
  <2>5. IsChannel(u)
    BY <1>1, <2>2, <2>3
  <2> QED BY <2>1, <2>4, <2>5 DEF u
<1>3. ASSUME ReorderElsewhere PROVE \E u : IsChannel(u) /\ Reordered(c, u) /\ Move(u)
  <2>1. PICK N : N = Reverse(c[Consensus].data.nodes) /\ Move([c EXCEPT ![Consensus].data.nodes = N])
    BY <1>3 DEF ReorderElsewhere, c
  <2> DEFINE u == [c EXCEPT ![Consensus].data.nodes = N]
  <2>2. DOMAIN u = DOMAIN c /\ u = [q \in DOMAIN u |-> u[q]]
    OBVIOUS
  <2>3. ASSUME NEW q \in DOMAIN u PROVE \E k, d : u[q] = [version |-> c[q].version, mod |-> k, data |-> d]
    <3>1. c[q] = [version |-> c[q].version, mod |-> c[q].mod, data |-> c[q].data]
      BY <1>0, <2>2
    <3>2. u[q] = IF q = Consensus THEN [c[q] EXCEPT !.data = [c[q].data EXCEPT !.nodes = N]] ELSE c[q]
      BY <2>2
    <3>3. u[q] = [version |-> c[q].version, mod |-> c[q].mod,
                  data |-> IF q = Consensus THEN [c[q].data EXCEPT !.nodes = N] ELSE c[q].data]
      BY <3>1, <3>2
    <3> QED BY <3>3
  <2>4. Reordered(c, u)
    <3>1. N = Reverse(c[Consensus].data.nodes)
      BY <2>1
    <3> QED BY <1>0, <3>1 DEF Reordered
  <2> HIDE DEF u
  <2>5. IsChannel(u)
    BY <1>1, <2>2, <2>3
  <2> QED BY <2>1, <2>4, <2>5 DEF u
<1>4. ASSUME RemoveElsewhere PROVE \E u : IsChannel(u) /\ Reordered(c, u) /\ Move(u)
  <2>1. PICK p \in Optional \cap DOMAIN c : Move([q \in {l \in DOMAIN c : p \notin Line(l)} |-> c[q]])
    BY <1>4 DEF RemoveElsewhere, c
  <2> DEFINE u == [q \in {l \in DOMAIN c : p \notin Line(l)} |-> c[q]]
  <2>2. DOMAIN u = {l \in DOMAIN c : p \notin Line(l)} /\ \A q \in DOMAIN u : u[q] = c[q]
    OBVIOUS
  <2>3. p \notin Line(Consensus) /\ p \notin Line(Parent[Anchors])
    BY ConfigAssumption
  <2>4. Root \in DOMAIN u /\ Consensus \in DOMAIN u /\ Parent[Anchors] \in DOMAIN u
    BY <1>0, <2>2, <2>3, TreeAssumption DEF Line
  <2>5. \A q \in DOMAIN u : Parent[q] \in DOMAIN u
    BY <1>0, <2>2, LineFacts
  <2>6. u = [q \in DOMAIN u |-> [version |-> u[q].version, mod |-> u[q].mod, data |-> u[q].data]]
    <3>1. \A q \in DOMAIN u : c[q] = [version |-> c[q].version, mod |-> c[q].mod, data |-> c[q].data]
      BY <1>0, <2>2
    <3> QED BY <2>2, <3>1
  <2> HIDE DEF u
  <2>7. IsTree(u)
    BY <1>0, <2>2, <2>4, <2>5, <2>6 DEF IsTree
  <2> QED BY <2>1, <2>2, <2>4, <2>7 DEF u, IsChannel, Reordered
<1>5. ASSUME PutBackElsewhere PROVE \E u : IsChannel(u) /\ Reordered(c, u) /\ Move(u)
  <2>1. PICK p \in Optional \ DOMAIN c, i \in DOMAIN history :
          /\ p \in DOMAIN history[i] /\ Parent[p] \in DOMAIN c
          /\ Move([q \in DOMAIN c \cup {p} |-> IF q = p THEN [history[i][p] EXCEPT !.mod = "Majority"] ELSE c[q]])
    BY <1>5 DEF PutBackElsewhere, c
  <2> DEFINE e == [history[i][p] EXCEPT !.mod = "Majority"]
             u == [q \in DOMAIN c \cup {p} |-> IF q = p THEN e ELSE c[q]]
  <2>2. e.version \in Nat /\ e = [version |-> e.version, mod |-> e.mod, data |-> e.data]
    <3>1. /\ history[i][p].version \in Nat
          /\ history[i][p] = [version |-> history[i][p].version, mod |-> history[i][p].mod, data |-> history[i][p].data]
      BY <2>1 DEF Inv, Ordered, IsChannel, IsTree
    <3>2. e = [version |-> history[i][p].version, mod |-> "Majority", data |-> history[i][p].data]
      BY <3>1
    <3> HIDE DEF e
    <3> QED BY <3>1, <3>2
  <2>3. p \in Paths
    BY ConfigAssumption
  <2> HIDE DEF e
  <2>4. DOMAIN u = DOMAIN c \cup {p} /\ \A q \in DOMAIN u : u[q] = IF q = p THEN e ELSE c[q]
    OBVIOUS
  <2>5. u = [q \in DOMAIN u |-> [version |-> u[q].version, mod |-> u[q].mod, data |-> u[q].data]]
    <3>1. \A q \in DOMAIN c : c[q] = [version |-> c[q].version, mod |-> c[q].mod, data |-> c[q].data]
      BY <1>0
    <3> QED BY <2>2, <2>4, <3>1
  <2> HIDE DEF u
  <2>6. IsTree(u)
    BY <1>0, <2>1, <2>2, <2>3, <2>4, <2>5 DEF IsTree
  <2>7. Reordered(c, u)
    BY <1>0, <2>1, <2>4 DEF Reordered
  <2> QED BY <1>0, <2>1, <2>4, <2>6, <2>7 DEF u, e, IsChannel
<1> QED BY <1>2, <1>3, <1>4, <1>5 DEF Elsewhere, c

-----------------------------------------------------------------------------
LEMMA InitInv == Init => Inv
<1> SUFFICES ASSUME Init PROVE Inv
  OBVIOUS
<1>1. PICK type \in {"etcdraft", "smartbft"} : history = <<InitialConfig(type)>>
  BY DEF Init
<1>2. IsChannel(InitialConfig(type))
  BY ConfigAssumption DEF IsChannel
<1>3. /\ Len(history) = 1 /\ DOMAIN history = {1} /\ history[1] = InitialConfig(type)
      /\ history \in Seq({InitialConfig(type)})
  BY <1>1
<1>4. History
  BY <1>3 DEF History
<1>5. Ordered
  BY <1>2, <1>3, FollowsSelf DEF Ordered, Current, IsChannel
<1>6. Made
  BY DEF Init, Made, Live
<1>7. TypeOK
  BY <1>2, <1>3, ConfigAssumption DEF Init, TypeOK, Phases, IsChannel
<1> QED BY <1>4, <1>5, <1>6, <1>7 DEF Inv

(* Steps that leave the history alone. *)
LEMMA HistoryStays ==
  ASSUME Inv, UNCHANGED history
  PROVE  /\ History' /\ Ordered' /\ Current' = Current
         /\ Len(history') = Len(history) /\ Len(history) \in Nat /\ Len(history) > 0
         /\ DOMAIN history = 1 .. Len(history)
         /\ \A i \in DOMAIN history : IsTree(history[i])
BY DEF Inv, History, Ordered, Current, TypeOK

LEMMA ReadInv ==
  ASSUME Inv, NEW r \in Requests, Read(r)
  PROVE  Inv'
<1>1. PICK i \in DOMAIN history :
        /\ base' = [base EXCEPT ![r] = i]
        /\ \/ (Become(r, "failed") \/ Become(r, "done")) /\ UNCHANGED update
           \/ ~InPlace(history[i], op[r]) /\ PutTogether(r, history[i], Wanted(history[i], op[r]))
  <2>1. \A i \in GetChannelConfig \ {0} : i \in DOMAIN history
    BY DEF GetChannelConfig
  <2> QED BY <2>1 DEF Read
<1>2. /\ phase[r] = "idle"
      /\ UNCHANGED <<history, op, shown, pending, applied, dropped, moves>>
  BY DEF Read
<1>3. /\ \/ (phase' = [phase EXCEPT ![r] = "failed"] \/ phase' = [phase EXCEPT ![r] = "done"]) /\ UNCHANGED update
         \/ /\ phase' = [phase EXCEPT ![r] = "computed"]
            /\ ~InPlace(history[i], op[r])
            /\ ~NoDifferences(history[i], Wanted(history[i], op[r]))
            /\ update' = [update EXCEPT ![r] = Compute(history[i], Wanted(history[i], op[r]))]
  BY <1>1 DEF Become, PutTogether
<1>4. History' /\ Ordered' /\ DOMAIN history = 1 .. Len(history) /\ \A j \in DOMAIN history : IsTree(history[j])
  BY <1>2, HistoryStays
<1>5. TypeOK'
  BY <1>1, <1>2, <1>3, <1>4 DEF Inv, TypeOK, Phases
<1>6. r \notin pending \cup applied \cup dropped
  BY <1>2 DEF Inv, Made
<1>7. /\ phase \in [Requests -> Phases] /\ base \in [Requests -> 0 .. Len(history)]
      /\ update = [s \in Requests |-> update[s]]
  BY DEF Inv, TypeOK, Made
<1>8. /\ update' = [s \in Requests |-> update'[s]]
      /\ \A s \in Requests \ {r} : phase'[s] = phase[s] /\ base'[s] = base[s] /\ update'[s] = update[s]
  BY <1>1, <1>3, <1>7
<1>9. ASSUME Live(r)'
      PROVE  /\ base'[r] = i /\ ~InPlace(history[i], op[r])
             /\ ~NoDifferences(history[i], Wanted(history[i], op[r]))
             /\ update'[r] = Compute(history[i], Wanted(history[i], op[r]))
  <2>1. phase'[r] \in {"computed", "waiting"}
    BY <1>2, <1>6, <1>9 DEF Live
  <2> QED BY <1>1, <1>3, <1>7, <2>1
<1>10. Made'
  <2>1. ASSUME NEW s \in Requests, Live(s)'
        PROVE  /\ base'[s] \in DOMAIN history'
               /\ ~InPlace(Base(s)', op'[s])
               /\ ~NoDifferences(Base(s)', Wanted(Base(s)', op'[s]))
               /\ update'[s] = Compute(Base(s)', Wanted(Base(s)', op'[s]))
    <3>1. CASE s = r
      BY <1>2, <1>9, <2>1, <3>1 DEF Base
    <3>2. CASE s # r
      <4>1. Live(s)
        BY <1>2, <1>8, <2>1, <3>2 DEF Live
      <4> QED BY <1>2, <1>8, <3>2, <4>1 DEF Inv, Made, Base
    <3> QED BY <3>1, <3>2
  <2>2. \A s \in (pending \cup applied \cup dropped)' : phase'[s] \notin {"idle", "computed"}
    BY <1>2, <1>6, <1>8 DEF Inv, Made, TypeOK
  <2> QED BY <1>8, <2>1, <2>2 DEF Made
<1> QED BY <1>4, <1>5, <1>10 DEF Inv

(* Send, TakeResult and ReadFails move a request on and leave what it has  *)
(* computed.                                                               *)
LEMMA GoOn ==
  ASSUME Inv, NEW r \in Requests, NEW q \in Phases, phase' = [phase EXCEPT ![r] = q],
         UNCHANGED <<history, op, base, update, applied, dropped, moves>>,
         pending' = pending \/ (pending' = pending \cup {r} /\ phase[r] = "computed"),
         q # "idle", q # "computed", q = "waiting" => phase[r] = "computed",
         shown' \subseteq Requests
  PROVE  Inv'
<1>1. History' /\ Ordered' /\ DOMAIN history = 1 .. Len(history) /\ \A j \in DOMAIN history : IsTree(history[j])
  BY HistoryStays
<1>2. phase \in [Requests -> Phases]
  BY DEF Inv, TypeOK
<1>3. \A s \in Requests : phase'[s] = IF s = r THEN q ELSE phase[s]
  BY <1>2
<1>4. phase[r] = "computed" => r \notin pending \cup applied \cup dropped
  BY DEF Inv, Made
<1>5. TypeOK'
  BY <1>1, <1>3, <1>4 DEF Inv, TypeOK
<1>6. Made'
  <2>1. ASSUME NEW s \in Requests, Live(s)' PROVE Live(s)
    BY <1>3, <2>1 DEF Live
  <2>2. \A s \in (pending \cup applied \cup dropped)' : phase'[s] \notin {"idle", "computed"}
    BY <1>3 DEF Inv, Made, TypeOK
  <2> QED BY <2>1, <2>2 DEF Inv, Made, Base
<1> QED BY <1>1, <1>5, <1>6 DEF Inv

LEMMA RequestInv ==
  ASSUME Inv, NEW r \in Requests, RequestStep(r)
  PROVE  Inv'
<1>1. CASE Read(r)
  BY <1>1, ReadInv
<1>2. CASE ReadFails(r)
  <2>1. phase' = [phase EXCEPT ![r] = "failed"] /\ UNCHANGED <<history, op, base, update, shown, pending, applied, dropped, moves>>
    BY <1>2 DEF ReadFails, Become
  <2>2. "failed" \in Phases /\ shown \subseteq Requests
    BY DEF Phases, Inv, TypeOK
  <2> QED BY <2>1, <2>2, GoOn
<1>3. CASE Send(r)
  <2>1. /\ phase[r] = "computed"
        /\ UNCHANGED <<history, op, base, update, applied, dropped, moves>>
        /\ \/ phase' = [phase EXCEPT ![r] = "waiting"] /\ pending' = pending \cup {r} /\ shown' \in {shown, shown \cup {r}}
           \/ phase' = [phase EXCEPT ![r] = "failed"] /\ UNCHANGED <<pending, shown>>
    BY <1>3 DEF Send, Become
  <2>2. "failed" \in Phases /\ "waiting" \in Phases /\ shown' \subseteq Requests
    BY <2>1 DEF Phases, Inv, TypeOK
  <2>3. CASE phase' = [phase EXCEPT ![r] = "waiting"] /\ pending' = pending \cup {r}
    BY <2>1, <2>2, <2>3, GoOn
  <2>4. CASE phase' = [phase EXCEPT ![r] = "failed"] /\ UNCHANGED pending
    BY <2>1, <2>2, <2>4, GoOn
  <2> QED BY <2>1, <2>3, <2>4
<1>4. CASE TakeResult(r)
  <2>1. phase' = [phase EXCEPT ![r] = "done"] /\ UNCHANGED <<history, op, base, update, shown, pending, applied, dropped, moves>>
    BY <1>4 DEF TakeResult, Become
  <2>2. "done" \in Phases /\ shown \subseteq Requests
    BY DEF Phases, Inv, TypeOK
  <2> QED BY <2>1, <2>2, GoOn
<1> QED BY <1>1, <1>2, <1>3, <1>4 DEF RequestStep

(* Steps that leave the requests where they are; the history may grow.     *)
LEMMA StayMade ==
  ASSUME Inv, UNCHANGED <<op, phase, base, update>>,
         DOMAIN history \subseteq DOMAIN history', \A i \in DOMAIN history : history'[i] = history[i],
         pending' \subseteq pending, (pending \cup applied \cup dropped)' \subseteq pending \cup applied \cup dropped
  PROVE  Made'
<1>1. ASSUME NEW s \in Requests, Live(s)' PROVE Live(s)
  BY <1>1 DEF Live
<1> QED BY <1>1 DEF Inv, Made, Base

LEMMA OrderedFits ==
  ASSUME Inv, NEW r \in Requests, Order(r), Accepts(Current, update[r])
  PROVE  LET o == Base(r)
             u == Wanted(Base(r), op[r])
             n == Result(Current, update[r])
         IN /\ IsChannel(o) /\ IsChannel(u) /\ IsChannel(Current) /\ IsChannel(n)
            /\ DOMAIN o \subseteq DOMAIN u /\ Follows(o, Current) /\ Follows(Current, n)
            /\ update[r] = Compute(o, u)
            /\ history' = Append(history, n)
<1> DEFINE o == Base(r)
           u == Wanted(Base(r), op[r])
<1>1. base[r] \in DOMAIN history /\ update[r] = Compute(o, u)
  BY DEF Order, Inv, Made, Live
<1>2. IsChannel(o) /\ Follows(o, Current)
  BY <1>1 DEF Inv, Ordered, Base
<1>3. IsChannel(Current)
  BY NewestChannel
<1>4. IsChannel(u) /\ DOMAIN o \subseteq DOMAIN u
  BY <1>2, WantedChannel
<1>5. IsChannel(Result(Current, update[r])) /\ Follows(Current, Result(Current, update[r]))
  BY <1>1, <1>2, <1>3, <1>4, AcceptedChannel
<1>6. history' = Append(history, Result(Current, update[r]))
  BY DEF Order, Configure
<1> QED BY <1>1, <1>2, <1>3, <1>4, <1>5, <1>6

LEMMA OrderInv ==
  ASSUME Inv, NEW r \in Requests, Order(r)
  PROVE  Inv'
<1>0. /\ r \in pending /\ pending' = pending \ {r}
      /\ UNCHANGED <<op, phase, base, update, moves>>
      /\ \/ Accepts(Current, update[r]) /\ applied' = applied \cup {r} /\ UNCHANGED dropped
         \/ ~Accepts(Current, update[r]) /\ dropped' = dropped \cup {r} /\ UNCHANGED <<history, applied, shown>>
      /\ shown' \subseteq Requests
  BY DEF Order, Configure, Inv, TypeOK
<1>1. CASE Accepts(Current, update[r])
  <2> DEFINE n == Result(Current, update[r])
  <2>1. IsChannel(n) /\ Follows(Current, n) /\ history' = Append(history, n)
    BY <1>1, OrderedFits
  <2> HIDE DEF n
  <2>2. /\ History' /\ Ordered'
        /\ Len(history') = Len(history) + 1 /\ DOMAIN history' = DOMAIN history \cup {Len(history')}
        /\ \A i \in DOMAIN history : history'[i] = history[i]
    BY <2>1, Appended
  <2>3. Made'
    BY <1>0, <2>2, StayMade
  <2>4. TypeOK'
    <3>1. Len(history) \in Nat /\ Len(history') > 0 /\ \A i \in DOMAIN history' : IsTree(history'[i])
      BY <2>2 DEF Inv, History, Ordered, IsChannel
    <3> QED BY <1>0, <2>2, <3>1 DEF Inv, TypeOK
  <2> QED BY <2>2, <2>3, <2>4 DEF Inv
<1>2. CASE ~Accepts(Current, update[r])
  <2>1. History' /\ Ordered' /\ UNCHANGED history
    BY <1>0, <1>2, HistoryStays
  <2>2. Made'
    BY <1>0, <1>2, <2>1, StayMade
  <2>3. TypeOK'
    BY <1>0, <1>2, <2>1 DEF Inv, TypeOK
  <2> QED BY <2>1, <2>2, <2>3 DEF Inv
<1> QED BY <1>1, <1>2

LEMMA ElsewhereInv ==
  ASSUME Inv, Elsewhere
  PROVE  Inv' /\ UNCHANGED applied
<1>1. PICK u : IsChannel(u) /\ Move(u)
  BY ElsewhereMoves
<1>2. PICK n : IsChannel(n) /\ Follows(Current, n) /\ history' = Append(history, n)
  BY <1>1, Moved
<1>3. /\ History' /\ Ordered'
      /\ Len(history') = Len(history) + 1 /\ DOMAIN history' = DOMAIN history \cup {Len(history')}
      /\ \A i \in DOMAIN history : history'[i] = history[i]
  BY <1>2, Appended
<1>4. /\ UNCHANGED <<op, phase, base, update, pending, applied, dropped>>
      /\ moves < MaxMoves /\ moves' = moves + 1
      /\ shown' = shown \cup {r \in Requests : phase[r] = "waiting"}
  BY <1>1 DEF Move, Configure
<1>5. Made'
  BY <1>3, <1>4, StayMade
<1>6. TypeOK'
  <2>1. Len(history) \in Nat /\ Len(history') > 0 /\ \A i \in DOMAIN history' : IsTree(history'[i])
    BY <1>3 DEF Inv, History, Ordered, IsChannel
  <2>2. moves' \in 0 .. MaxMoves
    BY <1>4, ConfigAssumption DEF Inv, TypeOK
  <2> QED BY <1>3, <1>4, <2>1, <2>2 DEF Inv, TypeOK
<1> QED BY <1>3, <1>4, <1>5, <1>6 DEF Inv

LEMMA NextInv == Inv /\ [Next]_vars => Inv'
<1> SUFFICES ASSUME Inv, [Next]_vars PROVE Inv'
  OBVIOUS
<1>1. CASE UNCHANGED vars
  <2>1. UNCHANGED <<history, op, phase, base, update, shown, pending, applied, dropped, moves>>
    BY <1>1 DEF vars
  <2>2. History' /\ Ordered'
    BY <2>1, HistoryStays
  <2>3. Made' /\ TypeOK'
    BY <2>1, StayMade DEF Inv, TypeOK
  <2> QED BY <2>2, <2>3 DEF Inv
<1>2. ASSUME NEW r \in Requests, RequestStep(r) PROVE Inv'
  BY <1>2, RequestInv
<1>3. ASSUME NEW r \in Requests, Order(r) PROVE Inv'
  BY <1>3, OrderInv
<1>4. CASE Elsewhere
  BY <1>4, ElsewhereInv
<1> QED BY <1>1, <1>2, <1>3, <1>4 DEF Next

-----------------------------------------------------------------------------
(* Every configuration the channel ever has is a tree of versioned         *)
(* elements, and a request whose update is pending, applied or dropped has *)
(* it so only once (proceedOrderingConsenterUpdate).                       *)
THEOREM TypeCorrect == Spec => []TypeOK
<1>1. Inv => TypeOK
  BY DEF Inv
<1> QED BY InitInv, NextInv, <1>1, PTL DEF Spec

(* An update that Compute makes from the configuration in force is         *)
(* accepted by the orderers and gives what the administrator wanted        *)
(* (util.Compute).                                                         *)
THEOREM FreshUpdates == Spec => []FreshIsAccepted
<1>1. Inv => FreshIsAccepted
  <2> SUFFICES ASSUME Inv, NEW r \in Requests, phase[r] = "computed", base[r] = Len(history)
               PROVE  LET n == Result(Current, update[r])
                          w == Wanted(Current, op[r])
                      IN /\ Accepts(Current, update[r])
                         /\ DOMAIN n = DOMAIN w
                         /\ \A p \in DOMAIN n : Alike(n[p], w[p])
    BY DEF FreshIsAccepted
  <2> DEFINE w == Wanted(Current, op[r])
             n == Result(Current, Compute(Current, w))
  <2>1. update[r] = Compute(Current, w) /\ ~NoDifferences(Current, w)
    BY DEF Inv, Made, Live, Base, Current
  <2>2. IsChannel(Current) /\ IsChannel(w) /\ DOMAIN Current \subseteq DOMAIN w
    BY NewestChannel, WantedChannel
  <2>3. IsTree(Current) /\ IsTree(w) /\ Follows(Current, Current)
    BY <2>2, FollowsSelf DEF IsChannel
  <2>4. Accepts(Current, Compute(Current, w))
    BY <2>1, <2>3, FreshTaken
  <2>5. /\ DOMAIN n = (DOMAIN Current \cup (DOMAIN w \ DOMAIN Current)) \ (DOMAIN Current \ DOMAIN w)
        /\ \A p \in DOMAIN n :
              IF p \in Changed(Current, w) \cup (DOMAIN w \ DOMAIN Current)
              THEN Alike(n[p], w[p]) ELSE Alike(n[p], Current[p])
    BY <2>3, <2>4, UpdateMerges DEF Merged
  <2>6. DOMAIN n = DOMAIN w
    BY <2>2, <2>5
  <2>7. ASSUME NEW p \in DOMAIN n PROVE Alike(n[p], w[p])
    <3> HIDE DEF n, w
    <3>1. CASE p \in Changed(Current, w) \cup (DOMAIN w \ DOMAIN Current)
      BY <2>5, <3>1
    <3>2. CASE p \notin Changed(Current, w) \cup (DOMAIN w \ DOMAIN Current)
      <4>1. Alike(n[p], Current[p])
        BY <2>5, <3>2
      <4>2. p \in DOMAIN w /\ p \in DOMAIN Current
        BY <2>6, <3>2
      <4>3. Alike(Current[p], w[p])
        BY <3>2, <4>2 DEF Changed
      <4> QED BY <4>1, <4>3 DEF Alike
    <3> QED BY <3>1, <3>2
  <2> QED BY <2>1, <2>4, <2>6, <2>7
<1> QED BY InitInv, NextInv, <1>1, PTL DEF Spec

(* An update that takes effect is merged into the configuration in force.  *)
LEMMA OrderMerges ==
  ASSUME Inv, NEW r \in Requests, Order(r), Accepts(Current, update[r])
  PROVE  LET o == Base(r)
             u == Wanted(Base(r), op[r])
         IN /\ IsChannel(o) /\ IsChannel(Current) /\ IsChannel(Current')
            /\ Merged(o, u, Current, Current')
            /\ ~InPlace(o, op[r]) /\ ~NoDifferences(o, u) /\ base[r] \in DOMAIN history
            /\ op[r] \in Operations
<1> DEFINE o == Base(r)
           u == Wanted(Base(r), op[r])
           n == Result(Current, Compute(o, u))
<1>1. update[r] = Compute(o, u)
  BY OrderedFits
<1>2. /\ IsChannel(o) /\ IsChannel(u) /\ IsChannel(Current) /\ IsChannel(n)
      /\ DOMAIN o \subseteq DOMAIN u /\ Follows(o, Current) /\ Follows(Current, n)
      /\ history' = Append(history, n)
  BY <1>1, OrderedFits
<1>3. Current' = n
  BY <1>2, Appended
<1>4. Merged(o, u, Current, n)
  <2>1. Accepts(Current, Compute(o, u)) /\ IsTree(o) /\ IsTree(u) /\ IsTree(Current)
    BY <1>1, <1>2 DEF IsChannel
  <2> QED BY <1>2, <2>1, UpdateMerges
<1>5. ~InPlace(o, op[r]) /\ ~NoDifferences(o, u) /\ base[r] \in DOMAIN history
  BY DEF Order, Inv, Made, Live
<1>6. op[r] \in Operations
  BY DEF Inv, TypeOK
<1> HIDE DEF o, u, n
<1> QED BY <1>2, <1>3, <1>4, <1>5, <1>6 DEF o, u

(* However old the configuration an update was computed from, if it takes  *)
(* effect it changes what its administrator changed and nothing else, and  *)
(* nothing that somebody has changed since; for any tree and any history   *)
(* (proceedOrderingConsenterUpdate, createAnchorPeerUpdate, Compute).      *)
THEOREM NoChangeIsLost == Spec => NothingLost
<1>1. ASSUME Inv, [Next]_vars, NEW r \in applied' \ applied
      PROVE  Merged(Base(r), Wanted(Base(r), op[r]), Current, Current')
  <2>1. r \in Requests /\ Order(r)
    <3>1. ~(UNCHANGED vars)
      BY <1>1 DEF vars
    <3>2. ~(\E s \in Requests : RequestStep(s))
      BY <1>1 DEF RequestStep, Read, ReadFails, Send, TakeResult
    <3>3. ~Elsewhere
      BY <1>1, ElsewhereInv
    <3>4. PICK s \in Requests : Order(s)
      BY <1>1, <3>1, <3>2, <3>3 DEF Next
    <3> QED BY <3>4, <1>1 DEF Order
  <2>2. Accepts(Current, update[r])
    BY <1>1, <2>1 DEF Order
  <2> QED BY <1>1, <2>1, <2>2, OrderMerges
<1>2. Inv /\ [Next]_vars =>
        [\A r \in applied' \ applied : Merged(Base(r), Wanted(Base(r), op[r]), Current, Current')]_vars
  BY <1>1
<1> QED BY InitInv, NextInv, <1>2, PTL DEF Spec, NothingLost

-----------------------------------------------------------------------------
(* The lists the handlers want, and what other tools make of them.         *)

LEMMA ListedNodes ==
  ASSUME NEW c, Listed(c)
  PROVE  \E n \in Nat : /\ n = Len(Nodes(c))
                        /\ DOMAIN Nodes(c) = 1 .. n
                        /\ DOMAIN Hosts(Nodes(c)) = 1 .. n
                        /\ \A i \in 1 .. n : Hosts(Nodes(c))[i] = Nodes(c)[i].host
<1> DEFINE s == Nodes(c)
           R == {s[i] : i \in DOMAIN s}
<1>1. s \in Seq(R)
  BY DEF Listed
<1> HIDE DEF s, R
<1>2. Len(s) \in Nat /\ DOMAIN s = 1 .. Len(s)
  BY <1>1
<1>3. DOMAIN Hosts(s) = 1 .. Len(s) /\ \A i \in 1 .. Len(s) : Hosts(s)[i] = s[i].host
  BY <1>2 DEF Hosts
<1> QED BY <1>2, <1>3 DEF s

(* The hosts a handler wants are a list of hosts that are all different,   *)
(* in the order of the list it has read.                                   *)
LEMMA WantedHostsAre ==
  ASSUME NEW c, Listed(c), NEW o, o.op \in {"add", "delete", "update"}, ~InPlace(c, o),
         NEW n, n = Len(Nodes(c))
  PROVE  LET new == WantedHosts(c, o)
             old == Hosts(Nodes(c)) IN
         \E m \in Nat : \E l \in 0 .. m : \E at \in [1 .. l -> 1 .. n] :
           /\ IsList(new, m)
           /\ Rising(at)
           /\ \A k \in 1 .. l : new[k] = old[at[k]]
           /\ l < m => l = m - 1 /\ \A i \in 1 .. n : old[i] # new[m]
<1> DEFINE new == WantedHosts(c, o)
           old == Hosts(Nodes(c))
<1>1. n \in Nat /\ DOMAIN old = 1 .. n /\ old \in Seq({old[i] : i \in DOMAIN old})
  <2>1. PICK k \in Nat : k = n /\ DOMAIN old = 1 .. k /\ DOMAIN Nodes(c) = 1 .. k
    BY ListedNodes
  <2>2. old = [i \in 1 .. k |-> old[i]]
    BY <2>1 DEF Hosts
  <2> HIDE DEF old
  <2>3. old \in Seq({old[i] : i \in DOMAIN old})
    BY <2>1, <2>2, Sequence DEF IsList
  <2> QED BY <2>1, <2>3
<1>2. CASE o.op = "add"
  <2>1. new = Append(old, o.host)
    BY <1>2 DEF WantedHosts
  <2>2. \A i \in 1 .. n : old[i] # o.host
    <3>1. o.host \notin ToSet(old)
      BY <1>2 DEF InPlace
    <3> HIDE DEF old
    <3> QED BY <1>1, <3>1 DEF ToSet
  <2> DEFINE S == {old[i] : i \in DOMAIN old}
  <2> HIDE DEF old, new
  <2>3. old \in Seq(S) /\ Len(old) = n
    BY <1>1
  <2> HIDE DEF S
  <2>4. /\ IsList(new, n + 1)
        /\ \A k \in 1 .. n : new[k] = old[k]
        /\ new[n + 1] = o.host
    BY <1>1, <2>1, <2>3 DEF IsList
  <2> DEFINE at == [k \in 1 .. n |-> k]
  <2>5. at \in [1 .. n -> 1 .. n] /\ Rising(at)
        /\ \A k \in 1 .. n : new[k] = old[at[k]]
    BY <2>4 DEF Rising
  <2> HIDE DEF at
  <2>6. n + 1 \in Nat /\ n \in 0 .. n + 1 /\ n = (n + 1) - 1
    BY <1>1
  <2>7. \A i \in 1 .. n : old[i] # new[n + 1]
    BY <2>2, <2>4
  <2> QED BY <2>4, <2>5, <2>6, <2>7 DEF new, old
<1>3. CASE o.op = "delete"
  <2>1. new = Without(old, o.host)
    BY <1>3 DEF WantedHosts
  <2> DEFINE T == Staying(old, o.host)
             m == Cardinality(T)
  <2> HIDE DEF old, new
  <2>2. T \subseteq 1 .. n /\ m \in Nat /\ \E at \in [1 .. m -> T] :
            Rising(at) /\ new = Picked(old, at)
    BY <1>1, <2>1, WithoutIs
  <2>3. T \subseteq 1 .. n
    BY <2>2
  <2> HIDE DEF T, m
  <2>4. PICK at \in [1 .. m -> T] :
            Rising(at) /\ new = Picked(old, at)
    BY <2>2
  <2>5. at \in [1 .. m -> 1 .. n] /\ DOMAIN at = 1 .. m
    BY <2>3
  <2>6. IsList(new, m) /\ \A k \in 1 .. m : new[k] = old[at[k]]
    BY <2>4, <2>5 DEF Picked, IsList
  <2>7. m \in 0 .. m /\ ~(m < m)
    BY <2>2
  <2> QED BY <2>2, <2>4, <2>5, <2>6, <2>7 DEF new, old
<1>4. CASE o.op = "update"
  <2>1. new = old
    BY <1>4 DEF WantedHosts
  <2> DEFINE at == [k \in 1 .. n |-> k]
             S == {old[i] : i \in DOMAIN old}
  <2> HIDE DEF old, new
  <2>2. old \in Seq(S)
    BY <1>1
  <2>3. old = [k \in 1 .. n |-> old[k]]
    <3> HIDE DEF S
    <3> QED BY <1>1, <2>2
  <2>4. at \in [1 .. n -> 1 .. n] /\ Rising(at)
        /\ \A k \in 1 .. n : new[k] = old[at[k]]
    BY <2>1 DEF Rising
  <2>5. n \in 0 .. n /\ ~(n < n)
    BY <1>1
  <2>6. IsList(new, n)
    BY <1>1, <2>1, <2>3 DEF IsList
  <2> HIDE DEF at
  <2> QED BY <1>1, <2>4, <2>5, <2>6 DEF new, old
<1> QED BY <1>2, <1>3, <1>4

(* Those hosts are different, if the consenters' are.                      *)
LEMMA WantedHostsDiffer ==
  ASSUME NEW c, Listed(c), Type(c) = "smartbft",
         NEW o, o.op \in {"add", "delete", "update"}, ~InPlace(c, o)
  PROVE  LET new == WantedHosts(c, o) IN \A i, j \in DOMAIN new : new[i] = new[j] => i = j
<1> DEFINE new == WantedHosts(c, o)
           old == Hosts(Nodes(c))
<1>1. PICK n \in Nat : n = Len(Nodes(c)) /\ DOMAIN Nodes(c) = 1 .. n
                       /\ \A i \in 1 .. n : old[i] = Nodes(c)[i].host
  BY ListedNodes
<1>2. \A i, j \in 1 .. n : old[i] = old[j] => i = j
  BY <1>1 DEF Listed
<1>3. PICK m \in Nat : \E l \in 0 .. m : \E at \in [1 .. l -> 1 .. n] :
         /\ IsList(new, m)
         /\ Rising(at)
         /\ \A k \in 1 .. l : new[k] = old[at[k]]
         /\ l < m => l = m - 1 /\ \A i \in 1 .. n : old[i] # new[m]
  BY <1>1, WantedHostsAre
<1> HIDE DEF new, old
<1>7. PICK l \in 0 .. m : \E at \in [1 .. l -> 1 .. n] :
         /\ IsList(new, m)
         /\ Rising(at)
         /\ \A k \in 1 .. l : new[k] = old[at[k]]
         /\ l < m => l = m - 1 /\ \A i \in 1 .. n : old[i] # new[m]
  BY <1>3
<1>8. PICK at \in [1 .. l -> 1 .. n] :
         /\ IsList(new, m)
         /\ Rising(at)
         /\ \A k \in 1 .. l : new[k] = old[at[k]]
         /\ l < m => l = m - 1 /\ \A i \in 1 .. n : old[i] # new[m]
  BY <1>7
<1> SUFFICES ASSUME NEW i \in 1 .. m, NEW j \in 1 .. m, i < j PROVE new[i] # new[j]
  <2>1. \A i, j \in 1 .. m : ~(i < j) /\ ~(j < i) => i = j
    OBVIOUS
  <2> QED BY <1>8, <2>1 DEF new, IsList
<1>4. i \in 1 .. l
  BY <1>8
<1>5. CASE j \in 1 .. l
  <2>1. at[i] \in 1 .. n /\ at[j] \in 1 .. n /\ at[i] < at[j]
    BY <1>8, <1>4, <1>5 DEF Rising
  <2>2. at[i] # at[j]
    BY <2>1
  <2> QED BY <1>2, <1>8, <1>4, <1>5, <2>1, <2>2
<1>6. CASE j \notin 1 .. l
  <2>1. l < m /\ j = m
    BY <1>8, <1>6
  <2>2. at[i] \in 1 .. n
    BY <1>4
  <2> QED BY <1>8, <1>4, <2>1, <2>2
<1> QED BY <1>5, <1>6

(* What is listed depends on the consensus value alone.                    *)
LEMMA ListedSame ==
  ASSUME NEW c, NEW n, Listed(c), n[Consensus].data = c[Consensus].data
  PROVE  Listed(n)
BY DEF Listed, Type, Nodes

LEMMA ListedReordered ==
  ASSUME NEW c, NEW n, Listed(c), Reordered(c, n)
  PROVE  /\ Listed(n) /\ Type(n) = Type(c)
         /\ Hosts(Nodes(n)) \in {Hosts(Nodes(c)), Reverse(Hosts(Nodes(c)))}
<1> DEFINE old == Nodes(c)
           new == Nodes(n)
<1>1. CASE n[Consensus].data = c[Consensus].data
  BY <1>1, ListedSame DEF Type, Nodes
<1>2. CASE n[Consensus].data = [c[Consensus].data EXCEPT !.nodes = Reverse(@)]
  <2>1. c[Consensus].data = [type |-> Type(c), nodes |-> old]
    BY DEF Listed
  <2>2. n[Consensus].data = [type |-> Type(c), nodes |-> Reverse(old)]
    BY <1>2, <2>1
  <2>3. Type(n) = Type(c) /\ new = Reverse(old) /\ n[Consensus].data = [type |-> Type(n), nodes |-> new]
    BY <2>2 DEF Type, Nodes
  <2>4. PICK k \in Nat : /\ k = Len(old) /\ DOMAIN old = 1 .. k
                         /\ DOMAIN Hosts(old) = 1 .. k
                         /\ \A i \in 1 .. k : Hosts(old)[i] = old[i].host
    BY ListedNodes
  <2> HIDE DEF old, new
  <2>5. new = [i \in 1 .. k |-> old[(k - i) + 1]]
    BY <2>3, <2>4 DEF Reverse
  <2>6. IsList(new, k) /\ DOMAIN new = 1 .. k
    BY <2>5 DEF IsList
  <2>7. new \in Seq({new[i] : i \in DOMAIN new})
    BY <2>6, Sequence
  <2>8. \A i \in 1 .. k : (k - i) + 1 \in 1 .. k /\ new[i] = old[(k - i) + 1]
    BY <2>5
  <2>9. ASSUME Type(c) = "smartbft"
        PROVE  /\ \A i \in DOMAIN new : new[i].id \in Nat \ {0}
               /\ \A i, j \in DOMAIN new :
                     new[i].host = new[j].host \/ new[i].id = new[j].id => i = j
    <3>1. /\ \A i \in DOMAIN old : old[i].id \in Nat \ {0}
          /\ \A i, j \in DOMAIN old :
                old[i].host = old[j].host \/ old[i].id = old[j].id => i = j
      BY <2>9 DEF Listed, old
    <3>2. ASSUME NEW i \in 1 .. k, NEW j \in 1 .. k, new[i].host = new[j].host \/ new[i].id = new[j].id
          PROVE  i = j
      <4>1. (k - i) + 1 = (k - j) + 1
        BY <2>4, <2>8, <3>1, <3>2
      <4> QED BY <4>1
    <3> QED BY <2>4, <2>6, <2>8, <3>1, <3>2
  <2>10. Listed(n)
    BY <2>3, <2>7, <2>9 DEF Listed, new
  <2>11. Len(Hosts(old)) = k
    <3>1. Hosts(old) = [i \in 1 .. k |-> Hosts(old)[i]]
      BY <2>4 DEF Hosts
    <3> QED BY <2>4, <3>1, Sequence DEF IsList
  <2>12. Hosts(new) = Reverse(Hosts(old))
    <3>1. Hosts(new) = [i \in 1 .. k |-> new[i].host]
      BY <2>6 DEF Hosts
    <3>2. Reverse(Hosts(old)) = [i \in 1 .. k |-> Hosts(old)[(k - i) + 1]]
      BY <2>11 DEF Reverse
    <3>3. \A i \in 1 .. k : Hosts(old)[(k - i) + 1] = new[i].host
      BY <2>4, <2>8
    <3> QED BY <3>1, <3>2, <3>3
  <2> QED BY <2>3, <2>10, <2>12 DEF old, new
<1> QED BY <1>1, <1>2 DEF Reordered

(* What the handlers want of the consenters can be the consenters of a     *)
(* channel.                                                                *)
LEMMA WantedNodes ==
  ASSUME NEW c, IsChannel(c), Listed(c),
         NEW o, o.op \in {"add", "delete", "update"}, ~InPlace(c, o)
  PROVE  LET u == Wanted(c, o) IN
         /\ Listed(u) /\ Type(u) = Type(c)
         /\ Hosts(Nodes(u)) = WantedHosts(c, o)
         /\ Type(c) = "smartbft" => Nodes(u) = BftList(Nodes(c), WantedHosts(c, o))
<1> DEFINE u == Wanted(c, o)
           hosts == WantedHosts(c, o)
           new == IF Type(c) = "smartbft" THEN BftList(Nodes(c), hosts) ELSE RaftList(hosts)
<1>1. u = [c EXCEPT ![Consensus].data.nodes = new]
  BY DEF Wanted, SetConsenters
<1>2. c[Consensus].data = [type |-> Type(c), nodes |-> Nodes(c)]
  BY DEF Listed
<1>3. Consensus \in DOMAIN c /\ c[Consensus] = [version |-> c[Consensus].version, mod |-> c[Consensus].mod, data |-> c[Consensus].data]
  BY DEF IsChannel, IsTree
<1>4. PICK n \in Nat : n = Len(Nodes(c)) /\ DOMAIN Nodes(c) = 1 .. n
  BY ListedNodes
<1>5. PICK m \in Nat : IsList(hosts, m)
  BY <1>4, WantedHostsAre
<1> HIDE DEF hosts
<1>6. ASSUME Type(c) = "smartbft"
      PROVE  /\ IsList(new, m)
             /\ \A i \in 1 .. m : new[i].host = hosts[i] /\ new[i].id \in Nat \ {0}
             /\ \A i, j \in 1 .. m : new[i].id = new[j].id => i = j
             /\ \A i, j \in 1 .. m : new[i].host = new[j].host => i = j
  <2>1. /\ \A i \in DOMAIN Nodes(c) : Nodes(c)[i].id \in Nat \ {0}
        /\ \A i, j \in DOMAIN Nodes(c) :
              Nodes(c)[i].host = Nodes(c)[j].host \/ Nodes(c)[i].id = Nodes(c)[j].id => i = j
    BY <1>6 DEF Listed
  <2>2. \A i, j \in DOMAIN hosts : hosts[i] = hosts[j] => i = j
    BY <1>6, WantedHostsDiffer DEF hosts
  <2> DEFINE list == BftList(Nodes(c), hosts)
  <2>3. /\ IsList(list, m)
        /\ \A i \in 1 .. m : list[i].host = hosts[i] /\ list[i].id \in Nat \ {0}
        /\ \A i, j \in 1 .. m : list[i].id = list[j].id => i = j
    <3>1. DOMAIN hosts = 1 .. m
      BY <1>5 DEF IsList
    <3> QED BY <1>4, <2>1, <2>2, <3>1, BftIs
  <2>4. new = list
    BY <1>6
  <2> HIDE DEF list, new
  <2> QED BY <1>5, <2>2, <2>3, <2>4 DEF IsList
<1>7. ASSUME Type(c) # "smartbft"
      PROVE  /\ IsList(new, m)
             /\ \A i \in 1 .. m : new[i].host = hosts[i]
  BY <1>5, <1>7 DEF RaftList, IsList
<1> HIDE DEF new, u
<1>8. IsList(new, m) /\ \A i \in 1 .. m : new[i].host = hosts[i]
  BY <1>6, <1>7
<1>9. u[Consensus].data = [type |-> Type(c), nodes |-> new]
  BY <1>1, <1>2, <1>3
<1>10. Type(u) = Type(c) /\ Nodes(u) = new
  BY <1>9 DEF Type, Nodes
<1>11. new \in Seq({new[i] : i \in DOMAIN new})
  BY <1>8, Sequence
<1>12. Listed(u)
  <2>1. /\ u[Consensus].data = [type |-> Type(u), nodes |-> Nodes(u)]
        /\ Nodes(u) \in Seq({Nodes(u)[i] : i \in DOMAIN Nodes(u)})
    BY <1>9, <1>10, <1>11
  <2>2. Type(u) = "smartbft" =>
       /\ \A i \in DOMAIN Nodes(u) : Nodes(u)[i].id \in Nat \ {0}
       /\ \A i, j \in DOMAIN Nodes(u) :
            Nodes(u)[i].host = Nodes(u)[j].host \/ Nodes(u)[i].id = Nodes(u)[j].id => i = j
    BY <1>6, <1>8, <1>10 DEF IsList
  <2> QED BY <2>1, <2>2 DEF Listed
<1>13. Hosts(Nodes(u)) = hosts
  BY <1>5, <1>8, <1>10 DEF Hosts, IsList
<1>14. Type(c) = "smartbft" => Nodes(u) = BftList(Nodes(c), hosts)
  BY <1>10 DEF new
<1> QED BY <1>10, <1>12, <1>13, <1>14 DEF u, hosts

(* What a handler changes: the consensus value, or the anchor peers.       *)
LEMMA ConsentersChange ==
  ASSUME NEW c, IsChannel(c), NEW o, o.op # "anchors", ~NoDifferences(c, Wanted(c, o))
  PROVE  LET u == Wanted(c, o) IN
         DOMAIN u = DOMAIN c /\ Changed(c, u) = {Consensus}
<1> DEFINE u == Wanted(c, o)
<1>1. PICK N : u = [c EXCEPT ![Consensus].data.nodes = N]
  BY DEF Wanted, SetConsenters
<1> HIDE DEF u
<1>2. DOMAIN u = DOMAIN c /\ \A p \in DOMAIN c : p # Consensus => u[p] = c[p]
  <2>1. c = [p \in DOMAIN c |-> c[p]]
    BY DEF IsChannel, IsTree
  <2> QED BY <1>1, <2>1
<1>3. Differing(c, u) \subseteq {Consensus}
  BY <1>2 DEF Differing, Alike, Members
<1>4. Consensus \in Differing(c, u)
  BY <1>3 DEF NoDifferences, Updated, u
<1>5. Consensus \notin Groups
  BY ConfigAssumption
<1> QED BY <1>2, <1>4, <1>5 DEF Differing, Changed, Alike, u

LEMMA AnchorsChange ==
  ASSUME NEW c, IsChannel(c), NEW o, o.op = "anchors", ~NoDifferences(c, Wanted(c, o))
  PROVE  LET u == Wanted(c, o) IN
         /\ DOMAIN u = DOMAIN c \cup {Anchors} /\ u[Anchors].data = o.peers
         /\ Anchors \in Changed(c, u) \cup (DOMAIN u \ DOMAIN c)
         /\ Consensus \notin Changed(c, u) /\ Consensus \in DOMAIN c
<1> DEFINE u == Wanted(c, o)
<1>1. PICK m : u = [p \in DOMAIN c \cup {Anchors} |->
                        IF p = Anchors THEN [version |-> 0, mod |-> m, data |-> o.peers] ELSE c[p]]
  BY DEF Wanted, SetAnchors
<1> HIDE DEF u
<1>2. /\ DOMAIN u = DOMAIN c \cup {Anchors} /\ u[Anchors].data = o.peers
      /\ \A p \in DOMAIN c : p # Anchors => u[p] = c[p]
  BY <1>1
<1>3. Consensus # Anchors /\ Anchors \notin Groups
  BY ConfigAssumption
<1>4. Consensus \in DOMAIN c /\ Consensus \notin Changed(c, u)
  BY <1>2, <1>3 DEF IsChannel, Changed, Alike
<1>5. CASE Anchors \in DOMAIN c
  <2>1. Differing(c, u) \subseteq {Anchors}
    BY <1>2, <1>5 DEF Differing, Alike, Members
  <2>2. Anchors \in Differing(c, u)
    BY <2>1 DEF NoDifferences, Updated, u
  <2>3. Anchors \in Changed(c, u)
    BY <1>3, <2>2 DEF Differing, Changed
  <2> QED BY <1>2, <1>4, <2>3 DEF u
<1>6. CASE Anchors \notin DOMAIN c
  BY <1>2, <1>4, <1>6 DEF u
<1> QED BY <1>5, <1>6

-----------------------------------------------------------------------------
(* All configurations have lists that the orderers accept.                 *)
Rosters == \A i \in DOMAIN history : Listed(history[i])

(* An update that takes effect puts the consenters that its administrator  *)
(* wanted in the place of those that were read and are still in force; or  *)
(* it leaves them and sets the anchor peers.                               *)
LEMMA OrderedLists ==
  ASSUME Inv, Rosters, NEW r \in Requests, Order(r), Accepts(Current, update[r])
  PROVE  LET o == Base(r)
             u == Wanted(Base(r), op[r])
         IN /\ Listed(Current) /\ Listed(Current')
            /\ op[r].op # "anchors" =>
                 /\ op[r].op \in {"add", "delete", "update"}
                 /\ IsChannel(o) /\ Listed(o) /\ ~InPlace(o, op[r])
                 /\ Current[Consensus].data = o[Consensus].data
                 /\ Current'[Consensus].data = u[Consensus].data
                 /\ CurrentAnchors(Current') = CurrentAnchors(Current)
            /\ op[r].op = "anchors" =>
                 /\ Current'[Consensus].data = Current[Consensus].data
                 /\ CurrentAnchors(Current') = op[r].peers
<1> DEFINE o == Base(r)
           u == Wanted(Base(r), op[r])
           c == Current
           n == Current'
<1>1. /\ IsChannel(o) /\ IsChannel(c) /\ IsChannel(n)
      /\ Merged(o, u, c, n)
      /\ ~InPlace(o, op[r]) /\ ~NoDifferences(o, u) /\ base[r] \in DOMAIN history
      /\ op[r] \in Operations
  BY OrderMerges
<1>2. Listed(o) /\ Listed(c)
  BY <1>1, NewestChannel DEF Rosters, Base, Current
<1>3. Consensus # Anchors
  BY ConfigAssumption
<1>4. /\ DOMAIN n = (DOMAIN c \cup (DOMAIN u \ DOMAIN o)) \ (DOMAIN o \ DOMAIN u)
      /\ \A p \in DOMAIN n : IF p \in Changed(o, u) \cup (DOMAIN u \ DOMAIN o)
                             THEN n[p].data = u[p].data ELSE n[p].data = c[p].data
      /\ \A p \in Changed(o, u) : p \in DOMAIN c /\ c[p].data = o[p].data
  BY <1>1 DEF Merged, Alike
<1>5. Consensus \in DOMAIN n
  BY <1>1 DEF IsChannel
<1>6. ASSUME op[r].op # "anchors"
      PROVE  /\ op[r].op \in {"add", "delete", "update"}
             /\ Listed(n)
             /\ c[Consensus].data = o[Consensus].data
             /\ n[Consensus].data = u[Consensus].data
             /\ CurrentAnchors(n) = CurrentAnchors(c)
  <2>1. op[r].op \in {"add", "delete", "update"}
    BY <1>1, <1>6, OperationsAssumption
  <2>2. DOMAIN u = DOMAIN o /\ Changed(o, u) = {Consensus}
    BY <1>1, <1>6, ConsentersChange
  <2>3. Listed(u)
    BY <1>1, <1>2, <2>1, WantedNodes
  <2> HIDE DEF o, u, c, n
  <2>4. n[Consensus].data = u[Consensus].data /\ c[Consensus].data = o[Consensus].data
    BY <1>4, <1>5, <2>2
  <2>5. CurrentAnchors(n) = CurrentAnchors(c)
    <3>1. DOMAIN n = DOMAIN c
      BY <1>4, <2>2
    <3>2. Anchors \in DOMAIN n => n[Anchors].data = c[Anchors].data
      BY <1>3, <1>4, <2>2
    <3> QED BY <3>1, <3>2 DEF CurrentAnchors
  <2>6. Listed(n)
    BY <2>3, <2>4, ListedSame
  <2> QED BY <2>1, <2>4, <2>5, <2>6
<1>7. ASSUME op[r].op = "anchors"
      PROVE  /\ Listed(n)
             /\ n[Consensus].data = c[Consensus].data
             /\ CurrentAnchors(n) = op[r].peers
  <2>1. /\ DOMAIN u = DOMAIN o \cup {Anchors} /\ u[Anchors].data = op[r].peers
        /\ Anchors \in Changed(o, u) \cup (DOMAIN u \ DOMAIN o)
        /\ Consensus \notin Changed(o, u) /\ Consensus \in DOMAIN o
    BY <1>1, <1>7, AnchorsChange
  <2> HIDE DEF o, u, c, n
  <2>2. n[Consensus].data = c[Consensus].data
    BY <1>4, <1>5, <2>1
  <2>3. Anchors \in DOMAIN n /\ n[Anchors].data = op[r].peers
    BY <1>4, <2>1
  <2>4. Listed(n)
    BY <1>2, <2>2, ListedSame
  <2> QED BY <2>2, <2>3, <2>4 DEF CurrentAnchors
<1> HIDE DEF o, u, c, n
<1> QED BY <1>1, <1>2, <1>6, <1>7 DEF o, u, c, n

LEMMA ElsewhereLists ==
  ASSUME Inv, Rosters, Elsewhere
  PROVE  /\ Listed(Current')
         /\ Hosts(Nodes(Current')) \in {Hosts(Nodes(Current)), Reverse(Hosts(Nodes(Current)))}
<1> DEFINE c == Current
           n == Current'
<1>1. PICK u : IsChannel(u) /\ Reordered(c, u) /\ Move(u)
  BY ElsewhereMoves
<1>2. IsChannel(c) /\ Listed(c)
  BY NewestChannel DEF Rosters, Current
<1>3. ~NoDifferences(c, u)
  BY <1>1 DEF Move
<1>4. IsTree(c) /\ IsTree(u) /\ Follows(c, c)
  BY <1>1, <1>2, FollowsSelf DEF IsChannel
<1>5. Accepts(c, Compute(c, u))
  BY <1>3, <1>4, FreshTaken
<1>6. LET m == Result(c, Compute(c, u)) IN IsChannel(m) /\ Follows(c, m)
  BY <1>1, <1>2, <1>4, <1>5, AcceptedChannel
<1>7. n = Result(c, Compute(c, u))
  <2>1. history' = Append(history, Result(c, Compute(c, u)))
    BY <1>1 DEF Move, Configure
  <2> QED BY <1>6, <2>1, Appended
<1>8. Merged(c, u, c, n)
  BY <1>4, <1>5, <1>7, UpdateMerges
<1>9. n[Consensus].data = u[Consensus].data
  <2>1. Consensus \in DOMAIN n /\ Consensus \in DOMAIN c /\ Consensus \in DOMAIN u
    BY <1>1, <1>2, <1>6, <1>7 DEF IsChannel
  <2> HIDE DEF c, n
  <2>2. CASE Consensus \in Changed(c, u)
    BY <1>8, <2>1, <2>2 DEF Merged, Alike
  <2>3. CASE Consensus \notin Changed(c, u)
    <3>1. n[Consensus].data = c[Consensus].data
      BY <1>8, <2>1, <2>3 DEF Merged, Alike
    <3>2. c[Consensus].data = u[Consensus].data
      BY <2>1, <2>3 DEF Changed, Alike
    <3> QED BY <3>1, <3>2
  <2> QED BY <2>2, <2>3
<1>10. Reordered(c, n)
  BY <1>1, <1>9 DEF Reordered
<1> QED BY <1>2, <1>10, ListedReordered

(* What a step may do to the channel.                                      *)
LEMMA Steps ==
  ASSUME Inv, [Next]_vars
  PROVE  \/ UNCHANGED <<history, op, applied>>
         \/ Elsewhere /\ UNCHANGED <<op, applied>>
         \/ \E r \in Requests : Order(r) /\ Accepts(Current, update[r])
<1>1. CASE UNCHANGED vars
  BY <1>1 DEF vars
<1>2. ASSUME NEW r \in Requests, RequestStep(r) PROVE UNCHANGED <<history, op, applied>>
  BY <1>2 DEF RequestStep, Read, ReadFails, Send, TakeResult
<1>3. ASSUME NEW r \in Requests, Order(r), ~Accepts(Current, update[r])
      PROVE  UNCHANGED <<history, op, applied>>
  BY <1>3 DEF Order
<1>4. CASE Elsewhere
  <2>1. UNCHANGED op
    <3>1. PICK u : Move(u)
      BY <1>4, ElsewhereMoves
    <3> QED BY <3>1 DEF Move
  <2> QED BY <1>4, <2>1, ElsewhereInv
<1> QED BY <1>1, <1>2, <1>3, <1>4 DEF Next

LEMMA RostersInit == Init => Rosters
<1> SUFFICES ASSUME Init PROVE Rosters
  OBVIOUS
<1>1. PICK type \in {"etcdraft", "smartbft"} : history = <<InitialConfig(type)>>
  BY DEF Init
<1>2. DOMAIN history = {1} /\ history[1] = InitialConfig(type)
  BY <1>1
<1> QED BY <1>2, ListAssumption DEF Rosters

LEMMA RostersNext == Inv /\ Rosters /\ [Next]_vars => Rosters'
<1> SUFFICES ASSUME Inv, Rosters, [Next]_vars PROVE Rosters'
  OBVIOUS
<1>1. CASE UNCHANGED history
  BY <1>1 DEF Rosters
<1>2. ASSUME Listed(Current'), \E n : IsChannel(n) /\ Follows(Current, n) /\ history' = Append(history, n)
      PROVE  Rosters'
  <2>1. PICK n : IsChannel(n) /\ Follows(Current, n) /\ history' = Append(history, n)
    BY <1>2
  <2>2. /\ Len(history') = Len(history) + 1 /\ DOMAIN history' = DOMAIN history \cup {Len(history')}
        /\ \A i \in DOMAIN history : history'[i] = history[i]
    BY <2>1, Appended
  <2>3. Current' = history'[Len(history')]
    BY DEF Current
  <2> QED BY <1>2, <2>2, <2>3 DEF Rosters
<1>3. CASE Elsewhere
  <2>1. PICK u : IsChannel(u) /\ Move(u)
    BY <1>3, ElsewhereMoves
  <2>2. Listed(Current')
    BY <1>3, ElsewhereLists
  <2> QED BY <1>2, <2>1, <2>2, Moved
<1>4. ASSUME NEW r \in Requests, Order(r), Accepts(Current, update[r]) PROVE Rosters'
  <2>1. Listed(Current')
    BY <1>4, OrderedLists
  <2>2. \E n : IsChannel(n) /\ Follows(Current, n) /\ history' = Append(history, n)
    BY <1>4, OrderedFits
  <2> QED BY <1>2, <2>1, <2>2
<1> QED BY <1>1, <1>3, <1>4, Steps

-----------------------------------------------------------------------------
(* A request that takes effect does to the lists in force what Roster's    *)
(* Serve says.                                                             *)
LEMMA OrderServes ==
  ASSUME Inv, Rosters, NEW r \in Requests, Order(r), Accepts(Current, update[r])
  PROVE  Lists!Serve(r)
<1> DEFINE o == Base(r)
           u == Wanted(Base(r), op[r])
           old == Hosts(Nodes(Current))
           new == Hosts(Nodes(Current'))
<1>1. /\ Listed(Current) /\ Listed(Current')
      /\ op[r].op # "anchors" =>
           /\ op[r].op \in {"add", "delete", "update"}
           /\ IsChannel(o) /\ Listed(o) /\ ~InPlace(o, op[r])
           /\ Current[Consensus].data = o[Consensus].data
           /\ Current'[Consensus].data = u[Consensus].data
           /\ CurrentAnchors(Current') = CurrentAnchors(Current)
      /\ op[r].op = "anchors" =>
           /\ Current'[Consensus].data = Current[Consensus].data
           /\ CurrentAnchors(Current') = op[r].peers
  BY OrderedLists
<1>2. r \notin applied /\ applied' = applied \cup {r} /\ UNCHANGED op
  BY DEF Order, Inv, TypeOK
<1>3. ASSUME op[r].op # "anchors"
      PROVE  /\ op[r].op \in {"add", "delete", "update"}
             /\ Hosts(Nodes(o)) = old /\ new = WantedHosts(o, op[r])
             /\ CurrentAnchors(Current)' = CurrentAnchors(Current)
  <2>1. Hosts(Nodes(u)) = WantedHosts(o, op[r])
    BY <1>1, <1>3, WantedNodes
  <2> QED BY <1>1, <1>3, <2>1 DEF Nodes
<1> HIDE DEF o, u
<1>4. CASE op[r].op = "anchors"
  <2>1. new = old /\ CurrentAnchors(Current)' = op[r].peers
    BY <1>1, <1>4 DEF Nodes
  <2>2. Lists!Modify(op[r].peers)
    BY <2>1 DEF Lists!Modify
  <2> QED BY <1>2, <1>4, <2>2 DEF Lists!Serve
<1>5. CASE op[r].op = "update"
  <2>1. new = old /\ CurrentAnchors(Current)' = CurrentAnchors(Current)
    BY <1>3, <1>5 DEF WantedHosts
  <2>2. Lists!Update
    BY <2>1 DEF Lists!Update
  <2> QED BY <1>2, <1>5, <2>2 DEF Lists!Serve
<1>6. CASE op[r].op = "add"
  <2>1. op[r].host \notin ToSet(old)
    BY <1>1, <1>3, <1>6 DEF InPlace
  <2>2. new = Append(old, op[r].host) /\ CurrentAnchors(Current)' = CurrentAnchors(Current)
    BY <1>3, <1>6 DEF WantedHosts
  <2>3. Lists!Add(op[r].host)
    BY <2>1, <2>2 DEF Lists!Add, Lists!ToSet, ToSet
  <2> QED BY <1>2, <1>6, <2>3 DEF Lists!Serve
<1>7. CASE op[r].op = "delete"
  <2>1. PICK n \in Nat : DOMAIN old = 1 .. n
    BY <1>1, ListedNodes
  <2>2. new = Without(old, op[r].host) /\ CurrentAnchors(Current)' = CurrentAnchors(Current)
    BY <1>3, <1>7 DEF WantedHosts
  <2> HIDE DEF old, new
  <2> DEFINE stays == {i \in DOMAIN old : old[i] # op[r].host}
  <2>3. \E at \in [1 .. Cardinality(Staying(old, op[r].host)) -> Staying(old, op[r].host)] :
              Rising(at) /\ new = Picked(old, at)
    BY <2>1, <2>2, WithoutIs
  <2>4. stays = Staying(old, op[r].host)
    BY DEF Staying
  <2>5. PICK at \in [1 .. Cardinality(stays) -> stays] : Rising(at) /\ new = Picked(old, at)
    <3> HIDE DEF stays
    <3> QED BY <2>3, <2>4
  <2>6. /\ \A i, j \in DOMAIN at : i < j => at[i] < at[j]
        /\ new = [i \in DOMAIN at |-> old[at[i]]]
    BY <2>5 DEF Rising, Picked
  <2>7. Lists!Delete(op[r].host)
    <3>1. \E f \in [1 .. Cardinality(stays) -> stays] :
            /\ \A i, j \in DOMAIN f : i < j => f[i] < f[j]
            /\ new = [i \in DOMAIN f |-> old[f[i]]]
      <4> HIDE DEF stays
      <4> QED BY <2>6
    <3>2. Lists!Cardinality(stays) = Cardinality(stays)
      BY DEF Lists!Cardinality, Cardinality
    <3>3. \E f \in [1 .. Lists!Cardinality(stays) -> stays] :
            /\ \A i, j \in DOMAIN f : i < j => f[i] < f[j]
            /\ new = [i \in DOMAIN f |-> old[f[i]]]
      <4> HIDE DEF stays
      <4> QED BY <3>1, <3>2
    <3> QED BY <2>2, <3>3 DEF Lists!Delete, old, new
  <2> QED BY <1>2, <1>7, <2>7 DEF Lists!Serve
<1> QED BY <1>1, <1>4, <1>5, <1>6, <1>7

(* Every update takes effect as if its request read the consenters and the *)
(* anchor peers, changed them and wrote them in one step                   *)
(* (proceedOrderingConsenterUpdate, createAnchorPeerUpdate).               *)
THEOREM ChangesAreServed == Spec => ImplementsRoster
<1>1. Init => Lists!Init
  BY DEF Init, Lists!Init
<1>2. Inv /\ Rosters /\ [Next]_vars => [(\E r \in Requests : Lists!Serve(r)) \/ Lists!Elsewhere]_(Lists!rvars)
  <2> SUFFICES ASSUME Inv, Rosters, [Next]_vars
               PROVE  [(\E r \in Requests : Lists!Serve(r)) \/ Lists!Elsewhere]_(Lists!rvars)
    OBVIOUS
  <2>1. CASE UNCHANGED <<history, op, applied>>
    BY <2>1 DEF Lists!rvars, Current
  <2>2. CASE Elsewhere /\ UNCHANGED <<op, applied>>
    <3>1. Hosts(Nodes(Current)) ' \in {Hosts(Nodes(Current)), Reverse(Hosts(Nodes(Current)))}
      BY <2>2, ElsewhereLists
    <3>2. Lists!Reverse(Hosts(Nodes(Current))) = Reverse(Hosts(Nodes(Current)))
      BY DEF Lists!Reverse, Reverse
    <3> QED BY <2>2, <3>1, <3>2 DEF Lists!Elsewhere
  <2>3. ASSUME NEW r \in Requests, Order(r), Accepts(Current, update[r]) PROVE Lists!Serve(r)
    BY <2>3, OrderServes
  <2> QED BY <2>1, <2>2, <2>3, Steps
<1>3. Inv /\ Rosters /\ [Next]_vars => (Inv /\ Rosters)'
  BY NextInv, RostersNext
<1> QED BY InitInv, RostersInit, <1>1, <1>2, <1>3, PTL DEF Spec, ImplementsRoster, Lists!Spec

(* The list made of a list with ascending ids keeps the ids of those that  *)
(* stay and is ascending.                                                  *)
LEMMA AscendingStays ==
  ASSUME NEW c, Listed(c), Type(c) = "smartbft", Ascending(Nodes(c)),
         NEW o, o.op \in {"add", "delete", "update"}, ~InPlace(c, o)
  PROVE  LET old == Nodes(c)
             new == BftList(Nodes(c), WantedHosts(c, o))
         IN /\ Ascending(new)
            /\ \A i \in DOMAIN old, j \in DOMAIN new :
                 old[i].host = new[j].host => old[i].id = new[j].id
<1> DEFINE old == Nodes(c)
           hosts == WantedHosts(c, o)
           new == BftList(old, hosts)
<1>1. PICK n \in Nat : n = Len(old) /\ DOMAIN old = 1 .. n /\ \A i \in 1 .. n : Hosts(old)[i] = old[i].host
  BY ListedNodes
<1>2. /\ \A i \in DOMAIN old : old[i].id \in Nat \ {0}
      /\ \A i, j \in DOMAIN old : old[i].host = old[j].host \/ old[i].id = old[j].id => i = j
  BY DEF Listed
<1>3. Remembered(old) = DOMAIN old
  BY <1>1, <1>2, AscendingRemembered
<1>4. PICK m \in Nat : \E l \in 0 .. m : \E at \in [1 .. l -> 1 .. n] :
         /\ IsList(hosts, m) /\ Rising(at)
         /\ \A k \in 1 .. l : hosts[k] = Hosts(old)[at[k]]
         /\ l < m => l = m - 1 /\ \A i \in 1 .. n : Hosts(old)[i] # hosts[m]
  BY <1>1, WantedHostsAre
<1>5. PICK l \in 0 .. m : \E at \in [1 .. l -> 1 .. n] :
         /\ IsList(hosts, m) /\ Rising(at)
         /\ \A k \in 1 .. l : hosts[k] = Hosts(old)[at[k]]
         /\ l < m => l = m - 1 /\ \A i \in 1 .. n : Hosts(old)[i] # hosts[m]
  BY <1>4
<1>6. PICK at \in [1 .. l -> 1 .. n] :
         /\ IsList(hosts, m) /\ Rising(at)
         /\ \A k \in 1 .. l : hosts[k] = Hosts(old)[at[k]]
         /\ l < m => l = m - 1 /\ \A i \in 1 .. n : Hosts(old)[i] # hosts[m]
  BY <1>5
<1>7. /\ DOMAIN hosts = 1 .. m
      /\ \A i, j \in DOMAIN hosts : hosts[i] = hosts[j] => i = j
  BY <1>6, WantedHostsDiffer DEF IsList
<1>8. Ascending(old)
  OBVIOUS
<1> HIDE DEF old, hosts
<1>9. /\ IsList(new, m)
      /\ \A i \in 1 .. m : new[i].host = hosts[i] /\ new[i].id \in Nat \ {0}
      /\ \A i \in 1 .. m : Keeps(old, hosts, new, i)
      /\ \A i \in 1 .. m : RememberedAs(old, hosts[i]) = {} =>
            \A j \in Remembered(old) : old[j].id < new[i].id
  BY <1>1, <1>2, <1>7, BftIs
<1> HIDE DEF new
<1>10. DOMAIN new = 1 .. m
  BY <1>9 DEF IsList
<1>11. ASSUME NEW i \in 1 .. n, NEW j \in 1 .. m, old[i].host = hosts[j] PROVE new[j].id = old[i].id
  <2>1. i \in RememberedAs(old, hosts[j])
    BY <1>1, <1>3, <1>11 DEF RememberedAs
  <2> QED BY <1>9, <2>1 DEF Keeps
<1>12. ASSUME NEW k \in 1 .. l PROVE at[k] \in 1 .. n /\ k \in 1 .. m /\ new[k].id = old[at[k]].id
  <2>1. at[k] \in 1 .. n /\ k \in 1 .. m
    OBVIOUS
  <2>2. hosts[k] = old[at[k]].host
    BY <1>1, <1>6, <2>1
  <2> QED BY <1>11, <2>1, <2>2
<1>13. ASSUME NEW i \in 1 .. m, NEW j \in 1 .. m, i < j PROVE new[i].id < new[j].id
  <2>1. i \in 1 .. l
    BY <1>6, <1>13
  <2>2. CASE j \in 1 .. l
    <3>1. at[i] < at[j]
      BY <1>6, <1>13, <2>1, <2>2 DEF Rising
    <3>2. old[at[i]].id < old[at[j]].id
      BY <1>1, <1>8, <1>12, <2>1, <2>2, <3>1 DEF Ascending
    <3> QED BY <1>12, <2>1, <2>2, <3>2
  <2>3. CASE j \notin 1 .. l
    <3>1. l < m /\ j = m
      BY <1>6, <1>13, <2>3
    <3>2. \A k \in 1 .. n : old[k].host # hosts[j]
      BY <1>1, <1>6, <3>1
    <3>3. RememberedAs(old, hosts[j]) = {}
      BY <1>1, <1>3, <3>2 DEF RememberedAs
    <3>4. old[at[i]].id < new[j].id
      BY <1>1, <1>3, <1>9, <1>12, <2>1, <3>3
    <3> QED BY <1>12, <2>1, <3>4
  <2> QED BY <2>2, <2>3
<1>14. Ascending(new)
  BY <1>10, <1>13 DEF Ascending
<1>15. \A i \in DOMAIN old, j \in DOMAIN new : old[i].host = new[j].host => old[i].id = new[j].id
  BY <1>1, <1>9, <1>10, <1>11
<1> QED BY <1>14, <1>15 DEF new, old, hosts

(* No update gives two consenters the same id, and if the ids were         *)
(* ascending, those that stay keep theirs and the ids are ascending again; *)
(* for lists of any length and any hosts (createBrfOrderersUpdEnvelope).   *)
THEOREM IdsAreKept == Spec => StayingKept
<1> DEFINE old == Nodes(Current)
           new == Nodes(Current')
           Stay(s, t) ==
             /\ \A i, j \in DOMAIN t : t[i].id = t[j].id => i = j
             /\ Ascending(s) => /\ Ascending(t)
                                /\ \A i \in DOMAIN s, j \in DOMAIN t :
                                     s[i].host = t[j].host => s[i].id = t[j].id
<1>1. ASSUME Inv, Rosters, [Next]_vars, applied' # applied, Type(Current) = "smartbft"
      PROVE  Stay(old, new)
  <2>1. PICK r \in Requests : Order(r) /\ Accepts(Current, update[r])
    BY <1>1, Steps
  <2> DEFINE o == Base(r)
             u == Wanted(Base(r), op[r])
  <2>2. /\ Listed(Current) /\ Listed(Current')
        /\ op[r].op # "anchors" =>
             /\ op[r].op \in {"add", "delete", "update"}
             /\ IsChannel(o) /\ Listed(o) /\ ~InPlace(o, op[r])
             /\ Current[Consensus].data = o[Consensus].data
             /\ Current'[Consensus].data = u[Consensus].data
        /\ op[r].op = "anchors" => Current'[Consensus].data = Current[Consensus].data
    BY <1>1, <2>1, OrderedLists
  <2>3. CASE op[r].op = "anchors"
    <3>1. new = old
      BY <2>2, <2>3 DEF Nodes
    <3>2. \A i, j \in DOMAIN old : old[i].host = old[j].host \/ old[i].id = old[j].id => i = j
      BY <1>1, <2>2 DEF Listed
    <3> HIDE DEF old, new
    <3> QED BY <3>1, <3>2
  <2>4. CASE op[r].op # "anchors"
    <3>1. Type(o) = "smartbft" /\ Nodes(o) = old /\ new = Nodes(u)
      BY <1>1, <2>2, <2>4 DEF Type, Nodes
    <3>2. Listed(u) /\ Type(u) = Type(o) /\ new = BftList(old, WantedHosts(o, op[r]))
      BY <2>2, <2>4, <3>1, WantedNodes
    <3>3. \A i, j \in DOMAIN new : new[i].id = new[j].id => i = j
      BY <3>1, <3>2 DEF Listed
    <3>4. Ascending(old) =>
            /\ Ascending(new)
            /\ \A i \in DOMAIN old, j \in DOMAIN new : old[i].host = new[j].host => old[i].id = new[j].id
      BY <2>2, <2>4, <3>1, <3>2, AscendingStays
    <3> QED BY <3>3, <3>4
  <2> QED BY <2>3, <2>4
<1>2. Inv /\ Rosters /\ [Next]_vars =>
        [applied' # applied /\ Type(Current) = "smartbft" => Stay(old, new)]_vars
  BY <1>1
<1>3. Inv /\ Rosters /\ [Next]_vars => (Inv /\ Rosters)'
  BY NextInv, RostersNext
<1> QED BY InitInv, RostersInit, <1>2, <1>3, PTL DEF Spec, StayingKept
=============================================================================
