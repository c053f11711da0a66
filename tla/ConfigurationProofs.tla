-------------------------- MODULE ConfigurationProofs --------------------------
(***************************************************************************)
(* What the checks accept the engine can work with, for every hierarchy a  *)
(* host may write, every schema and every sequence of deployments over one *)
(* database.                                                               *)
(***************************************************************************)
EXTENDS Configuration, SequenceTheorems, WellFoundedInduction, TLAPS

\* A set of numbers that is not empty has a least element.
LEMMA LeastNumber ==
    ASSUME NEW T, T \subseteq Nat, T # {}
    PROVE  \E i \in T : \A j \in T : ~(j < i)
<1> DEFINE R == OpToRel(<, Nat)
<1>1. IsWellFoundedOn(R, Nat)  BY NatLessThanWellFounded
<1>2. \E i \in T : \A j \in T : ~(<<j, i>> \in R)  BY <1>1, WFMin
<1> QED  BY <1>2 DEF OpToRel

(***************************************************************************)
(* Walking a relation path.                                                *)
(***************************************************************************)
\* One segment of a path, from the model m.
Follow(m, segment) ==
    IF m \in Models /\ segment \in DOMAIN Field[m] THEN Field[m][segment] ELSE None

\* The models met on the first d segments of a path, as a function of their
\* number.
IsWalk(f, m, path, d) ==
    f = [i \in 0 .. d |-> IF i = 0 THEN m ELSE Follow(f[i - 1], path[i])]

\* Some function is the walk along the first d segments.
LEMMA WalkExists ==
    ASSUME NEW m, NEW path, NEW d \in Nat
    PROVE  \E f : IsWalk(f, m, path, d)
<1> DEFINE T == {i \in Nat : ~ \E f : IsWalk(f, m, path, i)}
<1> SUFFICES ASSUME T # {}  PROVE FALSE  OBVIOUS
<1>1. PICK i \in T : \A j \in T : ~(j < i)  BY LeastNumber
<1>2. CASE i = 0
  <2>1. IsWalk([j \in 0 .. 0 |-> m], m, path, 0)  BY DEF IsWalk
  <2> QED  BY <1>1, <1>2, <2>1
<1>3. CASE i # 0
  <2>1. i \in Nat /\ i - 1 \in Nat /\ i - 1 < i /\ i - 1 \notin T  BY <1>1, <1>3
  <2>2. PICK f : IsWalk(f, m, path, i - 1)  BY <2>1
  <2> DEFINE g == [j \in 0 .. i |-> IF j < i THEN f[j] ELSE Follow(f[i - 1], path[i])]
  <2>3. ASSUME NEW j \in 0 .. i
        PROVE  g[j] = IF j = 0 THEN m ELSE Follow(g[j - 1], path[j])
    <3>1. CASE j < i
      <4>1. j \in 0 .. (i - 1) /\ f[j] = IF j = 0 THEN m ELSE Follow(f[j - 1], path[j])
        BY <2>1, <2>2, <3>1 DEF IsWalk
      <4>2. j # 0 => j - 1 \in 0 .. i /\ j - 1 < i  BY <2>1, <3>1
      <4> QED  BY <3>1, <4>1, <4>2
    <3>2. CASE j = i
      BY <1>3, <2>1, <3>2
    <3> QED  BY <2>1, <3>1, <3>2
  <2>4. IsWalk(g, m, path, i)  BY <2>3 DEF IsWalk
  <2> QED  BY <1>1, <2>4
<1> QED  BY <1>2, <1>3

\* Walk is the last model of such a function.
LEMMA WalkIsWalk ==
    ASSUME NEW m, NEW path, Len(path) \in Nat
    PROVE  \E f : IsWalk(f, m, path, Len(path)) /\ Walk(m, path) = f[Len(path)]
<1>1. PICK f : IsWalk(f, m, path, Len(path))  BY WalkExists
<1>2. f = [i \in 0 .. Len(path) |->
              IF i = 0 THEN m
              ELSE IF f[i - 1] \in Models /\ path[i] \in DOMAIN Field[f[i - 1]]
                   THEN Field[f[i - 1]][path[i]] ELSE None]
  BY <1>1 DEF IsWalk, Follow
<1>3. \E g : /\ Walk(m, path) = g[Len(path)]
             /\ g = [i \in 0 .. Len(path) |->
                        IF i = 0 THEN m
                        ELSE IF g[i - 1] \in Models /\ path[i] \in DOMAIN Field[g[i - 1]]
                             THEN Field[g[i - 1]][path[i]] ELSE None]
  BY <1>2 DEF Walk
<1> QED  BY <1>3 DEF IsWalk, Follow

\* The walk along a path that goes on with q behind p is the walk along q from
\* where p leads: it meets the same models.
LEMMA WalkGoesOn ==
    ASSUME NEW m, NEW S, NEW p \in Seq(S), NEW q \in Seq(S)
    PROVE  Walk(m, p \o q) = Walk(Walk(m, p), q)
<1> DEFINE pq == p \o q
<1>1. /\ Len(p) \in Nat /\ Len(q) \in Nat /\ Len(pq) = Len(p) + Len(q)
      /\ \A i \in 1 .. Len(p) : pq[i] = p[i]
      /\ \A i \in 1 .. Len(q) : pq[Len(p) + i] = q[i]
  BY LenProperties, ConcatProperties
<1> HIDE DEF pq
<1>2. PICK f : IsWalk(f, m, p, Len(p)) /\ Walk(m, p) = f[Len(p)]  BY <1>1, WalkIsWalk
<1>3. PICK g : IsWalk(g, Walk(m, p), q, Len(q)) /\ Walk(Walk(m, p), q) = g[Len(q)]
  BY <1>1, WalkIsWalk
<1>4. PICK h : IsWalk(h, m, pq, Len(pq)) /\ Walk(m, pq) = h[Len(pq)]
  <2>1. Len(pq) \in Nat  BY <1>1
  <2> QED  BY <2>1, WalkIsWalk
<1>5. \A i \in 0 .. Len(p) : h[i] = f[i]
  <2> DEFINE T == {i \in 0 .. Len(p) : h[i] # f[i]}
  <2> SUFFICES ASSUME T # {}  PROVE FALSE  OBVIOUS
  <2>0. T \subseteq Nat  BY <1>1
  <2>1. PICK i \in T : \A j \in T : ~(j < i)  BY <2>0, LeastNumber
  <2>2. /\ i \in 0 .. Len(p) /\ i \in 0 .. Len(pq)
        /\ i # 0 => i - 1 \in 0 .. Len(p) /\ i - 1 < i /\ pq[i] = p[i]
    BY <1>1, <2>1
  <2>3. /\ f[i] = IF i = 0 THEN m ELSE Follow(f[i - 1], p[i])
        /\ h[i] = IF i = 0 THEN m ELSE Follow(h[i - 1], pq[i])
    BY <1>2, <1>4, <2>2 DEF IsWalk
  <2> QED  BY <2>1, <2>2, <2>3
<1>6. \A i \in 0 .. Len(q) : h[Len(p) + i] = g[i]
  <2> DEFINE T == {i \in 0 .. Len(q) : h[Len(p) + i] # g[i]}
  <2> SUFFICES ASSUME T # {}  PROVE FALSE  OBVIOUS
  <2>0. T \subseteq Nat  BY <1>1
  <2>1. PICK i \in T : \A j \in T : ~(j < i)  BY <2>0, LeastNumber
  <2>2. g[0] = Walk(m, p) /\ h[Len(p)] = f[Len(p)]  BY <1>1, <1>3, <1>5 DEF IsWalk
  <2>3. i # 0  BY <1>1, <1>2, <2>1, <2>2
  <2>4. /\ i \in 1 .. Len(q) /\ i \in 0 .. Len(q) /\ i # 0 /\ i - 1 \in 0 .. Len(q) /\ i - 1 < i
        /\ Len(p) + i \in 0 .. Len(pq) /\ Len(p) + i # 0
        /\ (Len(p) + i) - 1 = Len(p) + (i - 1) /\ pq[Len(p) + i] = q[i]
    BY <1>1, <2>1, <2>3
  <2>5. g[i] = Follow(g[i - 1], q[i])  BY <1>1, <1>3, <2>4 DEF IsWalk
  <2>6. h[Len(p) + i] = Follow(h[Len(p) + (i - 1)], q[i])  BY <1>4, <2>4 DEF IsWalk
  <2> QED  BY <2>1, <2>4, <2>5, <2>6
<1> QED  BY <1>1, <1>3, <1>4, <1>6 DEF pq

\* A path without segments leads nowhere else.
LEMMA WalkStays ==
    ASSUME NEW m, NEW path, Len(path) = 0
    PROVE  Walk(m, path) = m
<1>1. PICK f : IsWalk(f, m, path, Len(path)) /\ Walk(m, path) = f[Len(path)]
  BY WalkIsWalk
<1> QED  BY <1>1 DEF IsWalk

(***************************************************************************)
(* The path of a list.                                                     *)
(***************************************************************************)
\* What UpPath takes from one level.
Accessor(i) == IF Parent(hierarchy[i]) = << >> THEN <<None>> ELSE Parent(hierarchy[i])

\* The first d sequences of s put behind each other, as a function of their
\* number.
IsFlat(f, s, d) == f = [i \in 1 .. d |-> IF i = 1 THEN s[i] ELSE f[i - 1] \o s[i]]

\* Some function is the concatenation of the first d sequences.
LEMMA FlatExists ==
    ASSUME NEW s, NEW d \in Nat
    PROVE  \E f : IsFlat(f, s, d)
<1> DEFINE T == {i \in Nat : ~ \E f : IsFlat(f, s, i)}
<1> SUFFICES ASSUME T # {}  PROVE FALSE  OBVIOUS
<1>1. PICK i \in T : \A j \in T : ~(j < i)  BY LeastNumber
<1>2. CASE i = 0
  <2>1. IsFlat([j \in 1 .. 0 |-> s], s, 0)  BY DEF IsFlat
  <2> QED  BY <1>1, <1>2, <2>1
<1>3. CASE i # 0
  <2>1. i \in Nat /\ i - 1 \in Nat /\ i - 1 < i /\ i - 1 \notin T  BY <1>1, <1>3
  <2>2. PICK f : IsFlat(f, s, i - 1)  BY <2>1
  <2> DEFINE g == [j \in 1 .. i |-> IF j < i THEN f[j]
                                    ELSE IF j = 1 THEN s[j] ELSE f[j - 1] \o s[j]]
  <2>3. ASSUME NEW j \in 1 .. i
        PROVE  g[j] = IF j = 1 THEN s[j] ELSE g[j - 1] \o s[j]
    <3>1. j # 1 => j - 1 \in 1 .. i /\ j - 1 < i  BY <2>1
    <3>2. CASE j < i
      <4>1. j \in 1 .. (i - 1)  BY <2>1, <3>2
      <4>2. f[j] = IF j = 1 THEN s[j] ELSE f[j - 1] \o s[j]  BY <2>2, <4>1 DEF IsFlat
      <4> QED  BY <3>1, <3>2, <4>2
    <3>3. CASE j = i
      BY <3>1, <3>3
    <3> QED  BY <2>1, <3>2, <3>3
  <2>4. IsFlat(g, s, i)  BY <2>3 DEF IsFlat
  <2> QED  BY <1>1, <2>4
<1> QED  BY <1>2, <1>3

\* The path from a level to itself is empty; every other is what the levels
\* above the last one give, put behind each other.
LEMMA UpPathIsFlat ==
    ASSUME NEW from \in Nat, NEW to \in Nat, to <= from
    PROVE  LET s == [k \in 1 .. (from - to) |-> Accessor(from + 1 - k)]
           IN  /\ from = to => UpPath(from, to) = << >>
               /\ from # to => \E f : /\ IsFlat(f, s, from - to)
                                      /\ UpPath(from, to) = f[from - to]
<1> DEFINE s == [k \in 1 .. (from - to) |-> Accessor(from + 1 - k)]
<1>1. UpPath(from, to) = FlattenSeq(s)  BY DEF UpPath, Accessor
<1>2. from - to \in Nat  OBVIOUS
<1>3. Len(s) = from - to /\ (from = to => s = << >>)
  <2> DEFINE S == {s[k] : k \in 1 .. (from - to)}
  <2>1. s \in [1 .. (from - to) -> S]  OBVIOUS
  <2>2. s \in Seq(S)  BY <1>2, <2>1, SeqDef
  <2>3. DOMAIN s = 1 .. Len(s) /\ Len(s) \in Nat  BY <2>2, LenProperties
  <2>4. Len(s) = from - to  BY <1>2, <2>3
  <2> HIDE DEF s
  <2> QED  BY <2>2, <2>4, EmptySeq
<1> HIDE DEF s
<1>4. CASE from = to
  <2>1. FlattenSeq(s) = s  BY <1>3, <1>4 DEF FlattenSeq
  <2> QED  BY <1>1, <1>3, <1>4, <2>1 DEF s
<1>5. CASE from # to
  <2>1. PICK f : IsFlat(f, s, Len(s))  BY <1>2, <1>3, FlatExists
  <2>2. \E g : /\ FlattenSeq(s) = g[Len(s)]
               /\ g = [i \in 1 .. Len(s) |-> IF i = 1 THEN s[i] ELSE g[i - 1] \o s[i]]
    <3>1. f = [i \in 1 .. Len(s) |-> IF i = 1 THEN s[i] ELSE f[i - 1] \o s[i]]
      BY <2>1 DEF IsFlat
    <3>2. Len(s) # 0  BY <1>3, <1>5
    <3> QED  BY <3>1, <3>2 DEF FlattenSeq
  <2>3. \E g : IsFlat(g, s, from - to) /\ UpPath(from, to) = g[from - to]
    BY <1>1, <1>3, <2>2 DEF IsFlat
  <2> QED  BY <1>5, <2>3 DEF s
<1> QED  BY <1>4, <1>5

\* In an accepted hierarchy whose accessors lead where they should, every level
\* below a modeled one is modeled and its accessor leads to the level above it.
LEMMA LevelsLeadUp ==
    ASSUME hierarchy \in Hierarchies, ~E002, ~E003, AccessorsLead,
           NEW rank \in Modeled, NEW i \in Ranks, rank < i
    PROVE  /\ i \in Modeled /\ i - 1 \in Modeled /\ i \in Nat /\ rank \in Nat
           /\ Accessor(i) = Parent(hierarchy[i]) /\ Accessor(i) \in Seq(STRING)
           /\ Walk(Label(hierarchy[i]), Accessor(i)) = Label(hierarchy[i - 1])
<1>1. hierarchy \in Seq(Range(hierarchy)) /\ Parent(hierarchy[i]) \in Seq(STRING)
  BY SettingAssumption DEF Ranks
<1>2. Ranks = 1 .. Len(hierarchy) /\ Len(hierarchy) \in Nat
  BY <1>1, LenProperties DEF Ranks
<1>3. rank \in Ranks /\ i \in Nat /\ rank \in Nat /\ i - 1 \in Ranks /\ rank <= i - 1 /\ rank # 0
  BY <1>2 DEF Modeled
<1>4. \A k \in Ranks : rank <= k => k \in Modeled
  BY <1>2, <1>3 DEF E002
<1>5. i \in Modeled /\ i - 1 \in Modeled  BY <1>3, <1>4
<1>6. Parent(hierarchy[i]) # << >>  BY <1>5 DEF E003
<1>7. Accessor(i) = Parent(hierarchy[i])  BY <1>6 DEF Accessor
<1>8. Walk(Label(hierarchy[i]), Parent(hierarchy[i])) = Label(hierarchy[i - 1])
  <2>1. \A k \in Modeled : k \in Nat  BY <1>2 DEF Modeled
  <2>2. i - 1 < i /\ \A k \in Modeled : ~(i - 1 < k /\ k < i)  BY <1>3, <2>1
  <2> QED  BY <1>5, <1>6, <2>2 DEF AccessorsLead
<1> QED  BY <1>1, <1>3, <1>5, <1>7, <1>8

\* The path a list follows from a level up to another exists and ends at that
\* level's model.
LEMMA PathLeadsUp ==
    ASSUME hierarchy \in Hierarchies, ~E002, ~E003, AccessorsLead,
           NEW rank \in Modeled, NEW i \in Ranks, rank <= i
    PROVE  /\ UpPath(i, rank) \in Seq(STRING)
           /\ Walk(Label(hierarchy[i]), UpPath(i, rank)) = Label(hierarchy[rank])
<1>1. Ranks = 1 .. Len(hierarchy) /\ Len(hierarchy) \in Nat
  BY SettingAssumption, LenProperties DEF Ranks
<1>2. i \in Nat /\ rank \in Nat /\ rank \in Ranks /\ i - rank \in Nat  BY <1>1 DEF Modeled
<1>3. CASE i = rank
  <2>1. UpPath(i, rank) = << >>  BY <1>2, <1>3, UpPathIsFlat
  <2>2. Len(<< >>) = 0 /\ << >> \in Seq(STRING)  BY EmptySeq
  <2> QED  BY <1>3, <2>1, <2>2, WalkStays
<1>4. CASE i # rank
  <2> DEFINE s == [k \in 1 .. (i - rank) |-> Accessor(i + 1 - k)]
  <2>1. PICK f : IsFlat(f, s, i - rank) /\ UpPath(i, rank) = f[i - rank]
    BY <1>2, <1>4, UpPathIsFlat
  <2> DEFINE Leads(k) == /\ f[k] \in Seq(STRING)
                         /\ Walk(Label(hierarchy[i]), f[k]) = Label(hierarchy[i - k])
             T == {k \in 1 .. (i - rank) : ~ Leads(k)}
  <2>2. T = {}
    <3> SUFFICES ASSUME T # {}  PROVE FALSE  OBVIOUS
    <3>1. T \subseteq Nat  OBVIOUS
    <3>2. PICK k \in T : \A j \in T : ~(j < k)  BY <3>1, LeastNumber
    <3>3. k \in 1 .. (i - rank) /\ k \in Nat /\ ~ Leads(k)  BY <3>2
    <3> DEFINE l == i + 1 - k
    <3>4. l \in Ranks /\ rank < l /\ l - 1 = i - k  BY <1>1, <1>2, <3>3
    <3>5. Accessor(l) \in Seq(STRING) /\ Walk(Label(hierarchy[l]), Accessor(l)) = Label(hierarchy[l - 1])
      BY <3>4, LevelsLeadUp
    <3>6. s[k] = Accessor(l) /\ f[k] = IF k = 1 THEN s[k] ELSE f[k - 1] \o s[k]
      BY <2>1, <3>3 DEF IsFlat
    <3>7. CASE k = 1
      <4>1. l = i  BY <1>2, <3>7
      <4>2. Leads(k)  BY <3>4, <3>5, <3>6, <3>7, <4>1
      <4> QED  BY <3>3, <4>2
    <3>8. CASE k # 1
      <4>1. k - 1 \in 1 .. (i - rank) /\ k - 1 < k /\ i - (k - 1) = l  BY <1>2, <3>3, <3>8
      <4>2. Leads(k - 1)  BY <3>2, <4>1
      <4>3. f[k] = f[k - 1] \o Accessor(l)  BY <3>6, <3>8
      <4>4. f[k] \in Seq(STRING)  BY <3>5, <4>2, <4>3, ConcatProperties
      <4>5. Walk(Label(hierarchy[i]), f[k]) = Walk(Walk(Label(hierarchy[i]), f[k - 1]), Accessor(l))
        BY <3>5, <4>2, <4>3, WalkGoesOn
      <4>6. Leads(k)  BY <3>4, <3>5, <4>1, <4>2, <4>4, <4>5
      <4> QED  BY <3>3, <4>6
    <3> QED  BY <3>7, <3>8
  <2>3. i - rank \in 1 .. (i - rank) /\ i - (i - rank) = rank  BY <1>2, <1>4
  <2>4. Leads(i - rank)  BY <2>2, <2>3
  <2> QED  BY <2>1, <2>3, <2>4
<1> QED  BY <1>3, <1>4

(***************************************************************************)
(* The invariant.                                                          *)
(***************************************************************************)
\* The configuration is one a host may write, a model has one policy, traffic
\* is served by what the checks accepted, and a stored assignment that has a
\* level was made at a node.
ConfigInv ==
    /\ hierarchy \in Hierarchies
    /\ \A m \in DOMAIN anchors : anchors[m] \in Paths
    /\ DOMAIN anchors \cap globals = {}
    /\ serving => Accepted
    /\ stored # None => stored[2] # None

\* The checks look at the settings and the registry only.
LEMMA AcceptedFrame ==
    ASSUME Accepted, UNCHANGED <<settings, registry>>
    PROVE  Accepted'
<1>1. /\ hierarchy' = hierarchy /\ ownerLevels' = ownerLevels /\ strict' = strict
      /\ anchors' = anchors /\ globals' = globals
  BY DEF settings, registry
<1>2. Ranks' = Ranks /\ Modeled' = Modeled  BY <1>1 DEF Ranks, Modeled
<1>3. NodeModels' = NodeModels /\ Registered' = Registered
  BY <1>1, <1>2 DEF NodeModels, Registered
<1>4. (~E001 => ~E001') /\ (~E002 => ~E002') /\ (~E003 => ~E003') /\ (~E004 => ~E004')
  BY <1>1, <1>2 DEF E001, E002, E003, E004
<1>5. (~E006 => ~E006') /\ (~E007 => ~E007') /\ (~E008 => ~E008')
  BY <1>1, <1>2 DEF E006, E007, E008
<1>6. ~E012 => ~E012'  BY <1>1, <1>3 DEF E012
<1> QED  BY <1>4, <1>5, <1>6 DEF Accepted

\* Every step of a deployment keeps the invariant.
LEMMA ConfigStep == ConfigInv /\ [Next]_vars => ConfigInv'
<1> SUFFICES ASSUME ConfigInv, [Next]_vars  PROVE ConfigInv'  OBVIOUS
<1> USE DEF ConfigInv
<1>1. ASSUME NEW m \in Resources, NEW path \in Paths, Register(m, path)
      PROVE  ConfigInv'
  BY <1>1 DEF Register, settings
<1>2. ASSUME NEW m \in Resources, RegisterGlobal(m)  PROVE ConfigInv'
  BY <1>2 DEF RegisterGlobal, Without, settings
<1>3. ASSUME NEW m \in Resources, Unregister(m)  PROVE ConfigInv'
  BY <1>3 DEF Unregister, Without, settings
<1>4. CASE RunChecks
  <2>1. Accepted'  BY <1>4, AcceptedFrame DEF RunChecks
  <2> QED  BY <1>4, <2>1 DEF RunChecks, settings, registry
<1>5. ASSUME NEW i \in Ranks, Grant(i)  PROVE ConfigInv'
  <2>1. Accepted'  BY <1>5, AcceptedFrame DEF Grant
  <2>2. stored'[2] # None  BY <1>5 DEF Grant, Modeled
  <2> QED  BY <1>5, <2>1, <2>2 DEF Grant, settings, registry
<1>6. CASE Redeploy
  <2>1. ~serving' /\ hierarchy' \in Hierarchies /\ stored' = stored
    BY <1>6 DEF Redeploy, Starts
  <2>2. DOMAIN anchors' = {} /\ globals' = {}  BY <1>6 DEF Redeploy, Starts, NoAnchors
  <2> QED  BY <2>1, <2>2
<1>7. CASE UNCHANGED vars
  <2>1. serving => Accepted'  BY <1>7, AcceptedFrame DEF vars
  <2> QED  BY <1>7, <2>1 DEF vars, settings, registry
<1> QED  BY <1>1, <1>2, <1>3, <1>4, <1>5, <1>6, <1>7 DEF Next

\* The invariant holds of every reachable state.
LEMMA ConfigAlways == Spec => []ConfigInv
<1>1. Init => ConfigInv
  BY DEF Init, NoAnchors, ConfigInv
<1> QED  BY <1>1, ConfigStep, PTL DEF Spec

(***************************************************************************)
(* What the checks accept the engine can work with.                        *)
(***************************************************************************)
\* SPEC 3: the paths that lists follow and the accessors that decisions walk
\* lead to the same models, whatever hierarchy the checks have accepted over
\* the assignments of the earlier ones.
THEOREM AssignmentsStayComparable == Spec => []StoredAssignmentsCompare
<1>1. ConfigInv => StoredAssignmentsCompare
  <2> SUFFICES ASSUME ConfigInv, serving, AccessorsLead, AccessorsAreShared,
                      Compared(stored)
               PROVE  LET rank == RankOf(stored[1])
                      IN  \A i \in {k \in Modeled : rank <= k} :
                              /\ Walk(Label(hierarchy[i]), UpPath(i, rank)) = stored[2]
                              /\ \A m \in DOMAIN anchors :
                                     Walk(m, anchors[m]) = Label(hierarchy[i]) =>
                                         Walk(m, anchors[m] \o UpPath(i, rank)) = stored[2]
                              /\ rank < i => ParentAccessor(Label(hierarchy[i]))
                                                = Parent(hierarchy[i])
    BY DEF StoredAssignmentsCompare
  <2> DEFINE rank == RankOf(stored[1])
  <2>1. hierarchy \in Hierarchies /\ ~E001 /\ ~E002 /\ ~E003
    BY DEF ConfigInv, Accepted
  <2>2. rank \in Modeled /\ Label(hierarchy[rank]) = stored[2]
    <3>1. PICK i \in Ranks : Name(hierarchy[i]) = stored[1]  BY DEF Compared, Known
    <3>2. {j \in Ranks : Name(hierarchy[j]) = stored[1]} = {i}  BY <2>1, <3>1 DEF E001
    <3>3. i \in Nat
      BY <2>1, <3>1, SettingAssumption, LenProperties DEF Ranks
    <3>4. rank = i  BY <3>2, <3>3 DEF RankOf
    <3>5. stored # None /\ Label(hierarchy[rank]) = stored[2]  BY DEF Compared
    <3> QED  BY <3>1, <3>4, <3>5 DEF Modeled, ConfigInv
  <2> HIDE DEF rank
  <2> SUFFICES ASSUME NEW i \in Modeled, rank <= i
               PROVE  /\ Walk(Label(hierarchy[i]), UpPath(i, rank)) = stored[2]
                      /\ \A m \in DOMAIN anchors :
                             Walk(m, anchors[m]) = Label(hierarchy[i]) =>
                                 Walk(m, anchors[m] \o UpPath(i, rank)) = stored[2]
                      /\ rank < i => ParentAccessor(Label(hierarchy[i]))
                                        = Parent(hierarchy[i])
    BY DEF rank
  <2>3. i \in Ranks  BY DEF Modeled
  <2>4. /\ UpPath(i, rank) \in Seq(STRING)
        /\ Walk(Label(hierarchy[i]), UpPath(i, rank)) = stored[2]
    BY <2>1, <2>2, <2>3, PathLeadsUp
  <2>5. ASSUME NEW m \in DOMAIN anchors, Walk(m, anchors[m]) = Label(hierarchy[i])
        PROVE  Walk(m, anchors[m] \o UpPath(i, rank)) = stored[2]
    <3>1. anchors[m] \in Seq(STRING)  BY SettingAssumption DEF ConfigInv
    <3> QED  BY <2>4, <2>5, <3>1, WalkGoesOn
  <2>6. rank < i => ParentAccessor(Label(hierarchy[i])) = Parent(hierarchy[i])
    BY <2>1, <2>2 DEF E003, AccessorsAreShared
  <2> QED  BY <2>4, <2>5, <2>6
<1> QED  BY <1>1, ConfigAlways, PTL

\* SPEC 4.1: in strict mode no model of the host's applications is without a
\* policy when traffic is accepted, and no model has two.
THEOREM ModelsHaveOnePolicy == Spec => []RegisteredModelsHaveOnePolicy
<1>1. ConfigInv => RegisteredModelsHaveOnePolicy
  <2> SUFFICES ASSUME ConfigInv, serving, strict, NEW m \in Models \ AutoCreated,
                      NEW n \in NodeModels \cup Registered, AppOf[m] = AppOf[n]
               PROVE  Kind(m) # "unregistered"
    BY DEF RegisteredModelsHaveOnePolicy, ConfigInv
  <2>1. m \in NodeModels \cup Registered  BY DEF ConfigInv, Accepted, E012
  <2>2. m \in NodeModels \/ m \in globals \/ m \in DOMAIN anchors
    BY <2>1 DEF Registered
  <2> QED  BY <2>2 DEF Kind
<1> QED  BY <1>1, ConfigAlways, PTL

=============================================================================
