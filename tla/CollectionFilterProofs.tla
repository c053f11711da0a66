------------------------ MODULE CollectionFilterProofs ------------------------
(***************************************************************************)
(* Machine-checked proofs that the database filters agree with the         *)
(* decisions on single objects, for every hierarchy, of any depth and any  *)
(* shape, and every database a deployment reaches.                         *)
(*                                                                         *)
(* A filter climbs a fixed number of parents by recursion; a decision uses *)
(* the least set closed under the parent accessor.  The two are related by *)
(* induction on the number of steps, in the form of a least counterexample.*)
(***************************************************************************)
EXTENDS ScopedAccessProofs, CollectionFilter, WellFoundedInduction

\* A nonempty set of naturals has a least element.
LEMMA LeastElement ==
    ASSUME NEW T, T \subseteq Nat, T # {}
    PROVE  \E i \in T : \A j \in T : ~(j < i)
<1> DEFINE R == OpToRel(<, Nat)
<1>1. IsWellFoundedOn(R, Nat)  BY NatLessThanWellFounded
<1>2. \E i \in T : \A j \in T : ~(<<j, i>> \in R)  BY <1>1, WFMin
<1> QED  BY <1>2 DEF OpToRel

(***************************************************************************)
(* Climbing.                                                               *)
(***************************************************************************)
\* One step up from m: Python's getattr chain, which stops at a null.
Up(m) == IF m \in Nodes THEN parent[m] ELSE None

\* The climb from n with at most d steps, as a function of their number.
IsClimb(f, n, d) == f = [i \in 0 .. d |-> IF i = 0 THEN n ELSE Up(f[i - 1])]

\* Some function is the climb from n with at most d steps.
LEMMA ClimbExists ==
    ASSUME NEW n, NEW d \in Nat
    PROVE  \E f : IsClimb(f, n, d)
<1> DEFINE T == {i \in Nat : ~ \E f : IsClimb(f, n, i)}
<1> SUFFICES ASSUME T # {}  PROVE FALSE  OBVIOUS
<1>1. PICK i \in T : \A j \in T : ~(j < i)  BY LeastElement
<1>2. CASE i = 0
  <2>1. IsClimb([j \in 0 .. 0 |-> n], n, 0)  BY DEF IsClimb
  <2> QED  BY <1>1, <1>2, <2>1
<1>3. CASE i # 0
  <2>1. i \in Nat /\ i - 1 \in Nat /\ i - 1 < i /\ i - 1 \notin T  BY <1>1, <1>3
  <2>2. PICK f : IsClimb(f, n, i - 1)  BY <2>1
  <2> DEFINE g == [j \in 0 .. i |-> IF j < i THEN f[j] ELSE Up(f[i - 1])]
  <2>3. ASSUME NEW j \in 0 .. i
        PROVE  g[j] = IF j = 0 THEN n ELSE Up(g[j - 1])
    <3>1. CASE j < i
      <4>1. j \in 0 .. (i - 1) /\ f[j] = IF j = 0 THEN n ELSE Up(f[j - 1])
        BY <2>1, <2>2, <3>1 DEF IsClimb
      <4>2. j # 0 => j - 1 \in 0 .. i /\ j - 1 < i  BY <2>1, <3>1
      <4> QED  BY <3>1, <4>1, <4>2
    <3>2. CASE j = i
      BY <1>3, <2>1, <3>2
    <3> QED  BY <2>1, <3>1, <3>2
  <2>4. IsClimb(g, n, i)  BY <2>3 DEF IsClimb
  <2> QED  BY <1>1, <2>4
<1> QED  BY <1>2, <1>3

\* Climb(n, d) is the last value of such a function.
LEMMA ClimbIsClimb ==
    ASSUME NEW n, NEW d \in Nat
    PROVE  \E f : IsClimb(f, n, d) /\ Climb(n, d) = f[d]
<1>1. PICK f : IsClimb(f, n, d)  BY ClimbExists
<1>2. f = [i \in 0 .. d |-> IF i = 0 THEN n
               ELSE IF f[i - 1] \in Nodes THEN parent[f[i - 1]] ELSE None]
  BY <1>1 DEF IsClimb, Up
<1>3. \E g : /\ Climb(n, d) = g[d]
             /\ g = [i \in 0 .. d |-> IF i = 0 THEN n
                        ELSE IF g[i - 1] \in Nodes THEN parent[g[i - 1]] ELSE None]
  BY <1>2 DEF Climb
<1> QED  BY <1>3 DEF IsClimb, Up

\* Two climbs from one node agree as far as both go.
LEMMA ClimbsAgree ==
    ASSUME NEW n, NEW d \in Nat, NEW e \in Nat, NEW f, NEW g,
           IsClimb(f, n, d), IsClimb(g, n, e), NEW i \in 0 .. d, i <= e
    PROVE  f[i] = g[i]
<1> DEFINE T == {j \in Nat : j <= d /\ j <= e /\ f[j] # g[j]}
<1> SUFFICES ASSUME T # {}  PROVE FALSE  OBVIOUS
<1>1. PICK j \in T : \A k \in T : ~(k < j)  BY LeastElement
<1>2. /\ f[j] = IF j = 0 THEN n ELSE Up(f[j - 1])
      /\ g[j] = IF j = 0 THEN n ELSE Up(g[j - 1])
  BY <1>1 DEF IsClimb
<1>3. j # 0 => f[j - 1] = g[j - 1]
  <2>1. j # 0 => j - 1 \in Nat /\ j - 1 < j /\ j - 1 <= d /\ j - 1 <= e  BY <1>1
  <2> QED  BY <1>1, <2>1
<1> QED  BY <1>1, <1>2, <1>3

\* The recursion equations of Climb.
LEMMA ClimbSteps ==
    ASSUME NEW n
    PROVE  /\ Climb(n, 0) = n
           /\ \A d \in Nat : Climb(n, d + 1) = Up(Climb(n, d))
<1>1. Climb(n, 0) = n  BY ClimbIsClimb DEF IsClimb
<1>2. ASSUME NEW d \in Nat  PROVE Climb(n, d + 1) = Up(Climb(n, d))
  <2>1. d + 1 \in Nat /\ d + 1 # 0 /\ d + 1 - 1 = d  OBVIOUS
  <2>2. PICK f : IsClimb(f, n, d) /\ Climb(n, d) = f[d]  BY ClimbIsClimb
  <2>3. PICK g : IsClimb(g, n, d + 1) /\ Climb(n, d + 1) = g[d + 1]
    BY <2>1, ClimbIsClimb
  <2>4. f[d] = g[d]  BY <2>1, <2>2, <2>3, ClimbsAgree
  <2>5. g[d + 1] = Up(g[d])  BY <2>1, <2>3 DEF IsClimb
  <2> QED  BY <2>2, <2>3, <2>4, <2>5
<1> QED  BY <1>1, <1>2

\* A climb stays within every closed set, so it meets ancestors only.
LEMMA ClimbMeetsAncestors ==
    ASSUME TypeOK, NEW n \in Nodes, NEW d \in Nat, Climb(n, d) \in Nodes
    PROVE  Climb(n, d) \in Ancestors(n)
<1> SUFFICES ASSUME NEW S \in SUBSET Nodes, n \in S, Closed(S)
             PROVE  Climb(n, d) \in S
  BY DEF Ancestors
<1> DEFINE T == {i \in Nat : Climb(n, i) \in Nodes \ S}
<1> SUFFICES ASSUME T # {}  PROVE FALSE  OBVIOUS
<1>1. PICK i \in T : \A j \in T : ~(j < i)  BY LeastElement
<1>2. i # 0  BY <1>1, ClimbSteps
<1>3. i - 1 \in Nat /\ i - 1 < i /\ i = (i - 1) + 1  BY <1>1, <1>2
<1>4. Climb(n, i) = Up(Climb(n, i - 1)) /\ i - 1 \notin T
  BY <1>1, <1>3, ClimbSteps
<1>5. Climb(n, i - 1) \in S  BY <1>1, <1>3, <1>4, NoneAssumption DEF Up
<1> QED  BY <1>1, <1>4, <1>5 DEF Closed, Up

(***************************************************************************)
(* Soundness: a list shows nothing the decision denies.                    *)
(***************************************************************************)
\* The rank of a level is its place in the order.
LEMMA RankIsNatural ==
    ASSUME NEW level \in Levels
    PROVE  Rank(level) \in DOMAIN LevelOrder /\ LevelOrder[Rank(level)] = level
           /\ Rank(level) \in Nat
<1>1. \E i \in DOMAIN LevelOrder : LevelOrder[i] = level  BY OrderAssumption
<1>2. DOMAIN LevelOrder \subseteq Nat  BY OrderAssumption
<1> QED  BY <1>1, <1>2 DEF Rank

\* What is known of an assignment with authority.
LEMMA AuthorityShape ==
    ASSUME TypeOK, NEW u, NEW a \in Authority(u)
    PROVE  /\ a \in Rows /\ rows[a] \in Row /\ RolePerms(a) \subseteq Permissions
           /\ ~IsRootScope(a) => /\ rows[a].scope \in nodes
                                 /\ rows[a].level \in ModeledLevels
                                 /\ rows[a].level \in kind[rows[a].scope]
<1>1. a \in Rows /\ ScopeIsValid(a)  BY DEF Authority, IsValid
<1>2. rows[a] \in Row  BY <1>1 DEF TypeOK, Rows
<1>3. RolePerms(a) \subseteq Permissions
  BY <1>2 DEF Row, RolePerms, TypeOK, RoleRecord
<1>4. ASSUME ~IsRootScope(a)
      PROVE  /\ rows[a].scope \in nodes /\ rows[a].level \in ModeledLevels
             /\ rows[a].level \in kind[rows[a].scope]
  BY <1>1, <1>4 DEF ScopeIsValid, SelectsNode, TypeOK
<1> QED  BY <1>1, <1>2, <1>3, <1>4

\* The path a filter follows ends at an ancestor, so the assignment covers.
LEMMA ReachedIsCovered ==
    ASSUME TypeOK, NEW u, NEW a \in Authority(u), NEW n \in nodes,
           NEW level \in ModeledLevels, Reaches(a, n, level)
    PROVE  Covers(a, n)
<1>1. n \in Nodes /\ n # UNREGISTERED  BY AnchorAssumption DEF TypeOK
<1>2. CASE IsRootScope(a)  BY <1>1, <1>2 DEF Covers
<1>3. CASE ~IsRootScope(a)
  <2>1. /\ rows[a].scope \in Nodes /\ rows[a].level \in Levels /\ level \in Levels
    BY <1>3, AuthorityShape DEF Levels, TypeOK
  <2>2. Rank(level) - Rank(rows[a].level) \in Nat
    BY <1>3, <2>1, RankIsNatural DEF Reaches
  <2>3. Climb(n, Rank(level) - Rank(rows[a].level)) = rows[a].scope
    BY <1>3 DEF Reaches, UpPath
  <2>4. rows[a].scope \in Ancestors(n)
    BY <1>1, <2>1, <2>2, <2>3, ClimbMeetsAncestors
  <2> QED  BY <1>1, <2>4 DEF Covers
<1> QED  BY <1>2, <1>3

\* A contributing grant that covers the target is enough for the single check.
LEMMA CoveringDecides ==
    ASSUME NEW u, NEW p \in Asked, NEW t, u \in active,
           u \in SuperUsers \/ \E a \in Contributing(u, p) : Covers(a, t)
    PROVE  Decides(u, p, t)
<1>1. CASE u \in SuperUsers  BY <1>1 DEF Decides, UserCovers, HasPerm
<1>2. CASE \E a \in Contributing(u, p) : Covers(a, t)
  <2>1. PICK a \in Authority(u) : Covers(a, t) /\ (p = None \/ p \in RolePerms(a))
    BY <1>2 DEF Contributing
  <2>2. CASE p = None  BY <2>1, <2>2 DEF Decides, UserCovers
  <2>3. CASE p # None
    <3>1. p \in UserPermissions(u, t)  BY <2>1, <2>3 DEF UserPermissions
    <3> QED  BY <2>3, <3>1 DEF Decides, HasPerm
  <2> QED  BY <2>2, <2>3
<1> QED  BY <1>1, <1>2

\* FilterIsSound: whatever the host's tree looks like, a list never shows
\* what the check on the single object denies.
THEOREM ListsAreSound == Spec => []FilterIsSound
<1>1. ASSUME TypeOK, NEW u \in Users, NEW p \in Asked, NEW model \in Models,
             NEW n \in VisibleNodes(u, model, p) \cup VisibleAnchors(u, model, p)
      PROVE  Decides(u, p, n)
  <2>1. n \in nodes /\ u \in active
    BY <1>1 DEF VisibleNodes, VisibleAnchors, AccessibleNodes
  <2>2. \/ u \in SuperUsers
        \/ \E a \in Contributing(u, p), level \in ModeledLevels : Reaches(a, n, level)
    BY <1>1 DEF VisibleNodes, VisibleAnchors, AccessibleNodes, LevelsForModel
  <2>3. u \in SuperUsers \/ \E a \in Contributing(u, p) : Covers(a, n)
    BY <1>1, <2>1, <2>2, ReachedIsCovered DEF Contributing
  <2> QED  BY <2>1, <2>3, CoveringDecides
<1>2. ASSUME TypeOK, NEW u \in Users, NEW p \in Asked, NEW t \in Anchorless,
             VisibleUnanchored(u, p, t)
      PROVE  Decides(u, p, t)
  <2>1. u \in active  BY <1>2 DEF VisibleUnanchored
  <2>2. CASE u \in SuperUsers  BY <2>1, <2>2, CoveringDecides
  <2>3. CASE t = GLOBAL /\ (p = None \/ p \in UserPermissions(u, GLOBAL))
    BY <2>1, <2>3 DEF Decides, UserCovers, HasPerm
  <2>4. CASE t = DENIED /\ \E a \in Contributing(u, p) : IsRootScope(a)
    BY <2>1, <2>4, AnchorAssumption, CoveringDecides DEF Covers
  <2> QED  BY <1>2, <2>2, <2>3, <2>4 DEF VisibleUnanchored
<1>3. TypeOK => FilterIsSound  BY <1>1, <1>2 DEF FilterIsSound
<1> QED  BY <1>3, TypeCorrect, PTL

\* SummaryAgreesWithDecisions: the summary of a user names exactly what the
\* decisions confer.
THEOREM SummariesAgree == Spec => []SummaryAgreesWithDecisions
<1>1. ASSUME TypeOK, NEW u \in Users \ SuperUsers
      PROVE  SummaryPermissions(u) = {p \in Permissions : HasPerm(u, p, GLOBAL)}
  <2>1. \A a \in Authority(u) : Covers(a, GLOBAL)  BY AnchorAssumption DEF Covers
  <2>2. \A a \in Authority(u) : RolePerms(a) \subseteq Permissions
    BY <1>1, AuthorityShape
  <2>3. CASE u \in active
    BY <1>1, <2>1, <2>2, <2>3 DEF SummaryPermissions, Summarized, HasPerm, UserPermissions
  <2>4. CASE u \notin active
    BY <2>4 DEF SummaryPermissions, Summarized, HasPerm
  <2> QED  BY <2>3, <2>4
<1>2. ASSUME TypeOK, NEW u \in Users, NEW a \in Summarized(u), NEW p \in Permissions,
             p \in RolePerms(a)
      PROVE  HasPerm(u, p, IF IsRootScope(a) THEN DENIED ELSE rows[a].scope)
  <2>1. u \in active /\ a \in Authority(u)  BY <1>2 DEF Summarized
  <2>2. Covers(a, IF IsRootScope(a) THEN DENIED ELSE rows[a].scope)
    <3>1. CASE IsRootScope(a)  BY <3>1, AnchorAssumption DEF Covers
    <3>2. CASE ~IsRootScope(a)
      <4>1. rows[a].scope \in Nodes  BY <1>2, <2>1, <3>2, AuthorityShape DEF TypeOK
      <4> QED  BY <3>2, <4>1, AncestorsReflexive, AnchorAssumption DEF Covers
    <3> QED  BY <3>1, <3>2
  <2> QED  BY <1>2, <2>1, <2>2 DEF HasPerm, UserPermissions
<1>3. TypeOK => SummaryAgreesWithDecisions
  BY <1>1, <1>2 DEF SummaryAgreesWithDecisions
<1> QED  BY <1>3, TypeCorrect, PTL

(***************************************************************************)
(* Completeness: where every parent lies one level up, a list shows all    *)
(* that the decision allows.                                               *)
(***************************************************************************)
\* The climb meets every ancestor.
LEMMA ClimbMeetsAll ==
    ASSUME TypeOK, NEW n \in Nodes, NEW m \in Ancestors(n)
    PROVE  \E i \in Nat : Climb(n, i) = m
<1> DEFINE S == {c \in Nodes : \E i \in Nat : Climb(n, i) = c}
<1>1. n \in S
  <2>1. Climb(n, 0) = n  BY ClimbSteps
  <2> QED  BY <2>1
<1>2. Closed(S)
  <2> SUFFICES ASSUME NEW c \in S, parent[c] \in Nodes  PROVE parent[c] \in S
    BY DEF Closed
  <2>1. PICK i \in Nat : Climb(n, i) = c  OBVIOUS
  <2>2. Climb(n, i + 1) = parent[c] /\ i + 1 \in Nat  BY <2>1, ClimbSteps DEF Up
  <2> QED  BY <2>2
<1>3. m \in S  BY <1>1, <1>2 DEF Ancestors
<1> QED  BY <1>3

\* engine.py, iter_ancestors: the nodes the loop yields, one parent after the
\* other, are exactly Ancestors, the least closed set all decisions are
\* modelled with.
THEOREM WalkYieldsAncestors ==
    Spec => [](\A n \in Nodes : Ancestors(n) = {m \in Nodes : \E i \in Nat : Climb(n, i) = m})
<1>1. ASSUME TypeOK, NEW n \in Nodes
      PROVE  Ancestors(n) = {m \in Nodes : \E i \in Nat : Climb(n, i) = m}
  BY <1>1, ClimbMeetsAll, ClimbMeetsAncestors, AncestorsReflexive
<1>2. TypeOK => \A n \in Nodes : Ancestors(n) = {m \in Nodes : \E i \in Nat : Climb(n, i) = m}
  BY <1>1
<1> QED  BY <1>2, TypeCorrect, PTL

\* No set of nodes keeps a walk within it for ever.
Forest(above) == \A S \in SUBSET Nodes : (\A m \in S : above[m] \in S) => S = {}

\* The host moves a node below nodes it is no ancestor of, and so makes no
\* circle.
LEMMA MoveKeepsForest ==
    ASSUME TypeOK, Forest(parent), NEW n, NEW p, MoveNode(n, p)
    PROVE  Forest(parent)'
<1> SUFFICES ASSUME NEW S \in SUBSET Nodes, \A m \in S : parent'[m] \in S, S # {}
             PROVE  FALSE
  BY DEF Forest
<1>1. n \in Nodes /\ parent' = [parent EXCEPT ![n] = p]  BY DEF MoveNode, TypeOK
<1>2. parent'[n] = p /\ \A m \in Nodes \ {n} : parent'[m] = parent[m]
  BY <1>1 DEF TypeOK
<1>3. n \in S
  <2> SUFFICES ASSUME n \notin S  PROVE FALSE  OBVIOUS
  <2>1. \A m \in S : parent[m] \in S  BY <1>2
  <2> QED  BY <2>1 DEF Forest
<1>4. p \in S /\ p \in Nodes /\ n \notin Ancestors(p)
  BY <1>2, <1>3, NoneAssumption DEF MoveNode
<1> DEFINE A == S \cap Ancestors(p)
<1>5. p \in A  BY <1>4, AncestorsReflexive
<1>6. ASSUME NEW m \in A  PROVE parent[m] \in A
  <2>1. parent[m] = parent'[m] /\ parent[m] \in S  BY <1>2, <1>4
  <2>2. parent[m] \in Ancestors(m)
    BY <2>1 DEF Ancestors, Closed
  <2> QED  BY <2>1, <2>2, AncestorsTransitive
<1> QED  BY <1>5, <1>6 DEF Forest

\* engine.py, iter_ancestors: where the host starts with a forest, and moves a
\* node only below nodes it is no ancestor of, no sequence of moves, deletions
\* and reclassifications makes the loop over the parents endless.
THEOREM WalksEnd ==
    ASSUME Forest(InitParent)
    PROVE  Spec => [](\A n \in Nodes : \E i \in Nat : Climb(n, i) \notin Nodes)
<1>1. Init => Forest(parent)  BY DEF Init
<1>2. ASSUME TypeOK, Forest(parent), [Next]_db  PROVE Forest(parent)'
  <2>1. CASE UNCHANGED parent  BY <1>2, <2>1 DEF Forest
  <2>2. CASE \E n, p : MoveNode(n, p)  BY <1>2, <2>2, MoveKeepsForest
  <2>3. UNCHANGED parent \/ \E n, p : MoveNode(n, p)
    <3>1. ASSUME NEW by \in Actors, ApiStep(by)  PROVE UNCHANGED parent
      <4>1. CASE AssignmentStep(by)
        <5>1. ASSUME NEW u, NEW r, NEW level, NEW scope, NEW w, Grant(by, u, r, level, scope, w)
              PROVE  UNCHANGED hostVars
          BY <5>1 DEF Grant
        <5>2. ASSUME NEW a, Suspend(by, a) \/ Reactivate(by, a) \/ Revoke(by, a)
              PROVE  UNCHANGED hostVars
          BY <5>2 DEF Suspend, Reactivate, Revoke, Transition
        <5>3. UNCHANGED hostVars  BY <4>1, <5>1, <5>2 DEF AssignmentStep
        <5> QED  BY <5>3 DEF hostVars
      <4>2. CASE RoleEdit(by)
        BY <4>2 DEF RoleEdit, CreateRole, GrantPermissions, RevokePermissions, DeleteRole,
                    hostVars
      <4>3. CASE RoleMove(by)
        BY <4>3 DEF RoleMove, UpdateRole, hostVars
      <4> QED  BY <3>1, <4>1, <4>2, <4>3 DEF ApiStep
    <3>2. HostStep \/ Tick \/ UNCHANGED db => UNCHANGED parent \/ \E n, p : MoveNode(n, p)
      BY DEF HostStep, SetActive, DeleteNode, Reclassify, Tick, db
    <3> QED  BY <1>2, <3>1, <3>2 DEF Next
  <2> QED  BY <2>1, <2>2, <2>3
<1>3. ASSUME Forest(parent), NEW n \in Nodes
      PROVE  \E i \in Nat : Climb(n, i) \notin Nodes
  <2> SUFFICES ASSUME \A i \in Nat : Climb(n, i) \in Nodes  PROVE FALSE  OBVIOUS
  <2> DEFINE S == {Climb(n, i) : i \in Nat}
  <2>1. S \in SUBSET Nodes  OBVIOUS
  <2>2. ASSUME NEW i \in Nat  PROVE parent[Climb(n, i)] \in S
    <3>1. i + 1 \in Nat /\ Climb(n, i + 1) = parent[Climb(n, i)]  BY ClimbSteps DEF Up
    <3> QED  BY <3>1
  <2>3. n \in S  BY ClimbSteps
  <2>4. \A m \in S : parent[m] \in S  BY <2>2
  <2> QED  BY <1>3, <2>1, <2>3, <2>4 DEF Forest
<1>4. Forest(parent) => \A n \in Nodes : \E i \in Nat : Climb(n, i) \notin Nodes
  BY <1>3
<1> QED  BY <1>1, <1>2, <1>4, TypeCorrect, PTL DEF Spec

\* In a layered tree each step of the climb goes up one rank.
LEMMA ClimbGoesUpByRank ==
    ASSUME TypeOK, NEW n \in Layered(NextRank), NEW level, kind[n] = {level},
           NEW i \in Nat, Climb(n, i) \in Nodes
    PROVE  \E high \in ModeledLevels :
               kind[Climb(n, i)] = {high} /\ Rank(high) + i = Rank(level)
<1> DEFINE Ranked(j) == \E high \in ModeledLevels :
                            kind[Climb(n, j)] = {high} /\ Rank(high) + j = Rank(level)
           T == {j \in Nat : Climb(n, j) \in Nodes /\ ~Ranked(j)}
<1> SUFFICES ASSUME T # {}  PROVE FALSE  OBVIOUS
<1>1. /\ n \in Nodes
      /\ \A m \in Ancestors(n) :
             /\ \E l \in ModeledLevels : kind[m] = {l}
             /\ parent[m] \in Nodes => \A low \in kind[m], high \in kind[parent[m]] :
                                           Rank(low) = Rank(high) + 1
  BY DEF Layered, NextRank, TypeOK
<1>2. PICK j \in T : \A k \in T : ~(k < j)  BY LeastElement
<1>3. PICK high \in ModeledLevels : kind[Climb(n, j)] = {high}
  BY <1>1, <1>2, ClimbMeetsAncestors
<1>4. Rank(high) \in Nat  BY <1>3, RankIsNatural DEF Levels
<1>5. CASE j = 0
  <2>1. Climb(n, 0) = n  BY ClimbSteps
  <2> QED  BY <1>2, <1>3, <1>4, <1>5, <2>1
<1>6. CASE j # 0
  <2> DEFINE c == Climb(n, j - 1)
  <2>1. j - 1 \in Nat /\ j - 1 < j /\ (j - 1) + 1 = j  BY <1>2, <1>6
  <2>2. Climb(n, j) = Up(c)  BY <2>1, ClimbSteps
  <2>3. c \in Nodes /\ Climb(n, j) = parent[c]
    BY <1>2, <2>2, NoneAssumption DEF Up
  <2>4. Ranked(j - 1)  BY <1>2, <2>1, <2>3
  <2>5. PICK low \in ModeledLevels : kind[c] = {low} /\ Rank(low) + (j - 1) = Rank(level)
    BY <2>4
  <2>6. c \in Ancestors(n)  BY <1>1, <2>1, <2>3, ClimbMeetsAncestors
  <2>7. Rank(low) = Rank(high) + 1  BY <1>1, <1>2, <1>3, <2>3, <2>5, <2>6
  <2> QED  BY <1>2, <1>3, <1>4, <2>1, <2>5, <2>7
<1> QED  BY <1>5, <1>6

\* So the filter's path, one step per rank, ends at the assignment's node.
LEMMA CoveredIsReached ==
    ASSUME TypeOK, NEW u, NEW a \in Authority(u), NEW n \in Layered(NextRank),
           NEW level \in ModeledLevels, kind[n] = {level}, Covers(a, n)
    PROVE  Reaches(a, n, level)
<1>1. n \in Nodes  BY DEF Layered, TypeOK
<1>2. CASE IsRootScope(a)  BY <1>2 DEF Reaches
<1>3. CASE ~IsRootScope(a)
  <2>1. rows[a].scope \in Ancestors(n)  BY <1>1, <1>3, AnchorAssumption DEF Covers
  <2>2. PICK i \in Nat : Climb(n, i) = rows[a].scope  BY <1>1, <2>1, ClimbMeetsAll
  <2>3. rows[a].scope \in Nodes /\ rows[a].level \in kind[rows[a].scope]
    BY <1>3, AuthorityShape DEF TypeOK
  <2>4. PICK high \in ModeledLevels :
            kind[Climb(n, i)] = {high} /\ Rank(high) + i = Rank(level)
    BY <2>2, <2>3, ClimbGoesUpByRank
  <2>5. high = rows[a].level  BY <2>2, <2>3, <2>4
  <2>6. Rank(high) \in Nat  BY RankIsNatural DEF Levels
  <2>7. Rank(high) <= Rank(level) /\ Rank(level) - Rank(high) = i  BY <2>4, <2>6
  <2> QED  BY <2>2, <2>5, <2>7 DEF Reaches, UpPath
<1> QED  BY <1>2, <1>3

\* FilterIsComplete: where every parent lies one level up, a list shows all
\* that the check on the single object allows.
THEOREM ListsAreComplete == Spec => []FilterIsComplete
<1>1. ASSUME TypeOK, NEW u \in Users, NEW p \in Asked, NEW n \in Layered(NextRank),
             Decides(u, p, n)
      PROVE  \E level \in kind[n] :
                 /\ n \in VisibleNodes(u, ModelOf[level], p)
                 /\ n \in VisibleAnchors(u, ModelOf[level], p)
  <2>1. n \in nodes /\ n \in Nodes  BY <1>1 DEF Layered, TypeOK
  <2>2. n \in Ancestors(n)  BY <2>1, AncestorsReflexive
  <2>3. PICK level \in ModeledLevels : kind[n] = {level}  BY <2>2 DEF Layered
  <2>4. u \in active /\ (u \in SuperUsers \/ \E a \in Contributing(u, p) : Covers(a, n))
    <3>1. CASE p = None
      BY <1>1, <2>1, <3>1, AnchorAssumption DEF Decides, UserCovers, Contributing
    <3>2. CASE p # None
      BY <1>1, <3>2 DEF Decides, HasPerm, UserPermissions, Contributing
    <3> QED  BY <3>1, <3>2
  <2>5. u \in SuperUsers \/ \E a \in Contributing(u, p) : Reaches(a, n, level)
    BY <1>1, <2>3, <2>4, CoveredIsReached DEF Contributing
  <2>6. level \in LevelsForModel(ModelOf[level])  BY DEF LevelsForModel
  <2>7. n \in AccessibleNodes(u, level, p)
    BY <2>1, <2>3, <2>4, <2>5 DEF AccessibleNodes, SelectsNode
  <2>8. n \in VisibleAnchors(u, ModelOf[level], p)
    BY <2>1, <2>4, <2>5, <2>6 DEF VisibleAnchors
  <2> QED  BY <2>3, <2>6, <2>7, <2>8 DEF VisibleNodes
<1>2. TypeOK => FilterIsComplete  BY <1>1 DEF FilterIsComplete, Listed
<1> QED  BY <1>2, TypeCorrect, PTL

=============================================================================
