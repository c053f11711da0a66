------------------------- MODULE MutationGuardsProofs -------------------------
(***************************************************************************)
(* Machine-checked proofs about MutationGuards: for any contexts, however  *)
(* deep blocks nest, and for any roles, permissions and assignments.       *)
(***************************************************************************)
EXTENDS MutationGuards, Integers, SequenceTheorems, TLAPS

(***************************************************************************)
(* The open blocks as a stack, the innermost one last.                     *)
(***************************************************************************)
\* A block that is entered comes on top of those that are open.
LEMMA Pushed ==
    ASSUME NEW S, NEW s \in Seq(S), NEW b \in S
    PROVE  /\ Append(s, b) \in Seq(S) /\ Len(Append(s, b)) = Len(s) + 1
           /\ DOMAIN s = 1 .. Len(s) /\ Len(s) \in Nat
           /\ DOMAIN Append(s, b) = DOMAIN s \cup {Len(s) + 1}
           /\ \A i \in DOMAIN s : Append(s, b)[i] = s[i] /\ i < Len(s) + 1
           /\ Append(s, b)[Len(s) + 1] = b
<1>1. /\ Append(s, b) \in Seq(S) /\ Len(Append(s, b)) = Len(s) + 1
      /\ \A i \in 1 .. Len(s) : Append(s, b)[i] = s[i]
      /\ Append(s, b)[Len(s) + 1] = b
  BY AppendProperties
<1>2. DOMAIN Append(s, b) = 1 .. Len(s) + 1 /\ DOMAIN s = 1 .. Len(s) /\ Len(s) \in Nat
  BY <1>1, LenProperties
<1> QED  BY <1>1, <1>2

\* The innermost block that is left is taken away.
LEMMA Popped ==
    ASSUME NEW S, NEW s \in Seq(S), s # << >>
    PROVE  LET t == SubSeq(s, 1, Len(s) - 1)
           IN  /\ t \in Seq(S) /\ Len(t) = Len(s) - 1
               /\ DOMAIN s = DOMAIN t \cup {Len(s)} /\ Len(s) \notin DOMAIN t
               /\ \A i \in DOMAIN t : t[i] = s[i] /\ i < Len(s)
               /\ Len(s) \in Nat \ {0} /\ s[Len(s)] \in S
<1> DEFINE t == SubSeq(s, 1, Len(s) - 1)
<1>1. Len(s) \in Nat /\ Len(s) # 0 /\ DOMAIN s = 1 .. Len(s)
  BY LenProperties, EmptySeq
<1>2. s[Len(s)] \in S  BY <1>1, ElementOfSeq
<1>3. /\ t \in Seq(S) /\ Len(t) = Len(s) - 1
      /\ \A i \in 1 .. Len(s) - 1 : t[i] = s[i]
  BY <1>1, SubSeqProperties
<1>4. DOMAIN t = 1 .. Len(s) - 1  BY <1>3, LenProperties
<1> QED  BY <1>1, <1>2, <1>3, <1>4

(***************************************************************************)
(* Type correctness.                                                       *)
(***************************************************************************)
\* Blocks and tasks keep the context variables typed.
LEMMA ContextStepTyped ==
    ASSUME TypeOK, NEW c \in Contexts, ContextStep(c)
    PROVE  TypeOK'
<1> USE DEF TypeOK
<1>1. ASSUME NEW area \in Areas, Enter(c, area)  PROVE TypeOK'
  <2> DEFINE b == [area |-> area, token |-> area \in flag[c]]
  <2>1. b \in Block  BY DEF Block
  <2>2. Append(blocks[c], b) \in Seq(Block)  BY <2>1, Pushed
  <2>3. blocks' = [blocks EXCEPT ![c] = Append(blocks[c], b)]  BY <1>1 DEF Enter
  <2> QED  BY <1>1, <2>2, <2>3 DEF Enter, Reset, tables
<1>2. CASE Leave(c)
  <2> DEFINE s == blocks[c]
             t == SubSeq(s, 1, Len(s) - 1)
  <2>1. s \in Seq(Block) /\ s # << >>  BY <1>2 DEF Leave
  <2>2. t \in Seq(Block) /\ s[Len(s)] \in Block  BY <2>1, Popped
  <2>3. blocks' = [blocks EXCEPT ![c] = t]  BY <1>2 DEF Leave
  <2>4. flag' \in [Contexts -> SUBSET Areas]
    BY <1>2, <2>2 DEF Leave, Reset, Block
  <2> QED  BY <1>2, <2>2, <2>3, <2>4 DEF Leave, tables
<1>3. ASSUME NEW d \in Contexts, Spawn(c, d)  PROVE TypeOK'
  BY <1>3 DEF Spawn, tables
<1>4. CASE Finish(c)  BY <1>4 DEF Finish, tables
<1> QED  BY <1>1, <1>2, <1>3, <1>4 DEF ContextStep

\* Blocks and tasks change no table.
LEMMA ContextStepTables ==
    ASSUME NEW c \in Contexts, ContextStep(c)
    PROVE  UNCHANGED tables
BY DEF ContextStep, Enter, Leave, Spawn, Finish

\* An UPDATE that names no protected field changes nothing modelled.
LEMMA UnprotectedUpdate ==
    ASSUME TypeOK, NEW k \in Keys, assignments[k] # Absent, NEW values,
           DOMAIN values \cap Protected = {}, Assign(k, values)
    PROVE  UNCHANGED assignments
<1> DEFINE a == assignments[k]
<1>1. /\ "role" \notin DOMAIN values /\ "scope" \notin DOMAIN values
      /\ "status" \notin DOMAIN values
  BY DEF Protected
<1>2. a \in Row  BY DEF TypeOK
<1>3. a = [role |-> a.role, scope |-> a.scope, status |-> a.status]  BY <1>2 DEF Row
<1>4. assignments' = [assignments EXCEPT ![k] =
                         [role |-> a.role, scope |-> a.scope, status |-> a.status]]
  BY <1>1 DEF Assign
<1>5. assignments' = [assignments EXCEPT ![k] = a]
  <2> HIDE DEF a
  <2> QED  BY <1>3, <1>4
<1> QED  BY <1>5 DEF TypeOK

\* A row is written under a key, by a service's block or a loaded instance's
\* copy in a free place.
Written(c) ==
    /\ UNCHANGED <<context, roles, permissions, links>>
    /\ \E k \in Keys, row \in Row :
           /\ roles[row.role] # Absent
           /\ assignments' = [assignments EXCEPT ![k] = row]
           /\ Managed(c, "assignment") \/ (CopiesLoaded /\ assignments[k] = Absent)

\* What save does to the table: nothing, or it writes one row.
LEMMA SavedAssignment ==
    ASSUME TypeOK, NEW c \in Contexts, NEW pk \in Keys \cup {None},
           NEW adding \in BOOLEAN, NEW named \in BOOLEAN, NEW values,
           Instance(pk, adding), named \/ values \in Row,
           SaveAssignment(c, pk, adding, named, values)
    PROVE  UNCHANGED <<context, tables>> \/ Written(c)
<1>1. CASE pk = None
  <2>1. ~named /\ values \in Row /\ roles[values.role] # Absent
    BY <1>1, GuardAssumption DEF SaveAssignment
  <2>2. PICK k \in Keys : /\ assignments[k] = Absent
                         /\ assignments' = [assignments EXCEPT ![k] = values]
    BY <1>1, GuardAssumption DEF SaveAssignment
  <2>3. Managed(c, "assignment") \/ CopiesLoaded
    BY <1>1 DEF SaveAssignment, SaveGuard, Instance
  <2> QED  BY <2>1, <2>2, <2>3 DEF SaveAssignment, Written
<1>2. CASE pk # None
  <2>1. /\ pk \in Keys /\ assignments[pk] # Absent
        /\ DOMAIN values \cap Protected = {} /\ Assign(pk, values)
    BY <1>2 DEF SaveAssignment, SaveGuard
  <2>2. UNCHANGED assignments  BY <2>1, UnprotectedUpdate
  <2> QED  BY <2>2 DEF SaveAssignment, tables
<1> QED  BY <1>1, <1>2

\* A guarded statement on roles or links changes what its block is for.
RolesWritten(c) ==
    /\ UNCHANGED <<context, assignments>>
    /\ \/ \E r \in Roles, name \in Names : WriteRole(c, r, name)
       \/ \E r \in Roles : DeleteRole(c, r)
       \/ \E l \in LinkKeys, link \in Link \cup {Absent} : WriteLink(c, l, link)

\* A statement writes roles or links, or a row of assignments, or nothing.
LEMMA StatementEffect ==
    ASSUME TypeOK, NEW c \in Contexts, Statement(c)
    PROVE  RolesWritten(c) \/ Written(c) \/ UNCHANGED <<context, tables>>
<1>1. ASSUME NEW r \in Roles, NEW name \in Names, WriteRole(c, r, name)
      PROVE  RolesWritten(c)
  BY <1>1 DEF RolesWritten, WriteRole
<1>2. ASSUME NEW r \in Roles, DeleteRole(c, r)
      PROVE  RolesWritten(c)
  BY <1>2 DEF RolesWritten, DeleteRole
<1>3. ASSUME NEW l \in LinkKeys, NEW link \in Link \cup {Absent}, WriteLink(c, l, link)
      PROVE  RolesWritten(c)
  BY <1>3 DEF RolesWritten, WriteLink
<1>4. ASSUME NEW k \in Keys, NEW row \in Row, CreateAssignment(c, k, row)
      PROVE  Written(c)
  BY <1>4 DEF CreateAssignment, Written
<1> QED  BY <1>1, <1>2, <1>3, <1>4, SavedAssignment DEF Statement

\* A related manager gives one assignment to another role.
Handed ==
    /\ UNCHANGED <<context, roles, permissions, links>>
    /\ \E k \in Keys, r \in Roles : RepointAssignment(k, r)

\* update(id=...) moves one row.
Moved ==
    /\ UNCHANGED <<context, roles, permissions, links>>
    /\ \E k, j \in Keys : Rekey(k, j)

\* A related manager points one link elsewhere, or the host's permissions change.
Relinked ==
    /\ UNCHANGED <<context, roles, assignments>>
    /\ \/ \E l \in LinkKeys, link \in Link : RepointLink(l, link)
       \/ \E p \in Perms : AddPermission(p) \/ DropPermission(p)

\* A statement that asks no guard does one of these, or nothing.
LEMMA UnaskedEffect ==
    ASSUME TypeOK, Unasked
    PROVE  Handed \/ Moved \/ Relinked \/ UNCHANGED <<context, tables>>
<1>1. ASSUME NEW l \in LinkKeys, NEW link \in Link, RepointLink(l, link)
      PROVE  Relinked
  BY <1>1 DEF Relinked, RepointLink
<1>2. ASSUME NEW p \in Perms, AddPermission(p) \/ DropPermission(p)
      PROVE  Relinked
  BY <1>2 DEF Relinked, AddPermission, DropPermission
<1>3. ASSUME NEW k \in Keys, NEW values, UpdateAssignment(k, values)
      PROVE  UNCHANGED <<context, tables>>
  BY <1>3, UnprotectedUpdate DEF UpdateAssignment, tables
<1>4. ASSUME NEW k \in Keys, NEW j \in Keys, Rekey(k, j)  PROVE Moved
  BY <1>4 DEF Moved, Rekey
<1>5. ASSUME NEW k \in Keys, NEW r \in Roles, RepointAssignment(k, r)  PROVE Handed
  BY <1>5 DEF Handed, RepointAssignment
<1> QED  BY <1>1, <1>2, <1>3, <1>4, <1>5 DEF Unasked

\* Statements on roles and links keep the types and the foreign keys.
LEMMA RolesWrittenTyped ==
    ASSUME TypeOK, NEW c \in Contexts, RolesWritten(c)
    PROVE  TypeOK'
<1> USE DEF TypeOK, context
<1>1. ASSUME NEW r \in Roles, NEW name \in Names, WriteRole(c, r, name)
      PROVE  TypeOK'
  BY <1>1, GuardAssumption DEF WriteRole
<1>2. ASSUME NEW r \in Roles, DeleteRole(c, r)  PROVE TypeOK'
  <2>1. links' \in [LinkKeys -> Link \cup {Absent}]
    BY <1>2 DEF DeleteRole, LinksWithout
  <2>2. ASSUME NEW l \in LinkKeys, links'[l] # Absent
        PROVE  /\ links'[l] = links[l] /\ links[l] # Absent /\ links[l].role # r
    <3>1. links'[l] = IF links[l] \in [role : {r}, permission : Perms]
                      THEN Absent ELSE links[l]
      BY <1>2 DEF DeleteRole, LinksWithout
    <3>2. links[l] \notin [role : {r}, permission : Perms] /\ links'[l] = links[l]
      BY <2>2, <3>1
    <3>3. links[l] \in Link  BY <2>2, <3>2
    <3> QED  BY <2>2, <3>2, <3>3 DEF Link
  <2>3. ASSUME NEW l \in LinkKeys, links'[l] # Absent
        PROVE  roles'[links'[l].role] # Absent /\ links'[l].permission \in permissions'
    <3>1. links[l] \in Link  BY <2>2, <2>3
    <3>2. links[l].role \in Roles  BY <3>1 DEF Link
    <3> QED  BY <1>2, <2>2, <2>3, <3>2 DEF DeleteRole
  <2>4. ASSUME NEW k \in Keys, assignments[k] # Absent
        PROVE  roles'[assignments[k].role] # Absent
    <3>1. assignments[k].role \in Roles /\ assignments[k].role # r
      BY <1>2, <2>4 DEF DeleteRole, Unassigned, Row
    <3> QED  BY <1>2, <2>4, <3>1 DEF DeleteRole
  <2> QED  BY <1>2, <2>1, <2>3, <2>4, GuardAssumption DEF DeleteRole
<1>3. ASSUME NEW l \in LinkKeys, NEW link \in Link \cup {Absent}, WriteLink(c, l, link)
      PROVE  TypeOK'
  BY <1>3 DEF WriteLink, Admissible
<1> QED  BY <1>1, <1>2, <1>3 DEF RolesWritten

\* Repointed links and deleted permissions leave no link without its ends.
LEMMA RelinkedTyped ==
    ASSUME TypeOK, Relinked
    PROVE  TypeOK'
<1> USE DEF TypeOK, context
<1>1. ASSUME NEW l \in LinkKeys, NEW link \in Link, RepointLink(l, link)
      PROVE  TypeOK'
  BY <1>1 DEF RepointLink, Admissible
<1>2. ASSUME NEW p \in Perms, AddPermission(p)  PROVE TypeOK'
  BY <1>2 DEF AddPermission
<1>3. ASSUME NEW p \in Perms, DropPermission(p)  PROVE TypeOK'
  <2>1. links' \in [LinkKeys -> Link \cup {Absent}]
    BY <1>3 DEF DropPermission, LinksWithout
  <2>2. ASSUME NEW l \in LinkKeys, links'[l] # Absent
        PROVE  links'[l] = links[l] /\ links[l] # Absent /\ links[l].permission # p
    <3>1. links'[l] = IF links[l] \in [role : Roles, permission : {p}]
                      THEN Absent ELSE links[l]
      BY <1>3 DEF DropPermission, LinksWithout
    <3>2. links[l] \notin [role : Roles, permission : {p}] /\ links'[l] = links[l]
      BY <2>2, <3>1
    <3>3. links[l] \in Link  BY <2>2, <3>2
    <3> QED  BY <2>2, <3>2, <3>3 DEF Link
  <2> QED  BY <1>3, <2>1, <2>2 DEF DropPermission
<1> QED  BY <1>1, <1>2, <1>3 DEF Relinked

\* Whatever becomes of the assignments, their roles exist.
LEMMA AssignmentsTyped ==
    ASSUME TypeOK,
           (\E c \in Contexts : Written(c)) \/ Handed \/ Moved \/ Lifecycle
    PROVE  TypeOK'
<1> DEFINE Typed ==
        /\ assignments' \in [Keys -> Row \cup {Absent}]
        /\ \A k \in Keys : assignments'[k] # Absent => roles[assignments'[k].role] # Absent
<1>1. UNCHANGED <<context, roles, permissions, links>>
  BY DEF Written, Handed, Moved, Lifecycle, Transition
<1>2. Typed
  <2> USE DEF TypeOK
  <2>1. ASSUME NEW c \in Contexts, Written(c)  PROVE Typed  BY <2>1 DEF Written
  <2>2. ASSUME NEW k \in Keys, NEW r \in Roles, RepointAssignment(k, r)
        PROVE  Typed
    <3> DEFINE x == [assignments[k] EXCEPT !.role = r]
    <3>1. x \in Row /\ x.role = r  BY <2>2 DEF RepointAssignment, Row
    <3>2. assignments' = [assignments EXCEPT ![k] = x] /\ roles[r] # Absent
      BY <2>2 DEF RepointAssignment
    <3> HIDE DEF x
    <3> QED  BY <3>1, <3>2
  <2>3. ASSUME NEW k \in Keys, NEW j \in Keys, Rekey(k, j)  PROVE Typed
    BY <2>3 DEF Rekey
  <2>4. ASSUME NEW k \in Keys, NEW from, NEW to \in Status, Transition(k, from, to)
        PROVE  Typed
    <3> DEFINE x == [assignments[k] EXCEPT !.status = to]
    <3>1. x \in Row /\ x.role = assignments[k].role  BY <2>4 DEF Transition, Row
    <3>2. assignments' = [assignments EXCEPT ![k] = x] /\ assignments[k] # Absent
      BY <2>4 DEF Transition
    <3> HIDE DEF x
    <3> QED  BY <3>1, <3>2
  <2>5. CASE Lifecycle  BY <2>4, <2>5 DEF Lifecycle, Status
  <2> QED  BY <2>1, <2>2, <2>3, <2>5 DEF Handed, Moved
<1> QED  BY <1>1, <1>2 DEF TypeOK, context

\* A stutter keeps the types.
LEMMA UnchangedTyped == TypeOK /\ UNCHANGED <<context, tables>> => TypeOK'
BY DEF TypeOK, context, tables

\* A statement of a service or of the host leaves well-typed tables.
LEMMA StatementTyped ==
    ASSUME TypeOK, NEW c \in Contexts, Statement(c)
    PROVE  TypeOK' /\ UNCHANGED context
<1>1. UNCHANGED context  BY StatementEffect DEF RolesWritten, Written
<1>2. TypeOK'
  BY StatementEffect, RolesWrittenTyped, AssignmentsTyped, UnchangedTyped
<1> QED  BY <1>1, <1>2

\* So does one that asks no guard.
LEMMA UnaskedTyped ==
    ASSUME TypeOK, Unasked
    PROVE  TypeOK' /\ UNCHANGED context
<1>1. UNCHANGED context  BY UnaskedEffect DEF Handed, Moved, Relinked
<1>2. TypeOK'  BY UnaskedEffect, RelinkedTyped, AssignmentsTyped, UnchangedTyped
<1> QED  BY <1>1, <1>2

\* And a call of the lifecycle.
LEMMA LifecycleTyped ==
    ASSUME TypeOK, Lifecycle
    PROVE  TypeOK' /\ UNCHANGED context
<1>1. UNCHANGED context  BY DEF Lifecycle, Transition
<1> QED  BY <1>1, AssignmentsTyped

\* TypeOK holds at the start.
LEMMA InitTyped == Init => TypeOK
<1> SUFFICES ASSUME Init PROVE TypeOK  OBVIOUS
<1>1. << >> \in Seq(Block)  BY EmptySeq
<1> QED  BY <1>1, GuardAssumption DEF Init, TypeOK

\* docs/security.md, Threats 2 and 3: the types hold, and no link or assignment
\* is left without its role or permission, whoever writes what.
THEOREM GuardsTyped == Spec => []TypeOK
<1>1. TypeOK /\ [Next]_vars => TypeOK'
  <2> SUFFICES ASSUME TypeOK, [Next]_vars PROVE TypeOK'  OBVIOUS
  <2>1. CASE UNCHANGED vars  BY <2>1, UnchangedTyped DEF vars
  <2>2. CASE Next
    BY <2>2, ContextStepTyped, StatementTyped, UnaskedTyped, LifecycleTyped DEF Next
  <2> QED  BY <2>1, <2>2
<1> QED  BY InitTyped, <1>1, PTL DEF Spec

(***************************************************************************)
(* The guards follow the open blocks.                                      *)
(***************************************************************************)
\* The areas open below the i-th block of a context.
Below(c, i) ==
    {blocks[c][j].area : j \in {h \in DOMAIN blocks[c] : h < i}} \cup inherited[c]

\* Every open block remembers whether its area was open without it: what
\* leaving it restores.
TokensRemember ==
    \A c \in Contexts : \A i \in DOMAIN blocks[c] :
        blocks[c][i].token <=> blocks[c][i].area \in Below(c, i)

GuardInv == TypeOK /\ TokensRemember /\ GuardsFollowBlocks

\* No block is open and no guard set at the start.
LEMMA GuardInvInit == Init => GuardInv
<1> SUFFICES ASSUME Init PROVE GuardInv  OBVIOUS
<1>1. TypeOK  BY InitTyped
<1>2. ASSUME NEW c \in Contexts
      PROVE  blocks[c] = << >> /\ flag[c] = {} /\ inherited[c] = {}
  BY DEF Init
<1>3. TokensRemember  BY <1>2 DEF TokensRemember
<1>4. ASSUME NEW c \in Contexts  PROVE flag[c] = Open(c)
  <2>1. DOMAIN blocks[c] = {}  BY <1>2
  <2> QED  BY <1>2, <2>1 DEF Open
<1>5. GuardsFollowBlocks  BY <1>4 DEF GuardsFollowBlocks
<1> QED  BY <1>1, <1>3, <1>5 DEF GuardInv

\* A context no step touches keeps its blocks, tokens and flags.
LEMMA UntouchedContext ==
    ASSUME GuardInv, NEW d \in Contexts, blocks'[d] = blocks[d],
           flag'[d] = flag[d], inherited'[d] = inherited[d]
    PROVE  /\ flag'[d] = Open(d)'
           /\ \A i \in DOMAIN blocks'[d] :
                  blocks'[d][i].token <=> blocks'[d][i].area \in Below(d, i)'
BY DEF GuardInv, GuardsFollowBlocks, TokensRemember, Open, Below

\* Entering an authorized block: the token remembers the flag it replaced.
LEMMA EnterKeepsGuards ==
    ASSUME GuardInv, NEW c \in Contexts, NEW area \in Areas, Enter(c, area)
    PROVE  TokensRemember' /\ GuardsFollowBlocks'
<1> DEFINE s == blocks[c]
           b == [area |-> area, token |-> area \in flag[c]]
<1>1. s \in Seq(Block) /\ b \in Block
  <2>1. b \in Block  BY DEF Block
  <2>2. s \in Seq(Block)  BY DEF GuardInv, TypeOK
  <2> QED  BY <2>1, <2>2
<1> PICK n \in Nat : n = Len(s) + 1
  BY <1>1, LenProperties
<1>2. /\ blocks' = [blocks EXCEPT ![c] = Append(s, b)]
      /\ flag' = [flag EXCEPT ![c] = flag[c] \cup {area}]
      /\ UNCHANGED inherited
  BY DEF Enter, Reset
<1>3. ASSUME NEW d \in Contexts, d # c
      PROVE  blocks'[d] = blocks[d] /\ flag'[d] = flag[d] /\ inherited'[d] = inherited[d]
  BY <1>2, <1>3 DEF GuardInv, TypeOK
<1>4. /\ blocks'[c] = Append(s, b) /\ flag'[c] = flag[c] \cup {area}
      /\ inherited'[c] = inherited[c]
  BY <1>2 DEF GuardInv, TypeOK
<1>5. /\ DOMAIN blocks'[c] = DOMAIN s \cup {n}
      /\ \A i \in DOMAIN s : blocks'[c][i] = s[i] /\ i < n
      /\ blocks'[c][n] = b
  <2>1. DOMAIN s = 1 .. Len(s) /\ Len(s) \in Nat  BY <1>1, LenProperties
  <2> QED  BY <1>1, <1>4, <2>1, Pushed
<1>6. \A i \in DOMAIN s : {h \in DOMAIN blocks'[c] : h < i} = {h \in DOMAIN s : h < i}
  <2>1. DOMAIN s = 1 .. Len(s) /\ Len(s) \in Nat  BY <1>1, LenProperties
  <2> QED  BY <1>5, <2>1
<1>7. \A i \in DOMAIN s : Below(c, i)' = Below(c, i)
  BY <1>4, <1>5, <1>6 DEF Below
<1>8. {h \in DOMAIN blocks'[c] : h < n} = DOMAIN s
  <2>1. DOMAIN s = 1 .. Len(s) /\ Len(s) \in Nat  BY <1>1, LenProperties
  <2> QED  BY <1>5, <2>1
<1>9. Below(c, n)' = Open(c)
  <2>1. {blocks'[c][j].area : j \in DOMAIN s} = {s[j].area : j \in DOMAIN s}
    BY <1>5
  <2>2. Below(c, n)' = {blocks'[c][j].area : j \in {h \in DOMAIN blocks'[c] : h < n}}
                           \cup inherited'[c]
    BY DEF Below
  <2>3. Open(c) = {s[j].area : j \in DOMAIN s} \cup inherited[c]
    BY DEF Open
  <2> HIDE DEF s, b
  <2> QED  BY <1>4, <1>8, <2>1, <2>2, <2>3
<1>10. Open(c)' = Open(c) \cup {area}
  BY <1>4, <1>5 DEF Open
<1>11. flag[c] = Open(c)  BY DEF GuardInv, GuardsFollowBlocks
<1>12. \A i \in DOMAIN blocks'[c] :
          blocks'[c][i].token <=> blocks'[c][i].area \in Below(c, i)'
  <2>1. \A i \in DOMAIN s : s[i].token <=> s[i].area \in Below(c, i)
    BY DEF GuardInv, TokensRemember
  <2>2. b.token <=> b.area \in Open(c)  BY <1>11
  <2> HIDE DEF s, b
  <2>3. ASSUME NEW i \in DOMAIN s
        PROVE  blocks'[c][i].token <=> blocks'[c][i].area \in Below(c, i)'
    BY <1>5, <1>7, <2>1
  <2>4. blocks'[c][n].token <=> blocks'[c][n].area \in Below(c, n)'
    BY <1>5, <1>9, <2>2
  <2> TAKE i \in DOMAIN blocks'[c]
  <2>5. i \in DOMAIN s \/ i = n  BY <1>5
  <2>6. CASE i \in DOMAIN s  BY <2>3, <2>6
  <2>7. CASE i = n  BY <2>4, <2>7
  <2> QED  BY <2>5, <2>6, <2>7
<1> HIDE DEF s, b
<1> QED
  BY <1>3, <1>4, <1>10, <1>11, <1>12, UntouchedContext
     DEF TokensRemember, GuardsFollowBlocks

\* Leaving a block: the token restores the flag the block found.
LEMMA LeaveKeepsGuards ==
    ASSUME GuardInv, NEW c \in Contexts, Leave(c)
    PROVE  TokensRemember' /\ GuardsFollowBlocks'
<1> DEFINE s == blocks[c]
           t == SubSeq(s, 1, Len(s) - 1)
           b == s[Len(s)]
<1>1. s \in Seq(Block) /\ s # << >>  BY DEF GuardInv, TypeOK, Leave
<1>2. /\ blocks' = [blocks EXCEPT ![c] = t] /\ UNCHANGED inherited
      /\ flag' = [flag EXCEPT ![c] = IF b.token THEN flag[c] \cup {b.area}
                                                ELSE flag[c] \ {b.area}]
  BY DEF Leave, Reset
<1>3. ASSUME NEW d \in Contexts, d # c
      PROVE  blocks'[d] = blocks[d] /\ flag'[d] = flag[d] /\ inherited'[d] = inherited[d]
  BY <1>2, <1>3 DEF GuardInv, TypeOK
<1>4. /\ blocks'[c] = t /\ inherited'[c] = inherited[c]
      /\ flag'[c] = IF b.token THEN flag[c] \cup {b.area} ELSE flag[c] \ {b.area}
  BY <1>2 DEF GuardInv, TypeOK
<1>5. /\ DOMAIN s = DOMAIN t \cup {Len(s)} /\ Len(s) \notin DOMAIN t
      /\ \A i \in DOMAIN t : t[i] = s[i] /\ i < Len(s)
      /\ b \in Block
  BY <1>1, Popped
<1>6. Len(s) \in DOMAIN s /\ ~(Len(s) < Len(s)) /\ DOMAIN s \subseteq Nat /\ Len(s) \in Nat
  BY <1>1, <1>5, LenProperties
<1>7. \A i \in DOMAIN t : {h \in DOMAIN t : h < i} = {h \in DOMAIN s : h < i}
  BY <1>5, <1>6
<1>8. \A i \in DOMAIN t : Below(c, i)' = Below(c, i)
  BY <1>4, <1>5, <1>7 DEF Below
<1>9. {h \in DOMAIN s : h < Len(s)} = DOMAIN t  BY <1>5, <1>6
<1>10. Below(c, Len(s)) = Open(c)'
  BY <1>4, <1>5, <1>9 DEF Below, Open
<1>11. Open(c) = Open(c)' \cup {b.area}
  BY <1>4, <1>5 DEF Open
<1>12. flag[c] = Open(c)  BY DEF GuardInv, GuardsFollowBlocks
<1>13. b.token <=> b.area \in Below(c, Len(s))
  BY <1>6 DEF GuardInv, TokensRemember
<1>14. \A i \in DOMAIN t : s[i].token <=> s[i].area \in Below(c, i)
  BY <1>5 DEF GuardInv, TokensRemember
<1>15. \A i \in DOMAIN blocks'[c] :
          blocks'[c][i].token <=> blocks'[c][i].area \in Below(c, i)'
  BY <1>4, <1>5, <1>8, <1>14
<1>16. flag'[c] = Open(c)'  BY <1>4, <1>10, <1>11, <1>12, <1>13
<1> HIDE DEF s, t, b
<1> QED
  BY <1>3, <1>15, <1>16, UntouchedContext DEF TokensRemember, GuardsFollowBlocks

\* Tasks: a context without blocks takes over what another has open, or
\* starts again with nothing.
LEMMA TasksKeepGuards ==
    ASSUME GuardInv, NEW c \in Contexts,
           (\E d \in Contexts : Spawn(c, d)) \/ Finish(c)
    PROVE  TokensRemember' /\ GuardsFollowBlocks'
<1>1. PICK d \in Contexts, areas \in SUBSET Areas :
          /\ blocks[d] = << >> /\ UNCHANGED blocks
          /\ flag' = [flag EXCEPT ![d] = areas]
          /\ inherited' = [inherited EXCEPT ![d] = areas]
  BY DEF Spawn, Finish, GuardInv, TypeOK
<1>2. ASSUME NEW e \in Contexts, e # d
      PROVE  blocks'[e] = blocks[e] /\ flag'[e] = flag[e] /\ inherited'[e] = inherited[e]
  BY <1>1, <1>2 DEF GuardInv, TypeOK
<1>3. blocks'[d] = << >> /\ flag'[d] = areas /\ inherited'[d] = areas
  BY <1>1 DEF GuardInv, TypeOK
<1>4. flag'[d] = Open(d)'  BY <1>3 DEF Open
<1> QED
  BY <1>2, <1>3, <1>4, UntouchedContext DEF TokensRemember, GuardsFollowBlocks

\* Every step keeps the invariant.
LEMMA GuardInvStep == GuardInv /\ [Next]_vars => GuardInv'
<1> SUFFICES ASSUME GuardInv, [Next]_vars PROVE GuardInv'  OBVIOUS
<1>1. ASSUME UNCHANGED context  PROVE TokensRemember' /\ GuardsFollowBlocks'
  BY <1>1, UntouchedContext DEF context, TokensRemember, GuardsFollowBlocks
<1>2. CASE UNCHANGED vars
  BY <1>1, <1>2, UnchangedTyped DEF GuardInv, vars
<1>3. ASSUME NEW c \in Contexts, ContextStep(c)  PROVE GuardInv'
  BY <1>3, ContextStepTyped, EnterKeepsGuards, LeaveKeepsGuards, TasksKeepGuards
     DEF GuardInv, ContextStep
<1>4. ASSUME NEW c \in Contexts, Statement(c)  PROVE GuardInv'
  BY <1>1, <1>4, StatementTyped DEF GuardInv
<1>5. CASE Unasked  BY <1>1, <1>5, UnaskedTyped DEF GuardInv
<1>6. CASE Lifecycle  BY <1>1, <1>6, LifecycleTyped DEF GuardInv
<1> QED  BY <1>2, <1>3, <1>4, <1>5, <1>6 DEF Next

\* The inductive invariant: types, tokens that remember, and flags that follow the blocks.
LEMMA GuardInvHolds == Spec => []GuardInv
BY GuardInvInit, GuardInvStep, PTL DEF Spec

\* mutations.py: however deep blocks nest and tasks spawn tasks, the flags of
\* every context are exactly the areas open in it.
THEOREM GuardsFollow == Spec => []GuardsFollowBlocks
<1>1. GuardInv => GuardsFollowBlocks  BY DEF GuardInv
<1> QED  BY <1>1, GuardInvHolds, PTL

(***************************************************************************)
(* What the guards let through.                                            *)
(***************************************************************************)
\* An area that is managed is open.
LEMMA ManagedIsOpen ==
    ASSUME GuardInv, NEW c \in Contexts, NEW area, Managed(c, area)
    PROVE  Somewhere(area)
BY DEF GuardInv, GuardsFollowBlocks, Managed, Somewhere

\* The change of a link that RolesChangeInBlocks admits.
LinkMayChange(l) ==
    links'[l] # links[l] =>
        \/ Somewhere("permission")
        \/ /\ links[l] # Absent
           /\ IF links'[l] = Absent
              THEN \/ roles'[links[l].role] = Absent
                   \/ links[l].permission \notin permissions'
              ELSE \/ links'[l].role = links[l].role
                   \/ links'[l].permission = links[l].permission

\* Threat 2: roles change only in blocks, and so do the links between roles and
\* permissions, but for the cascades and for one end that a related manager moves.
THEOREM RolesGuarded == Spec => RolesChangeInBlocks
<1> DEFINE A == /\ roles' # roles => Somewhere("role")
                /\ \A l \in LinkKeys : LinkMayChange(l)
<1>1. ASSUME GuardInv, [Next]_vars  PROVE [A]_vars
  <2> HIDE DEF A
  <2>1. ASSUME UNCHANGED <<roles, links>>  PROVE A
    BY <2>1 DEF A, LinkMayChange
  <2>2. ASSUME NEW c \in Contexts, ContextStep(c)  PROVE A
    BY <2>1, <2>2, ContextStepTables DEF tables
  <2>3. CASE Lifecycle  BY <2>1, <2>3 DEF Lifecycle, Transition
  <2>4. ASSUME NEW c \in Contexts, RolesWritten(c)  PROVE A
    <3>1. ASSUME NEW r \in Roles, NEW name \in Names, WriteRole(c, r, name)  PROVE A
      BY <1>1, <3>1, ManagedIsOpen DEF WriteRole, A, LinkMayChange
    <3>2. ASSUME NEW r \in Roles, DeleteRole(c, r)  PROVE A
      <4>1. Somewhere("role")  BY <1>1, <3>2, ManagedIsOpen DEF DeleteRole
      <4>2. ASSUME NEW l \in LinkKeys  PROVE LinkMayChange(l)
        <5>1. links'[l] = IF links[l] \in [role : {r}, permission : Perms]
                          THEN Absent ELSE links[l]
          BY <3>2 DEF DeleteRole, LinksWithout
        <5>2. CASE links[l] \in [role : {r}, permission : Perms]
          <6>1. links[l].role = r /\ links[l] \in Link /\ links'[l] = Absent
            BY <5>1, <5>2 DEF Link
          <6>2. roles'[r] = Absent
            BY <1>1, <3>2 DEF DeleteRole, GuardInv, TypeOK
          <6> QED  BY <6>1, <6>2, GuardAssumption DEF LinkMayChange
        <5>3. CASE links[l] \notin [role : {r}, permission : Perms]
          BY <5>1, <5>3 DEF LinkMayChange
        <5> QED  BY <5>2, <5>3
      <4> QED  BY <4>1, <4>2 DEF A
    <3>3. ASSUME NEW l \in LinkKeys, NEW link \in Link \cup {Absent}, WriteLink(c, l, link)
          PROVE  A
      BY <1>1, <3>3, ManagedIsOpen DEF WriteLink, A, LinkMayChange
    <3> QED  BY <2>4, <3>1, <3>2, <3>3 DEF RolesWritten
  <2>5. ASSUME Relinked  PROVE A
    <3>1. ASSUME NEW l \in LinkKeys, NEW link \in Link, RepointLink(l, link)  PROVE A
      <4>1. \A m \in LinkKeys : links'[m] = IF m = l THEN link ELSE links[m]
        BY <1>1, <3>1 DEF RepointLink, GuardInv, TypeOK
      <4>2. link # Absent  BY GuardAssumption
      <4> QED  BY <3>1, <4>1, <4>2 DEF RepointLink, A, LinkMayChange
    <3>2. ASSUME NEW p \in Perms, AddPermission(p)  PROVE A
      BY <2>1, <3>2 DEF AddPermission
    <3>3. ASSUME NEW p \in Perms, DropPermission(p)  PROVE A
      <4>1. ASSUME NEW l \in LinkKeys  PROVE LinkMayChange(l)
        <5>1. links'[l] = IF links[l] \in [role : Roles, permission : {p}]
                          THEN Absent ELSE links[l]
          BY <3>3 DEF DropPermission, LinksWithout
        <5>2. CASE links[l] \in [role : Roles, permission : {p}]
          <6>1. links[l].permission = p /\ links[l] \in Link /\ links'[l] = Absent
            BY <5>1, <5>2 DEF Link
          <6>2. p \notin permissions'  BY <3>3 DEF DropPermission
          <6> QED  BY <6>1, <6>2, GuardAssumption DEF LinkMayChange
        <5>3. CASE links[l] \notin [role : Roles, permission : {p}]
          BY <5>1, <5>3 DEF LinkMayChange
        <5> QED  BY <5>2, <5>3
      <4> QED  BY <3>3, <4>1 DEF DropPermission, A
    <3> QED  BY <2>5, <3>1, <3>2, <3>3 DEF Relinked
  <2>6. ASSUME UNCHANGED <<context, tables>>  PROVE A
    BY <2>1, <2>6 DEF tables
  <2>7. ASSUME NEW c \in Contexts, Statement(c)  PROVE A
    <3>1. CASE Written(c)  BY <2>1, <3>1 DEF Written
    <3> QED  BY <1>1, <2>4, <2>6, <2>7, <3>1, StatementEffect DEF GuardInv
  <2>8. ASSUME Unasked  PROVE A
    <3>1. CASE Handed \/ Moved  BY <2>1, <3>1 DEF Handed, Moved
    <3> QED  BY <1>1, <2>5, <2>6, <2>8, <3>1, UnaskedEffect DEF GuardInv
  <2>9. CASE UNCHANGED vars  BY <2>6, <2>9 DEF vars
  <2> QED  BY <1>1, <2>2, <2>3, <2>7, <2>8, <2>9 DEF Next
<1>2. (GuardInv /\ [Next]_vars => [A]_vars)  BY <1>1
<1>3. [][A]_vars => RolesChangeInBlocks  BY PTL DEF RolesChangeInBlocks, LinkMayChange
<1> QED  BY <1>2, <1>3, GuardInvHolds, PTL DEF Spec

\* The step that AuditTrailIsKept admits for one row.
RowMayChange(k) ==
    assignments[k] # Absent =>
        \E j \in Keys :
            /\ FoundAt(k, j)
            /\ \/ Somewhere("assignment")
               \/ Continues(assignments[k], assignments'[j])

\* A row that stays where it is, and as it is, may.
LEMMA RowUntouched ==
    ASSUME NEW k \in Keys, assignments'[k] = assignments[k]
    PROVE  RowMayChange(k)
<1> SUFFICES ASSUME assignments[k] # Absent  PROVE RowMayChange(k)
  BY DEF RowMayChange
<1>1. FoundAt(k, k)  BY DEF FoundAt
<1>2. Continues(assignments[k], assignments'[k])  BY DEF Continues
<1> QED  BY <1>1, <1>2 DEF RowMayChange

\* A row that is replaced by one that continues it, or in a block, may.
LEMMA RowReplaced ==
    ASSUME TypeOK, NEW k \in Keys, NEW row \in Row,
           assignments' = [assignments EXCEPT ![k] = row],
           assignments[k] # Absent =>
               Somewhere("assignment") \/ Continues(assignments[k], row)
    PROVE  \A h \in Keys : RowMayChange(h)
<1>1. assignments \in [Keys -> Row \cup {Absent}]  BY DEF TypeOK
<1>2. row # Absent  BY GuardAssumption
<1>3. assignments'[k] = row  BY <1>1
<1>4. FoundAt(k, k)  BY <1>2, <1>3 DEF FoundAt
<1>5. RowMayChange(k)  BY <1>3, <1>4 DEF RowMayChange
<1>6. ASSUME NEW h \in Keys, h # k  PROVE RowMayChange(h)
  <2>1. assignments'[h] = assignments[h]  BY <1>1, <1>6
  <2> QED  BY <2>1, RowUntouched
<1> QED  BY <1>5, <1>6

\* A row that moves to a free key may.
LEMMA RowMoved ==
    ASSUME TypeOK, NEW k \in Keys, NEW j \in Keys, Rekey(k, j)
    PROVE  \A h \in Keys : RowMayChange(h)
<1>1. /\ assignments \in [Keys -> Row \cup {Absent}]
      /\ assignments[k] # Absent /\ assignments[j] = Absent /\ k # j
      /\ assignments' = [assignments EXCEPT ![k] = Absent, ![j] = assignments[k]]
  BY DEF TypeOK, Rekey
<1>2. assignments'[j] = assignments[k] /\ assignments'[k] = Absent  BY <1>1
<1>3. FoundAt(k, j)  BY <1>1, <1>2 DEF FoundAt
<1>4. Continues(assignments[k], assignments'[j])  BY <1>2 DEF Continues
<1>5. RowMayChange(k)  BY <1>3, <1>4 DEF RowMayChange
<1>6. RowMayChange(j)  BY <1>1 DEF RowMayChange
<1>7. ASSUME NEW h \in Keys, h # k, h # j  PROVE RowMayChange(h)
  <2>1. assignments'[h] = assignments[h]  BY <1>1, <1>7
  <2> QED  BY <2>1, RowUntouched
<1> QED  BY <1>5, <1>6, <1>7

\* A row that a lifecycle call moves on may.
LEMMA RowTransitioned ==
    ASSUME TypeOK, NEW k \in Keys, NEW from, NEW to \in Status, Transition(k, from, to),
           \A st \in from : <<st, to>> \in Legal
    PROVE  \A h \in Keys : RowMayChange(h)
<1> DEFINE x == [assignments[k] EXCEPT !.status = to]
<1>1. assignments[k] \in Row /\ assignments[k].status \in from
  BY DEF TypeOK, Transition
<1>2. /\ x \in Row /\ x.role = assignments[k].role
      /\ x.scope = assignments[k].scope /\ x.status = to
  BY <1>1 DEF Row
<1>3. assignments' = [assignments EXCEPT ![k] = x]  BY DEF Transition
<1> HIDE DEF x
<1>4. Continues(assignments[k], x)  BY <1>1, <1>2 DEF Continues
<1> QED  BY <1>2, <1>3, <1>4, RowReplaced

\* Threat 3: however instances and querysets are used, no assignment is deleted,
\* and outside the blocks of a service its scope and window stay and its status
\* follows the lifecycle; only a related manager gives it to another user or role.
THEOREM AuditTrailKept == Spec => AuditTrailIsKept
<1> DEFINE A == \A k \in Keys : RowMayChange(k)
<1>1. ASSUME GuardInv, [Next]_vars  PROVE [A]_vars
  <2> HIDE DEF A
  <2>1. ASSUME UNCHANGED assignments  PROVE A  BY <2>1, RowUntouched DEF A
  <2>2. TypeOK  BY <1>1 DEF GuardInv
  <2>3. ASSUME NEW c \in Contexts, ContextStep(c)  PROVE A
    BY <2>1, <2>3, ContextStepTables DEF tables
  <2>4. ASSUME NEW c \in Contexts, Statement(c)  PROVE A
    <3>1. CASE Written(c)
      <4>1. PICK k \in Keys, row \in Row :
                /\ assignments' = [assignments EXCEPT ![k] = row]
                /\ Managed(c, "assignment") \/ assignments[k] = Absent
        BY <3>1 DEF Written
      <4>2. Managed(c, "assignment") => Somewhere("assignment")
        BY <1>1, ManagedIsOpen
      <4> QED  BY <2>2, <4>1, <4>2, RowReplaced DEF A
    <3>2. CASE RolesWritten(c)  BY <2>1, <3>2 DEF RolesWritten
    <3> QED  BY <2>1, <2>2, <2>4, <3>1, <3>2, StatementEffect DEF tables
  <2>5. ASSUME Unasked  PROVE A
    <3>1. ASSUME NEW k \in Keys, NEW r \in Roles, RepointAssignment(k, r)  PROVE A
      <4> DEFINE x == [assignments[k] EXCEPT !.role = r]
      <4>1. assignments[k] \in Row  BY <2>2, <3>1 DEF TypeOK, RepointAssignment
      <4>2. /\ x \in Row /\ x.scope = assignments[k].scope
            /\ x.status = assignments[k].status
        BY <4>1 DEF Row
      <4>3. assignments' = [assignments EXCEPT ![k] = x]
        BY <3>1 DEF RepointAssignment
      <4> HIDE DEF x
      <4>4. Continues(assignments[k], x)  BY <4>2 DEF Continues
      <4> QED  BY <2>2, <4>2, <4>3, <4>4, RowReplaced DEF A
    <3>2. CASE Handed  BY <3>1, <3>2 DEF Handed
    <3>3. CASE Moved  BY <2>2, <3>3, RowMoved DEF Moved, A
    <3>4. CASE Relinked  BY <2>1, <3>4 DEF Relinked
    <3> QED  BY <2>1, <2>2, <2>5, <3>2, <3>3, <3>4, UnaskedEffect DEF tables
  <2>6. ASSUME Lifecycle  PROVE A
    <3>1. /\ "ACTIVE" \in Status /\ "SUSPENDED" \in Status /\ "REVOKED" \in Status
          /\ <<"ACTIVE", "SUSPENDED">> \in Legal /\ <<"SUSPENDED", "ACTIVE">> \in Legal
          /\ <<"ACTIVE", "REVOKED">> \in Legal /\ <<"SUSPENDED", "REVOKED">> \in Legal
      BY DEF Status, Legal
    <3>2. PICK k \in Keys : \/ Transition(k, {"ACTIVE"}, "SUSPENDED")
                            \/ Transition(k, {"SUSPENDED"}, "ACTIVE")
                            \/ Transition(k, {"ACTIVE", "SUSPENDED"}, "REVOKED")
      BY <2>6 DEF Lifecycle
    <3> QED  BY <2>2, <3>1, <3>2, RowTransitioned DEF A
  <2>7. CASE UNCHANGED vars  BY <2>1, <2>7 DEF vars, tables
  <2> QED  BY <1>1, <2>3, <2>4, <2>5, <2>6, <2>7 DEF Next
<1>2. GuardInv /\ [Next]_vars => [A]_vars  BY <1>1
<1>3. [][A]_vars => AuditTrailIsKept  BY PTL DEF AuditTrailIsKept, RowMayChange
<1> QED  BY <1>2, <1>3, GuardInvHolds, PTL DEF Spec

\* Threat 3: an assignment starts in an assignment block, provided the host does
\* not save the instances it loaded under no primary key.
THEOREM AssignmentsGuarded ==
    ASSUME ~CopiesLoaded
    PROVE  Spec => AssignmentsStartInBlocks
<1> DEFINE A ==
        \A k \in Keys : (assignments[k] = Absent /\ assignments'[k] # Absent) =>
            \/ Somewhere("assignment")
            \/ \E j \in Keys : /\ assignments[j] = assignments'[k]
                               /\ assignments'[j] = Absent
<1>1. ASSUME GuardInv, [Next]_vars  PROVE [A]_vars
  <2>1. ASSUME UNCHANGED assignments  PROVE A  BY <2>1
  <2>2. TypeOK /\ assignments \in [Keys -> Row \cup {Absent}]
    BY <1>1 DEF GuardInv, TypeOK
  <2>3. ASSUME NEW k \in Keys, NEW row, assignments[k] # Absent,
               assignments' = [assignments EXCEPT ![k] = row]
        PROVE  A
    BY <2>2, <2>3
  <2>4. ASSUME NEW k \in Keys, NEW j \in Keys, Rekey(k, j)  PROVE A
    <3>1. \A h \in Keys : assignments'[h] = IF h = j THEN assignments[k]
                                            ELSE IF h = k THEN Absent ELSE assignments[h]
      BY <2>2, <2>4 DEF Rekey
    <3>2. j # k  BY <2>4 DEF Rekey
    <3> QED  BY <3>1, <3>2
  <2> HIDE DEF A
  <2>5. ASSUME NEW c \in Contexts, ContextStep(c)  PROVE A
    BY <2>1, <2>5, ContextStepTables DEF tables
  <2>6. ASSUME NEW c \in Contexts, Statement(c)  PROVE A
    <3>1. CASE Written(c)
      <4>1. Managed(c, "assignment")  BY <3>1 DEF Written
      <4>2. Somewhere("assignment")  BY <1>1, <4>1, ManagedIsOpen
      <4> QED  BY <4>2 DEF A
    <3>2. CASE RolesWritten(c)  BY <2>1, <3>2 DEF RolesWritten
    <3> QED  BY <2>1, <2>2, <2>6, <3>1, <3>2, StatementEffect DEF tables
  <2>7. ASSUME Unasked  PROVE A
    <3>1. CASE Handed  BY <2>3, <3>1 DEF Handed, RepointAssignment
    <3>2. CASE Moved  BY <2>4, <3>2 DEF Moved
    <3>3. CASE Relinked  BY <2>1, <3>3 DEF Relinked
    <3> QED  BY <2>1, <2>2, <2>7, <3>1, <3>2, <3>3, UnaskedEffect DEF tables
  <2>8. ASSUME Lifecycle  PROVE A
    <3>1. PICK k \in Keys, from \in SUBSET Status, to \in Status : Transition(k, from, to)
      BY <2>8 DEF Lifecycle, Status
    <3> QED  BY <2>3, <3>1 DEF Transition
  <2>9. CASE UNCHANGED vars  BY <2>1, <2>9 DEF vars, tables
  <2> QED  BY <1>1, <2>5, <2>6, <2>7, <2>8, <2>9 DEF Next
<1>2. GuardInv /\ [Next]_vars => [A]_vars  BY <1>1
<1>3. [][A]_vars => AssignmentsStartInBlocks  BY PTL DEF AssignmentsStartInBlocks
<1> QED  BY <1>2, <1>3, GuardInvHolds, PTL DEF Spec

=============================================================================
