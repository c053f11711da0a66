------------------------ MODULE AssignmentTransactions ------------------------
(***************************************************************************)
(* The transactions behind grant, suspend, reactivate, revoke and the role *)
(* permission edits, statement by statement, as concurrent workers run     *)
(* them against a database that gives READ COMMITTED isolation: a query    *)
(* sees what is committed, SELECT FOR UPDATE and UPDATE lock their row     *)
(* until the transaction ends, and a waiting UPDATE looks at the row again *)
(* when the lock is free.  One role and the assignments of it to one user  *)
(* at one scope: the rows that the live-assignment constraint relates.     *)
(***************************************************************************)
EXTENDS Naturals, Sequences

CONSTANTS
    Workers,
    Rows,        \* primary keys of the assignments
    Permissions,
    Delegable,   \* [Workers -> permissions the worker's actor may delegate]
    Edits,       \* permission sets passed to the role edits
    InitPerms,   \* the role's permissions at first
    MaxEvents,   \* bound: recorded events
    None

ASSUME TransactionAssumption ==
    /\ Delegable \in [Workers -> SUBSET Permissions]
    /\ Edits \subseteq SUBSET Permissions /\ InitPerms \subseteq Permissions
    /\ MaxEvents \in Nat
    /\ None \notin Workers \cup Rows

VARIABLES
    status, perms, log, \* committed: assignment rows, role, recorded events
    roleLock,           \* the worker that holds the lock of the role, or None
    rowLock,            \* [Rows -> the worker that changed the row, or None]
    pc, call,           \* each worker's control point and arguments
    instance,           \* [Workers -> status of the Python object after a
                        \* call, None before], and
    honest              \* history: [Workers -> statuses the row had, as
                        \* committed, since the call began]

tables == <<status, perms, log>>
locks == <<roleLock, rowLock>>
vars == <<tables, locks, pc, call, instance, honest>>

Transitions == {"suspend", "reactivate", "revoke"}
RoleEdits == {"add", "remove"}

\* The conditional UPDATE of each transition: from which status to which.
AllowedFrom(kind) ==
    CASE kind = "suspend"    -> {"ACTIVE"}
      [] kind = "reactivate" -> {"SUSPENDED"}
      [] kind = "revoke"     -> {"ACTIVE", "SUSPENDED"}

Target(kind) ==
    CASE kind = "suspend" -> "SUSPENDED"
      [] kind = "revoke"  -> "REVOKED"
      [] kind \in {"reactivate", "grant"} -> "ACTIVE"

NoCall == [kind |-> "none", row |-> None, perms |-> {}, snapshot |-> None]

Init ==
    /\ status = [a \in Rows |-> "ABSENT"]
    /\ perms = InitPerms
    /\ log = << >>
    /\ roleLock = None
    /\ rowLock = [a \in Rows |-> None]
    /\ pc = [w \in Workers |-> "idle"]
    /\ call = [w \in Workers |-> NoCall]
    /\ instance = [w \in Workers |-> None]
    /\ honest = [w \in Workers |-> {}]

Goto(w, where) == pc' = [pc EXCEPT ![w] = where]

Release(w) ==
    /\ roleLock' = IF roleLock = w THEN None ELSE roleLock
    /\ rowLock' = [a \in Rows |-> IF rowLock[a] = w THEN None ELSE rowLock[a]]

\* The transaction ends, committed or rolled back.
End(w) ==
    /\ Release(w)
    /\ Goto(w, "idle")
    /\ call' = [call EXCEPT ![w] = NoCall]

\* The call raises: nothing it did to the tables remains.
Abort(w) == End(w) /\ UNCHANGED <<tables, honest>>

(***************************************************************************)
(* A call begins.  Its actor manages the scope and the role: who may is    *)
(* the subject of ScopedAccess.                                            *)
(***************************************************************************)
Begin(w, kind, a, ps) ==
    /\ pc[w] = "idle"
    /\ Len(log) < MaxEvents
    /\ call' = [call EXCEPT ![w] =
           [kind |-> kind, row |-> a, perms |-> ps, snapshot |-> None]]
    /\ Goto(w, IF kind \in Transitions THEN "refresh" ELSE "lock")
    /\ instance' = [instance EXCEPT ![w] = None]
    /\ honest' = [honest EXCEPT ![w] = IF a = None THEN {} ELSE {status[a]}]
    /\ UNCHANGED <<tables, locks>>

BeginGrant(w) == Begin(w, "grant", None, {})

BeginTransition(w, kind, a) ==
    /\ status[a] # "ABSENT"
    /\ Begin(w, kind, a, {})

BeginRoleEdit(w, kind, ps) == Begin(w, kind, None, ps)

(***************************************************************************)
(* Reads.                                                                  *)
(***************************************************************************)
\* _authorize_transition: refresh_from_db; the snapshot is taken from it.
Refresh(w) ==
    LET read == status[call[w].row]
    IN  /\ pc[w] = "refresh"
        /\ Goto(w, IF call[w].kind = "reactivate" THEN "recheck" ELSE "update")
        /\ instance' = [instance EXCEPT ![w] = read]
        /\ call' = [call EXCEPT ![w].snapshot = read]
        /\ UNCHANGED <<tables, locks, honest>>

\* Mutant: reactivate locks its row when it reads it, so before the role.
RecheckForUpdate(w) ==
    LET a == call[w].row
    IN  /\ pc[w] = "recheck"
        /\ rowLock[a] \in {None, w}
        /\ IF status[a] = "SUSPENDED"
           THEN /\ Goto(w, "lock")
                /\ rowLock' = [rowLock EXCEPT ![a] = w]
                /\ UNCHANGED <<tables, roleLock, call, honest>>
           ELSE Abort(w)
        /\ UNCHANGED instance

\* reactivate reads the status once more before it locks the role.
Recheck(w) ==
    /\ pc[w] = "recheck"
    /\ IF status[call[w].row] = "SUSPENDED"
       THEN Goto(w, "lock") /\ UNCHANGED <<tables, locks, call, honest>>
       ELSE Abort(w)
    /\ UNCHANGED instance

\* Mutant: the role is read without SELECT FOR UPDATE.
ReadRole(w) ==
    /\ pc[w] = "lock"
    /\ Goto(w, "check")
    /\ UNCHANGED <<tables, locks, call, instance, honest>>

\* _refresh_for_mutation.
Lock(w) ==
    /\ pc[w] = "lock"
    /\ roleLock = None
    /\ roleLock' = w
    /\ Goto(w, "check")
    /\ UNCHANGED <<tables, rowLock, call, instance, honest>>

\* What the call hands out: the whole role, or what an edit adds to it.
HandedOut(w) ==
    CASE call[w].kind \in {"grant", "reactivate"} -> perms
      [] call[w].kind = "add" -> call[w].perms \ perms
      [] call[w].kind = "remove" -> {}

\* The permissions an edit really changes.
Changed(w) ==
    IF call[w].kind = "add" THEN call[w].perms \ perms
                            ELSE call[w].perms \cap perms

\* R5 and R7, on the role as read under the lock.  An edit that changes
\* nothing commits nothing and sends nothing.
Check(w) ==
    /\ pc[w] = "check"
    /\ UNCHANGED instance
    /\ \/ /\ ~(HandedOut(w) \subseteq Delegable[w])
          /\ Abort(w)
       \/ /\ HandedOut(w) \subseteq Delegable[w]
          /\ call[w].kind \notin RoleEdits
          /\ Goto(w, IF call[w].kind = "grant" THEN "insert" ELSE "update")
          /\ UNCHANGED <<tables, locks, call, honest>>
       \/ /\ HandedOut(w) \subseteq Delegable[w]
          /\ call[w].kind \in RoleEdits
          /\ IF Changed(w) = {}
             THEN Abort(w)
             ELSE /\ Goto(w, "signal")
                  /\ call' = [call EXCEPT ![w].perms = Changed(w)]
                  /\ UNCHANGED <<tables, locks, honest>>

(***************************************************************************)
(* Writes.                                                                 *)
(***************************************************************************)
\* INSERT of a new row: the partial unique index waits for a transaction
\* that is changing a row of the same identity, and refuses a second live one.
\* Bound: a grant that finds no primary key left fails like that one.
Insert(w) ==
    LET free == {a \in Rows : status[a] = "ABSENT"}
        live == {a \in Rows : status[a] \in {"ACTIVE", "SUSPENDED"}}
    IN  /\ pc[w] = "insert"
        /\ \A b \in Rows : rowLock[b] \in {None, w}
        /\ IF live # {} \/ free = {}
           THEN Abort(w)
           ELSE /\ \E a \in free :
                      /\ rowLock' = [rowLock EXCEPT ![a] = w]
                      /\ call' = [call EXCEPT ![w].row = a]
                /\ Goto(w, "signal")
                /\ UNCHANGED <<tables, roleLock, honest>>
        /\ UNCHANGED instance

\* Mutant: the transition trusts the status it read at the start.
UpdateAsRead(w) ==
    LET a == call[w].row
        legal == call[w].snapshot \in AllowedFrom(call[w].kind)
    IN  /\ pc[w] = "update"
        /\ rowLock[a] \in {None, w}
        /\ Goto(w, IF legal THEN "signal" ELSE "refused")
        /\ rowLock' = IF legal THEN [rowLock EXCEPT ![a] = w] ELSE rowLock
        /\ instance' = IF legal
                       THEN [instance EXCEPT ![w] = Target(call[w].kind)]
                       ELSE instance
        /\ UNCHANGED <<tables, roleLock, call, honest>>

\* _transition: UPDATE ... WHERE status IN allowed_from.
Update(w) ==
    LET a == call[w].row
        legal == status[a] \in AllowedFrom(call[w].kind)
    IN  /\ pc[w] = "update"
        /\ rowLock[a] \in {None, w}
        /\ Goto(w, IF legal THEN "signal" ELSE "refused")
        /\ rowLock' = IF legal THEN [rowLock EXCEPT ![a] = w] ELSE rowLock
        /\ instance' = IF legal
                       THEN [instance EXCEPT ![w] = Target(call[w].kind)]
                       ELSE instance
        /\ UNCHANGED <<tables, roleLock, call, honest>>

\* Mutant: the transition is tried again until the status allows it.
RetryRefused(w) ==
    /\ pc[w] = "refused"
    /\ Goto(w, "update")
    /\ UNCHANGED <<tables, locks, call, instance, honest>>

\* No row was updated: read the persisted status into the object and raise.
Refused(w) ==
    /\ pc[w] = "refused"
    /\ instance' = [instance EXCEPT ![w] = status[call[w].row]]
    /\ Abort(w)

(***************************************************************************)
(* Receivers, and the end of the transaction.                              *)
(***************************************************************************)
\* Mutant: the exception leaves the object as the transition set it.
ReceiverFailsOnly(w) ==
    /\ pc[w] = "signal"
    /\ UNCHANGED instance
    /\ Abort(w)

\* A receiver raises: the object gets its snapshot back.
ReceiverFails(w) ==
    /\ pc[w] = "signal"
    /\ instance' = [instance EXCEPT ![w] = call[w].snapshot]
    /\ Abort(w)

Event(w) ==
    CASE call[w].kind = "add" -> [added |-> call[w].perms, removed |-> {}]
      [] call[w].kind = "remove" -> [added |-> {}, removed |-> call[w].perms]
      [] OTHER -> [row |-> call[w].row, status |-> Target(call[w].kind)]

\* The receivers record the event in the transaction; it commits.
Commit(w) ==
    LET a == call[w].row
        kind == call[w].kind
    IN  /\ pc[w] = "signal"
        /\ log' = Append(log, Event(w))
        /\ perms' = CASE kind = "add"    -> perms \cup call[w].perms
                      [] kind = "remove" -> perms \ call[w].perms
                      [] OTHER           -> perms
        /\ status' = IF kind \in RoleEdits THEN status
                     ELSE [status EXCEPT ![a] = Target(kind)]
        /\ honest' = [v \in Workers |-> IF a # None /\ (v = w \/ call[v].row = a)
                                        THEN honest[v] \cup {status'[a]}
                                        ELSE honest[v]]
        /\ End(w)
        /\ UNCHANGED instance

\* The worker dies; the database rolls its transaction back.
Crash(w) ==
    /\ pc[w] # "idle"
    /\ instance' = [instance EXCEPT ![w] = None]
    /\ Abort(w)

Begins(w) ==
    \/ BeginGrant(w)
    \/ \E kind \in Transitions, a \in Rows : BeginTransition(w, kind, a)
    \/ \E kind \in RoleEdits, ps \in Edits : BeginRoleEdit(w, kind, ps)

Proceeds(w) ==
    Refresh(w) \/ Recheck(w) \/ Check(w) \/ Refused(w)
    \/ Commit(w) \/ ReceiverFails(w)

Next ==
    \E w \in Workers :
        \/ Begins(w) \/ Proceeds(w) \/ Crash(w)
        \/ Lock(w) \/ Insert(w) \/ Update(w)

\* A running worker goes on; the database serves those who wait for a lock in
\* turn, so nobody who can get it again and again is passed over for ever.
Fairness ==
    \A w \in Workers :
        /\ WF_vars(Proceeds(w))
        /\ SF_vars(Lock(w)) /\ SF_vars(Insert(w)) /\ SF_vars(Update(w))

Spec == Init /\ [][Next]_vars /\ Fairness

(***************************************************************************)
(* Properties.                                                             *)
(***************************************************************************)

Statuses == {"ABSENT", "ACTIVE", "SUSPENDED", "REVOKED"}

Points == {"idle", "refresh", "recheck", "lock", "check", "insert", "update",
           "refused", "signal"}

Call == [kind : Transitions \cup RoleEdits \cup {"grant", "none"},
         row : Rows \cup {None}, perms : SUBSET Permissions,
         snapshot : Statuses \cup {None}]

Recorded == [row : Rows, status : Statuses]
            \cup [added : SUBSET Permissions, removed : SUBSET Permissions]

\* Types; a lock is held by a running call, a row lock by one that is about
\* to commit.
TypeOK ==
    /\ status \in [Rows -> Statuses]
    /\ perms \in SUBSET Permissions
    /\ log \in Seq(Recorded)
    /\ roleLock \in Workers \cup {None}
    /\ rowLock \in [Rows -> Workers \cup {None}]
    /\ pc \in [Workers -> Points] /\ call \in [Workers -> Call]
    /\ instance \in [Workers -> Statuses \cup {None}]
    /\ honest \in [Workers -> SUBSET Statuses]
    /\ roleLock # None => pc[roleLock] \in {"check", "insert", "update",
                                            "refused", "signal"}
    /\ \A a \in Rows : rowLock[a] # None =>
           pc[rowLock[a]] = "signal" /\ call[rowLock[a]].row = a

\* The committed tables and events go through the abstract lifecycle, however
\* the statements of concurrent calls interleave and whichever of them fail.
Lifecycle == INSTANCE AssignmentLifecycle
ImplementsLifecycle == Lifecycle!Spec

\* _refresh_for_mutation: grants and permission edits share the lock "so R7
\* checks cannot race a role permission change": when a grant or a
\* reactivation commits, its actor may delegate all the role then contains.
DelegationHolds ==
    [][\A w \in Workers :
           (/\ pc[w] = "signal" /\ pc'[w] # "signal" /\ status' # status
            /\ call[w].kind \in {"grant", "reactivate"})
           => perms' \subseteq Delegable[w]]_vars

\* A finished call, successful or not, leaves the Python object with a status
\* its row had committed during the call, never with one that was rolled back.
InstanceIsHonest ==
    \A w \in Workers :
        (pc[w] = "idle" /\ instance[w] # None) => instance[w] \in honest[w]

\* The workers whose locks the next statement of w waits for.
Blockers(w) ==
    CASE pc[w] = "lock"   -> {roleLock} \ {None}
      [] pc[w] = "insert" -> {rowLock[a] : a \in Rows} \ {None, w}
      [] pc[w] = "update" -> {rowLock[call[w].row]} \ {None, w}
      [] OTHER            -> {}

\* _refresh_for_mutation and _transition: the role is locked before a row is
\* changed, and nobody who changed a row locks anything more; so calls never
\* wait for each other in a circle.
NobodyWaitsInACircle ==
    \A S \in (SUBSET Workers) \ {{}} : \E w \in S : Blockers(w) \cap S = {}

\* No call waits for ever, and none waits for another that waits for it.
EveryCallEnds == \A w \in Workers : pc[w] # "idle" ~> pc[w] = "idle"

=============================================================================
