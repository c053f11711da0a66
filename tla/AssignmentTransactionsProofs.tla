--------------------- MODULE AssignmentTransactionsProofs ---------------------
(***************************************************************************)
(* Machine-checked proofs about AssignmentTransactions: for any number of  *)
(* workers and rows, any permissions and any number of events, the locking *)
(* statements implement the abstract lifecycle.                            *)
(***************************************************************************)
EXTENDS AssignmentTransactions, SequenceTheorems, TLAPS

(***************************************************************************)
(* The inductive invariant, per worker.                                    *)
(***************************************************************************)
Running(w) == pc[w] # "idle"

\* Everybody but suspend and revoke works under the role's lock.
Locking(w) ==
    \/ pc[w] \in {"check", "insert"}
    \/ /\ pc[w] \in {"update", "refused", "signal"}
       /\ call[w].kind \notin {"suspend", "revoke"}

\* Where each kind of call may be, which row it is about, and which locks it
\* holds there.
Control(w) ==
    /\ Running(w) <=> call[w].kind # "none"
    /\ pc[w] \in {"refresh", "update", "refused"} => call[w].kind \in Transitions
    /\ pc[w] = "recheck" => call[w].kind = "reactivate"
    /\ pc[w] \in {"lock", "check"} => call[w].kind \notin {"suspend", "revoke"}
    /\ pc[w] = "insert" => call[w].kind = "grant"
    /\ call[w].kind \in RoleEdits => call[w].row = None
    /\ call[w].kind \in Transitions =>
           call[w].row \in Rows /\ status[call[w].row] # "ABSENT"
    /\ call[w].kind = "grant" => (call[w].row \in Rows <=> pc[w] = "signal")
    /\ roleLock = w <=> Locking(w)
    /\ \A a \in Rows : rowLock[a] = w <=> pc[w] = "signal" /\ call[w].row = a

\* No committed row is live.
NoneLive == \A a \in Rows : status[a] \notin {"ACTIVE", "SUSPENDED"}

\* What a call has found out still holds when it commits.
Ready(w) ==
    pc[w] = "signal" =>
        /\ call[w].kind = "grant" => status[call[w].row] = "ABSENT" /\ NoneLive
        /\ call[w].kind \in Transitions =>
               status[call[w].row] \in AllowedFrom(call[w].kind)
        /\ call[w].kind \in RoleEdits => call[w].perms # {}
        /\ call[w].kind = "add" => call[w].perms \cap perms = {}
        /\ call[w].kind = "remove" => call[w].perms \subseteq perms

\* R7: while the role is locked, its actor may delegate all it contains.
Entitled(w) ==
    (/\ pc[w] \in {"insert", "update", "signal"}
     /\ call[w].kind \in {"grant", "reactivate"}) => perms \subseteq Delegable[w]

\* The Python object follows the row.
Follows(w) ==
    /\ ~Running(w) => instance[w] \in honest[w] \cup {None}
    /\ (Running(w) /\ call[w].kind \notin Transitions) =>
           instance[w] = None /\ call[w].snapshot = None
    /\ call[w].kind \in Transitions =>
           /\ status[call[w].row] \in honest[w]
           /\ pc[w] = "refresh" => instance[w] = None
           /\ pc[w] # "refresh" =>
                  /\ call[w].snapshot \in honest[w]
                  /\ instance[w] = IF pc[w] = "signal" THEN Target(call[w].kind)
                                                       ELSE call[w].snapshot

WorkerInv(w) == Control(w) /\ Ready(w) /\ Entitled(w) /\ Follows(w)

\* The typing half of TypeOK; the rest follows from Control.
Typed ==
    /\ status \in [Rows -> Statuses]
    /\ perms \in SUBSET Permissions
    /\ log \in Seq(Recorded)
    /\ roleLock \in Workers \cup {None}
    /\ rowLock \in [Rows -> Workers \cup {None}]
    /\ pc \in [Workers -> Points] /\ call \in [Workers -> Call]
    /\ instance \in [Workers -> Statuses \cup {None}]
    /\ honest \in [Workers -> SUBSET Statuses]

Inv == Typed /\ \A w \in Workers : WorkerInv(w)

\* The invariant gives the run's type invariant.
LEMMA InvTypes == Inv => TypeOK
<1> SUFFICES ASSUME Inv  PROVE TypeOK
    OBVIOUS
<1>1. ASSUME roleLock # None
      PROVE  pc[roleLock] \in {"check", "insert", "update", "refused", "signal"}
  BY <1>1 DEF Inv, Typed, WorkerInv, Control, Locking
<1>2. ASSUME NEW a \in Rows, rowLock[a] # None
      PROVE  pc[rowLock[a]] = "signal" /\ call[rowLock[a]].row = a
  BY <1>2 DEF Inv, Typed, WorkerInv, Control
<1> QED  BY <1>1, <1>2 DEF Inv, TypeOK, Typed

(***************************************************************************)
(* Steps.                                                                  *)
(***************************************************************************)
\* What worker w does leaves the others' calls, objects and locks alone.
Apart(w) ==
    \A v \in Workers \ {w} :
        /\ pc'[v] = pc[v] /\ call'[v] = call[v]
        /\ instance'[v] = instance[v] /\ honest'[v] = honest[v]
        /\ roleLock' = v <=> roleLock = v
        /\ \A a \in Rows : rowLock'[a] = v <=> rowLock[a] = v

\* As long as the tables stay, another worker's step disturbs nobody.
LEMMA OthersUndisturbed ==
    ASSUME NEW w \in Workers, NEW v \in Workers \ {w}, WorkerInv(v),
           Apart(w), UNCHANGED tables
    PROVE  WorkerInv(v)'
<1>1. /\ pc'[v] = pc[v] /\ call'[v] = call[v]
      /\ instance'[v] = instance[v] /\ honest'[v] = honest[v]
      /\ roleLock' = v <=> roleLock = v
      /\ \A a \in Rows : rowLock'[a] = v <=> rowLock[a] = v
  BY DEF Apart
<1>2. status' = status /\ perms' = perms  BY DEF tables
<1>3. Control(v)'  BY <1>1, <1>2 DEF WorkerInv, Control, Locking, Running
<1>4. Ready(v)'  BY <1>1, <1>2 DEF WorkerInv, Ready, NoneLive
<1>5. Entitled(v)'  BY <1>1, <1>2 DEF WorkerInv, Entitled
<1>6. Follows(v)'  BY <1>1, <1>2 DEF WorkerInv, Follows, Running
<1> QED  BY <1>3, <1>4, <1>5, <1>6 DEF WorkerInv

\* A step that leaves the tables alone needs to be looked at for its worker.
LEMMA QuietStep ==
    ASSUME Inv, NEW w \in Workers, Typed', Apart(w), UNCHANGED tables, WorkerInv(w)'
    PROVE  Inv'
<1>1. ASSUME NEW v \in Workers \ {w}  PROVE WorkerInv(v)'
  BY OthersUndisturbed DEF Inv
<1> QED  BY <1>1 DEF Inv

\* A call that ends without a commit, by whichever exception or death: what
\* is asked of it is an honest object.
LEMMA AbortKeepsInv ==
    ASSUME Inv, NEW w \in Workers, Abort(w),
           NEW i \in honest[w] \cup {None}, instance' = [instance EXCEPT ![w] = i]
    PROVE  Inv'
<1>1. Typed /\ WorkerInv(w)  BY DEF Inv
<1>2. i \in Statuses \cup {None}  BY <1>1 DEF Typed
<1>3. NoCall \in Call  BY DEF NoCall, Call
<1>4. Typed'
  BY <1>1, <1>2, <1>3 DEF Typed, Abort, End, Release, Goto, tables, Points
<1>5. Apart(w)
  BY <1>1, TransactionAssumption
     DEF Typed, Apart, Abort, End, Release, Goto
<1>6. /\ pc'[w] = "idle" /\ call'[w] = NoCall /\ instance'[w] = i
      /\ honest'[w] = honest[w] /\ roleLock' # w
      /\ \A a \in Rows : rowLock'[a] # w
  BY <1>1, TransactionAssumption DEF Typed, Abort, End, Release, Goto
<1>7. WorkerInv(w)'
  <2>1. Control(w)'
    BY <1>6 DEF Control, Locking, Running, NoCall, Transitions, RoleEdits
  <2>2. Ready(w)' /\ Entitled(w)'  BY <1>6 DEF Ready, Entitled
  <2>3. Follows(w)'
    BY <1>6 DEF Follows, Running, NoCall, Transitions
  <2> QED  BY <2>1, <2>2, <2>3 DEF WorkerInv
<1>8. UNCHANGED tables  BY DEF Abort
<1> QED  BY <1>4, <1>5, <1>7, <1>8, QuietStep


(***************************************************************************)
(* Each action.                                                            *)
(***************************************************************************)
LEMMA BeginsKeepInv ==
    ASSUME Inv, NEW w \in Workers, Begins(w)
    PROVE  Inv'
<1>1. PICK kind \in Transitions \cup RoleEdits \cup {"grant"},
           a \in Rows \cup {None}, ps \in SUBSET Permissions :
          /\ Begin(w, kind, a, ps)
          /\ IF kind \in Transitions THEN a \in Rows /\ status[a] # "ABSENT"
                                     ELSE a = None
  BY TransactionAssumption
     DEF Begins, BeginGrant, BeginTransition, BeginRoleEdit, Transitions, RoleEdits
<1>2. Typed /\ WorkerInv(w)  BY DEF Inv
<1> DEFINE c == [kind |-> kind, row |-> a, perms |-> ps, snapshot |-> None]
           h == IF a = None THEN {} ELSE {status[a]}
<1>3. c \in Call /\ h \in SUBSET Statuses
  BY <1>2 DEF Call, Typed
<1>4. /\ pc[w] = "idle" /\ UNCHANGED <<tables, locks>>
      /\ call' = [call EXCEPT ![w] = c]
      /\ pc' = [pc EXCEPT ![w] = IF kind \in Transitions THEN "refresh" ELSE "lock"]
      /\ instance' = [instance EXCEPT ![w] = None]
      /\ honest' = [honest EXCEPT ![w] = h]
  BY <1>1 DEF Begin, Goto
<1> HIDE DEF c, h
<1>5. Typed'
  BY <1>2, <1>3, <1>4 DEF Typed, tables, locks, Points
<1>6. Apart(w)
  BY <1>2, <1>4 DEF Typed, Apart, locks
<1>7. /\ pc'[w] = (IF kind \in Transitions THEN "refresh" ELSE "lock")
      /\ call'[w] = c /\ instance'[w] = None /\ honest'[w] = h
      /\ roleLock' = roleLock /\ rowLock' = rowLock /\ status' = status
  BY <1>2, <1>4 DEF Typed, locks, tables
<1>8. WorkerInv(w)'
  <2>1. roleLock # w /\ \A b \in Rows : rowLock[b] # w
    BY <1>2, <1>4 DEF WorkerInv, Control, Locking
  <2>2. Control(w)'
    BY <1>1, <1>7, <2>1, TransactionAssumption
       DEF c, Control, Locking, Running, Transitions, RoleEdits
  <2>3. Ready(w)' /\ Entitled(w)'  BY <1>7 DEF Ready, Entitled
  <2>4. Follows(w)'
    BY <1>1, <1>7, TransactionAssumption DEF c, h, Follows, Running, Transitions, RoleEdits
  <2> QED  BY <2>2, <2>3, <2>4 DEF WorkerInv
<1> QED  BY <1>4, <1>5, <1>6, <1>8, QuietStep

\* refresh_from_db: the object takes the stored status, which the row's history holds.
LEMMA RefreshKeepsInv ==
    ASSUME Inv, NEW w \in Workers, Refresh(w)
    PROVE  Inv'
<1>1. Typed /\ WorkerInv(w)  BY DEF Inv
<1> DEFINE read == status[call[w].row]
           next == IF call[w].kind = "reactivate" THEN "recheck" ELSE "update"
<1>2. /\ pc[w] = "refresh" /\ UNCHANGED <<tables, locks, honest>>
      /\ call[w].kind \in Transitions /\ read \in Statuses /\ read \in honest[w]
  BY <1>1 DEF Refresh, Typed, WorkerInv, Control, Follows
<1>3. /\ pc' = [pc EXCEPT ![w] = next]
      /\ instance' = [instance EXCEPT ![w] = read]
      /\ call' = [call EXCEPT ![w].snapshot = read]
  BY DEF Refresh, Goto
<1> HIDE DEF read, next
<1>4. /\ pc'[w] = next /\ instance'[w] = read
      /\ call'[w] \in Call /\ call'[w].snapshot = read
      /\ call'[w].kind = call[w].kind /\ call'[w].row = call[w].row
  BY <1>1, <1>2, <1>3 DEF Typed, Call
<1>5. Typed'
  BY <1>1, <1>2, <1>3, <1>4 DEF Typed, tables, locks, Points, next
<1>6. Apart(w)  BY <1>1, <1>2, <1>3 DEF Typed, Apart, locks
<1>7. WorkerInv(w)'
  <2>1. Control(w)'
    BY <1>1, <1>2, <1>4
       DEF WorkerInv, Control, Locking, Running, Transitions, RoleEdits, next, tables, locks
  <2>2. Ready(w)' /\ Entitled(w)'
    BY <1>1, <1>2, <1>4 DEF Ready, Entitled, next, Transitions
  <2>3. Follows(w)'
    BY <1>1, <1>2, <1>4
       DEF WorkerInv, Follows, Running, Transitions, next, tables
  <2> QED  BY <2>1, <2>2, <2>3 DEF WorkerInv
<1> QED  BY <1>2, <1>5, <1>6, <1>7, QuietStep

\* An Abort that leaves the object as it is.
LEMMA QuietAbort ==
    ASSUME Inv, NEW w \in Workers, Abort(w), UNCHANGED instance,
           instance[w] \in honest[w] \cup {None}
    PROVE  Inv'
<1>1. instance' = [instance EXCEPT ![w] = instance[w]]
  BY DEF Inv, Typed
<1> QED  BY <1>1, AbortKeepsInv

\* The second look at the object, before any lock, writes nothing.
LEMMA RecheckKeepsInv ==
    ASSUME Inv, NEW w \in Workers, Recheck(w)
    PROVE  Inv'
<1>1. Typed /\ WorkerInv(w)  BY DEF Inv
<1>2. pc[w] = "recheck" /\ call[w].kind = "reactivate" /\ UNCHANGED instance
  BY <1>1 DEF Recheck, WorkerInv, Control
<1>3. instance[w] \in honest[w]
  BY <1>1, <1>2 DEF WorkerInv, Follows, Transitions
<1>4. CASE Abort(w)  BY <1>2, <1>3, <1>4, QuietAbort
<1>5. CASE /\ pc' = [pc EXCEPT ![w] = "lock"]
           /\ UNCHANGED <<tables, locks, call, honest>>
  <2>1. pc'[w] = "lock"  BY <1>1, <1>5 DEF Typed
  <2>2. Typed'  BY <1>1, <1>2, <1>5 DEF Typed, tables, locks, Points
  <2>3. Apart(w)  BY <1>1, <1>2, <1>5 DEF Typed, Apart, locks
  <2>4. Control(w)'
    BY <1>1, <1>2, <1>5, <2>1
       DEF WorkerInv, Control, Locking, Running, Transitions, RoleEdits, tables, locks
  <2>5. Ready(w)' /\ Entitled(w)'  BY <2>1 DEF Ready, Entitled
  <2>6. Follows(w)'
    BY <1>1, <1>2, <1>5, <2>1 DEF WorkerInv, Follows, Running, Transitions, tables
  <2> QED  BY <1>5, <2>2, <2>3, <2>4, <2>5, <2>6, QuietStep DEF WorkerInv
<1> QED  BY <1>4, <1>5 DEF Recheck, Goto

\* Taking the role's row excludes the other workers from it.
LEMMA LockKeepsInv ==
    ASSUME Inv, NEW w \in Workers, Lock(w)
    PROVE  Inv'
<1>1. Typed /\ WorkerInv(w)  BY DEF Inv
<1>2. /\ pc[w] = "lock" /\ roleLock = None /\ roleLock' = w
      /\ pc' = [pc EXCEPT ![w] = "check"]
      /\ UNCHANGED <<tables, rowLock, call, instance, honest>>
  BY DEF Lock, Goto
<1>3. pc'[w] = "check"  BY <1>1, <1>2 DEF Typed
<1>4. Typed'  BY <1>1, <1>2 DEF Typed, tables, Points
<1>5. Apart(w)  BY <1>1, <1>2, TransactionAssumption DEF Typed, Apart
<1>6. Control(w)'
  BY <1>1, <1>2, <1>3 DEF WorkerInv, Control, Locking, Running, tables
<1>7. Ready(w)' /\ Entitled(w)'  BY <1>3 DEF Ready, Entitled
<1>8. Follows(w)'
  BY <1>1, <1>2, <1>3 DEF WorkerInv, Follows, Running, tables
<1> QED  BY <1>2, <1>4, <1>5, <1>6, <1>7, <1>8, QuietStep DEF WorkerInv

\* Under the lock, the actor's authority is compared with the role as it stays until the commit.
LEMMA CheckKeepsInv ==
    ASSUME Inv, NEW w \in Workers, Check(w)
    PROVE  Inv'
<1>1. Typed /\ WorkerInv(w)  BY DEF Inv
<1>2. /\ pc[w] = "check" /\ UNCHANGED instance
      /\ call[w].kind \in {"grant", "reactivate"} \cup RoleEdits
      /\ call[w].perms \in SUBSET Permissions
  BY <1>1 DEF Check, Typed, WorkerInv, Control, Call, Transitions, Running
<1>3. instance[w] \in honest[w] \cup {None}
  BY <1>1, <1>2 DEF WorkerInv, Follows, Running, Transitions, RoleEdits
<1>4. CASE Abort(w)  BY <1>2, <1>3, <1>4, QuietAbort
<1>5. CASE /\ HandedOut(w) \subseteq Delegable[w]
           /\ call[w].kind \notin RoleEdits
           /\ Goto(w, IF call[w].kind = "grant" THEN "insert" ELSE "update")
           /\ UNCHANGED <<tables, locks, call, honest>>
  <2>1. /\ pc' = [pc EXCEPT ![w] = pc'[w]]
        /\ pc'[w] = (IF call[w].kind = "grant" THEN "insert" ELSE "update")
    BY <1>1, <1>5 DEF Typed, Goto
  <2>2. Typed'  BY <1>1, <1>2, <1>5, <2>1 DEF Typed, tables, locks, Points
  <2>3. Apart(w)  BY <1>1, <1>2, <1>5, <2>1 DEF Typed, Apart, locks
  <2>4. Control(w)'
    BY <1>1, <1>2, <1>5, <2>1
       DEF WorkerInv, Control, Locking, Running, Transitions, RoleEdits, tables, locks
  <2>5. Ready(w)'  BY <2>1 DEF Ready
  <2>6. Entitled(w)'
    BY <1>2, <1>5 DEF Entitled, HandedOut, tables
  <2>7. Follows(w)'
    BY <1>1, <1>2, <1>5, <2>1 DEF WorkerInv, Follows, Running, Transitions, tables
  <2> QED  BY <1>5, <2>2, <2>3, <2>4, <2>5, <2>6, <2>7, QuietStep DEF WorkerInv
<1>6. CASE /\ call[w].kind \in RoleEdits /\ Changed(w) # {}
           /\ Goto(w, "signal")
           /\ call' = [call EXCEPT ![w].perms = Changed(w)]
           /\ UNCHANGED <<tables, locks, honest>>
  <2>1. Changed(w) \in SUBSET Permissions
    BY <1>1, <1>2 DEF Changed, Typed
  <2>2. /\ pc' = [pc EXCEPT ![w] = "signal"] /\ pc'[w] = "signal"
        /\ call'[w] \in Call /\ call'[w].perms = Changed(w)
        /\ call'[w].kind = call[w].kind /\ call'[w].row = call[w].row
        /\ call'[w].snapshot = call[w].snapshot
    BY <1>1, <1>6, <2>1 DEF Typed, Goto, Call
  <2>3. Typed'  BY <1>1, <1>2, <1>6, <2>2 DEF Typed, tables, locks, Points
  <2>4. Apart(w)  BY <1>1, <1>2, <1>6, <2>2 DEF Typed, Apart, locks
  <2>5. Control(w)'
    BY <1>1, <1>2, <1>6, <2>2, TransactionAssumption
       DEF WorkerInv, Control, Locking, Running, Transitions, RoleEdits, tables, locks
  <2>6. Ready(w)'
    BY <1>6, <2>2 DEF Ready, Changed, RoleEdits, Transitions, tables
  <2>7. Entitled(w)'  BY <1>6, <2>2 DEF Entitled, RoleEdits
  <2>8. Follows(w)'
    BY <1>1, <1>2, <1>6, <2>2 DEF WorkerInv, Follows, Running, Transitions, RoleEdits
  <2> QED  BY <1>6, <2>3, <2>4, <2>5, <2>6, <2>7, <2>8, QuietStep DEF WorkerInv
<1> QED  BY <1>4, <1>5, <1>6 DEF Check

\* A grant's INSERT waits in its own transaction, invisible to the others.
LEMMA InsertKeepsInv ==
    ASSUME Inv, NEW w \in Workers, Insert(w)
    PROVE  Inv'
<1>1. Typed /\ WorkerInv(w)  BY DEF Inv
<1>0. pc[w] = "insert" /\ \A b \in Rows : rowLock[b] \in {None, w}
  BY DEF Insert
<1>9. \A b \in Rows : rowLock[b] # w  BY <1>0, <1>1 DEF WorkerInv, Control
<1>2. /\ pc[w] = "insert" /\ UNCHANGED instance
      /\ call[w].kind = "grant" /\ \A b \in Rows : rowLock[b] = None
  BY <1>0, <1>1, <1>9 DEF Insert, WorkerInv, Control
<1>3. instance[w] = None /\ call[w].snapshot = None
  BY <1>1, <1>2 DEF WorkerInv, Follows, Running, Transitions
<1>4. CASE Abort(w)  BY <1>2, <1>3, <1>4, QuietAbort
<1>5. CASE ~Abort(w)
  <2>1. PICK a \in Rows :
            /\ status[a] = "ABSENT" /\ NoneLive
            /\ rowLock' = [rowLock EXCEPT ![a] = w]
            /\ call' = [call EXCEPT ![w].row = a]
            /\ pc' = [pc EXCEPT ![w] = "signal"]
            /\ UNCHANGED <<tables, roleLock, honest>>
    BY <1>5 DEF Insert, Goto, NoneLive
  <2>2. /\ pc'[w] = "signal" /\ call'[w] \in Call /\ call'[w].row = a
        /\ call'[w].kind = "grant" /\ call'[w].snapshot = None
        /\ rowLock'[a] = w /\ \A b \in Rows \ {a} : rowLock'[b] = rowLock[b]
    BY <1>1, <1>2, <1>3, <2>1 DEF Typed, Call
  <2>3. Typed'  BY <1>1, <1>2, <2>1, <2>2 DEF Typed, tables, Points
  <2>4. Apart(w)
    BY <1>1, <1>2, <2>1, <2>2, TransactionAssumption DEF Typed, Apart
  <2>5. Control(w)'
    BY <1>1, <1>2, <2>1, <2>2, TransactionAssumption
       DEF WorkerInv, Control, Locking, Running, Transitions, RoleEdits, tables
  <2>6. Ready(w)'
    BY <2>1, <2>2 DEF Ready, NoneLive, Transitions, RoleEdits, tables
  <2>7. Entitled(w)'
    BY <1>1, <1>2, <2>1 DEF WorkerInv, Entitled, tables
  <2>8. Follows(w)'
    BY <1>2, <1>3, <2>2 DEF Follows, Running, Transitions
  <2> QED  BY <2>1, <2>3, <2>4, <2>5, <2>6, <2>7, <2>8, QuietStep DEF WorkerInv
<1> QED  BY <1>4, <1>5

\* The conditional UPDATE takes the row, and only from a state the call accepts.
LEMMA UpdateKeepsInv ==
    ASSUME Inv, NEW w \in Workers, Update(w)
    PROVE  Inv'
<1> DEFINE a == call[w].row
           legal == status[a] \in AllowedFrom(call[w].kind)
<1>1. Typed /\ WorkerInv(w)  BY DEF Inv
<1>0. /\ pc[w] = "update" /\ rowLock[a] \in {None, w} /\ a \in Rows
      /\ \A b \in Rows : rowLock[b] # w
  BY <1>1 DEF Update, WorkerInv, Control, Transitions
<1>2. /\ pc[w] = "update" /\ rowLock[a] = None
      /\ pc' = [pc EXCEPT ![w] = IF legal THEN "signal" ELSE "refused"]
      /\ rowLock' = IF legal THEN [rowLock EXCEPT ![a] = w] ELSE rowLock
      /\ instance' = IF legal THEN [instance EXCEPT ![w] = Target(call[w].kind)]
                              ELSE instance
      /\ UNCHANGED <<tables, roleLock, call, honest>>
  BY <1>0 DEF Update, Goto
<1>3. /\ call[w].kind \in Transitions /\ a \in Rows
      /\ Target(call[w].kind) \in Statuses
  BY <1>1, <1>2 DEF WorkerInv, Control, Transitions, Target, Statuses
<1> HIDE DEF a
<1>4. /\ pc'[w] = (IF legal THEN "signal" ELSE "refused")
      /\ instance'[w] = IF legal THEN Target(call[w].kind) ELSE instance[w]
      /\ \A b \in Rows : rowLock'[b] = IF legal /\ b = a THEN w ELSE rowLock[b]
  BY <1>1, <1>2 DEF Typed
<1>5. Typed'  BY <1>1, <1>2, <1>3 DEF Typed, tables, Points
<1>6. Apart(w)
  BY <1>1, <1>2, <1>4, TransactionAssumption DEF Typed, Apart
<1>7. Control(w)'
  BY <1>1, <1>2, <1>3, <1>4, TransactionAssumption
     DEF a, WorkerInv, Control, Locking, Running, Transitions, RoleEdits, tables
<1>8. Ready(w)'
  BY <1>2, <1>3, <1>4 DEF a, Ready, Transitions, RoleEdits, tables
<1>9. Entitled(w)'
  BY <1>1, <1>2, <1>4 DEF WorkerInv, Entitled, tables
<1>10. Follows(w)'
  BY <1>1, <1>2, <1>3, <1>4 DEF a, WorkerInv, Follows, Running, tables, Transitions
<1> QED  BY <1>2, <1>5, <1>6, <1>7, <1>8, <1>9, <1>10, QuietStep DEF WorkerInv

\* A refused call reads the committed status, one that is interrupted gets
\* its snapshot back, and one that dies leaves no object.
LEMMA FailuresKeepInv ==
    ASSUME Inv, NEW w \in Workers, Refused(w) \/ ReceiverFails(w) \/ Crash(w)
    PROVE  Inv'
<1>1. Typed /\ WorkerInv(w)  BY DEF Inv
<1>2. CASE Refused(w)
  <2>1. pc[w] = "refused" /\ call[w].kind \in Transitions
    BY <1>1, <1>2 DEF Refused, WorkerInv, Control
  <2>2. status[call[w].row] \in honest[w]  BY <1>1, <2>1 DEF WorkerInv, Follows
  <2> QED  BY <1>2, <2>2, AbortKeepsInv DEF Refused
<1>3. CASE ReceiverFails(w)
  <2>1. pc[w] = "signal"  BY <1>3 DEF ReceiverFails
  <2>2. call[w].snapshot \in honest[w] \cup {None}
    BY <1>1, <2>1 DEF WorkerInv, Follows, Running
  <2> QED  BY <1>3, <2>2, AbortKeepsInv DEF ReceiverFails
<1>4. CASE Crash(w)  BY <1>4, AbortKeepsInv DEF Crash
<1> QED  BY <1>2, <1>3, <1>4

(***************************************************************************)
(* The commit, the only step that changes the tables.                      *)
(***************************************************************************)
\* A worker about to commit holds what it changes: nobody else is about to
\* change the same row, and nobody else has the role locked if it has.
LEMMA CommitterHolds ==
    ASSUME Inv, NEW w \in Workers, pc[w] = "signal",
           NEW v \in Workers \ {w}, pc[v] = "signal"
    PROVE  /\ call[w].row \in Rows => call[v].row # call[w].row
           /\ call[w].kind \in {"suspend", "revoke"}
              \/ call[v].kind \in {"suspend", "revoke"}
<1>1. WorkerInv(w) /\ WorkerInv(v)  BY DEF Inv
<1>2. call[w].row \in Rows => call[v].row # call[w].row
  BY <1>1 DEF WorkerInv, Control
<1>3. call[w].kind \notin {"suspend", "revoke"} => roleLock = w
  BY <1>1 DEF WorkerInv, Control, Locking
<1>4. call[v].kind \notin {"suspend", "revoke"} => roleLock = v
  BY <1>1 DEF WorkerInv, Control, Locking
<1> QED  BY <1>2, <1>3, <1>4

\* What a commit does, by kind of call.
LEMMA CommitEffect ==
    ASSUME Inv, NEW w \in Workers, Commit(w)
    PROVE  /\ pc[w] = "signal" /\ log' = Append(log, Event(w))
           /\ \/ /\ call[w].kind \in Transitions \cup {"grant"}
                 /\ call[w].row \in Rows /\ Target(call[w].kind) \in Statuses
                 /\ status' = [status EXCEPT ![call[w].row] = Target(call[w].kind)]
                 /\ perms' = perms
              \/ /\ call[w].kind = "add" /\ status' = status
                 /\ perms' = perms \cup call[w].perms
              \/ /\ call[w].kind = "remove" /\ status' = status
                 /\ perms' = perms \ call[w].perms
<1>1. Typed /\ WorkerInv(w) /\ pc[w] = "signal"  BY DEF Inv, Commit
<1>2. /\ call[w].kind \in Transitions \cup {"grant"} \cup RoleEdits
      /\ call[w].kind \in Transitions \cup {"grant"} => call[w].row \in Rows
  BY <1>1 DEF Typed, WorkerInv, Control, Running, Call
<1>3. CASE call[w].kind \in Transitions \cup {"grant"}
  BY <1>1, <1>2, <1>3 DEF Commit, Transitions, RoleEdits, Target, Statuses
<1>4. CASE call[w].kind \in RoleEdits
  BY <1>1, <1>4 DEF Commit, RoleEdits
<1> QED  BY <1>2, <1>3, <1>4

\* A commit, or a rollback, leaves well-typed tables and locks.
LEMMA CommitKeepsTypes ==
    ASSUME Inv, NEW w \in Workers, Commit(w)
    PROVE  Typed'
<1>1. Typed /\ WorkerInv(w)  BY DEF Inv
<1>2. call[w] \in Call /\ NoCall \in Call  BY <1>1 DEF Typed, NoCall, Call
<1>3. status' \in [Rows -> Statuses] /\ perms' \in SUBSET Permissions
  <2>1. call[w].perms \in SUBSET Permissions  BY <1>2 DEF Call
  <2>2. status \in [Rows -> Statuses] /\ perms \in SUBSET Permissions
    BY <1>1 DEF Typed
  <2> QED  BY <2>1, <2>2, CommitEffect
<1>4. log' \in Seq(Recorded)
  <2>1. Event(w) \in Recorded
    <3>1. CASE call[w].kind \in Transitions \cup {"grant"}
      <4>1. Event(w) = [row |-> call[w].row, status |-> Target(call[w].kind)]
        BY <3>1 DEF Event, Transitions
      <4>2. call[w].row \in Rows /\ Target(call[w].kind) \in Statuses
        BY <3>1, CommitEffect DEF Transitions
      <4> QED  BY <4>1, <4>2 DEF Recorded
    <3>2. CASE call[w].kind \in RoleEdits
      BY <1>2, <3>2 DEF Event, RoleEdits, Recorded, Call
    <3> QED  BY <3>1, <3>2, CommitEffect DEF RoleEdits
  <2> QED  BY <1>1, <2>1, CommitEffect, AppendProperties DEF Typed
<1>5. honest' \in [Workers -> SUBSET Statuses]
  <2>1. call[w].row \in Rows \cup {None}  BY <1>2 DEF Call
  <2>2. \A a \in Rows : status'[a] \in Statuses  BY <1>3
  <2> QED  BY <1>1, <2>1, <2>2 DEF Typed, Commit
<1>6. /\ roleLock' \in Workers \cup {None} /\ rowLock' \in [Rows -> Workers \cup {None}]
      /\ pc' \in [Workers -> Points] /\ call' \in [Workers -> Call]
      /\ instance' \in [Workers -> Statuses \cup {None}]
  BY <1>1, <1>2 DEF Typed, Commit, End, Release, Goto, Points
<1> QED  BY <1>3, <1>4, <1>5, <1>6 DEF Typed

\* A commit disturbs no other worker: what it changes, the others do not hold.
LEMMA CommitKeepsOthers ==
    ASSUME Inv, NEW w \in Workers, Commit(w), NEW v \in Workers \ {w}
    PROVE  WorkerInv(v)'
<1>1. Typed /\ WorkerInv(w) /\ WorkerInv(v)  BY DEF Inv
<1> DEFINE a == call[w].row
<1>2. /\ pc'[v] = pc[v] /\ call'[v] = call[v] /\ instance'[v] = instance[v]
      /\ roleLock' = v <=> roleLock = v
      /\ \A b \in Rows : rowLock'[b] = v <=> rowLock[b] = v
      /\ honest'[v] = IF a # None /\ call[v].row = a
                      THEN honest[v] \cup {status'[a]} ELSE honest[v]
  BY <1>1, TransactionAssumption DEF Typed, Commit, End, Release, Goto
<1>3. /\ \A b \in Rows \ {a} : status'[b] = status[b]
      /\ \A b \in Rows : status[b] # "ABSENT" => status'[b] # "ABSENT"
  <2>1. Target(call[w].kind) # "ABSENT" \/ status' = status
    BY <1>1, CommitEffect DEF Target, Transitions, Statuses
  <2> QED  BY <1>1, <2>1, CommitEffect DEF Typed
<1>4. Control(v)'
  BY <1>1, <1>2, <1>3 DEF WorkerInv, Control, Locking, Running
<1>5. Locking(v) => perms' = perms
  BY <1>1, CommitEffect DEF WorkerInv, Control, Locking
<1>6. Ready(v)'
  <2>1. SUFFICES ASSUME pc[v] = "signal"  PROVE Ready(v)'
    BY <1>2 DEF Ready
  <2>2. call[v].row \in Rows => status'[call[v].row] = status[call[v].row]
    <3>1. call[v].row \in Rows => call[v].row # a
      BY <2>1, CommitEffect, CommitterHolds
    <3> QED  BY <1>3, <3>1
  <2>3. CASE call[v].kind = "grant"
    <3>1. roleLock = v /\ NoneLive
      BY <1>1, <2>1, <2>3 DEF WorkerInv, Control, Locking, Ready
    <3>2. call[w].kind \in {"suspend", "revoke"}
      BY <1>1, <3>1, CommitEffect, CommitterHolds, <2>1, <2>3
    <3>3. FALSE
      BY <1>1, <3>1, <3>2, CommitEffect
         DEF WorkerInv, Ready, NoneLive, AllowedFrom, Transitions
    <3> QED  BY <3>3
  <2>4. CASE call[v].kind \in Transitions
    BY <1>1, <1>2, <2>1, <2>2, <2>4
       DEF WorkerInv, Control, Ready, Transitions, RoleEdits
  <2>5. CASE call[v].kind \in RoleEdits
    <3>1. perms' = perms  BY <1>5, <2>1, <2>5 DEF Locking, RoleEdits
    <3> QED
      BY <1>1, <1>2, <2>1, <2>5, <3>1 DEF WorkerInv, Ready, Transitions, RoleEdits
  <2> QED
    BY <1>1, <1>2, <2>1, <2>3, <2>4, <2>5
       DEF Typed, Call, WorkerInv, Control, Running
<1>7. Entitled(v)'
  <2>1. SUFFICES ASSUME pc[v] \in {"insert", "update", "signal"},
                        call[v].kind \in {"grant", "reactivate"}
                 PROVE  perms' \subseteq Delegable[v]
    BY <1>2 DEF Entitled
  <2>2. perms' = perms  BY <1>5, <2>1 DEF Locking
  <2> QED  BY <1>1, <2>1, <2>2 DEF WorkerInv, Entitled
<1>8. Follows(v)'
  <2>1. call[v].kind \in Transitions =>
            status'[call[v].row] \in honest'[v]
    BY <1>1, <1>2, <1>3, TransactionAssumption DEF WorkerInv, Control, Follows
  <2>2. honest[v] \subseteq honest'[v]  BY <1>2
  <2> QED  BY <1>1, <1>2, <2>1, <2>2 DEF WorkerInv, Follows, Running
<1> QED  BY <1>4, <1>6, <1>7, <1>8 DEF WorkerInv

\* A commit, or a rollback, ends the call with an object that is honest.
LEMMA CommitKeepsInv ==
    ASSUME Inv, NEW w \in Workers, Commit(w)
    PROVE  Inv'
<1>1. Typed /\ WorkerInv(w)  BY DEF Inv
<1> DEFINE a == call[w].row
<1>2. /\ pc'[w] = "idle" /\ call'[w] = NoCall /\ instance'[w] = instance[w]
      /\ roleLock' # w /\ \A b \in Rows : rowLock'[b] # w
      /\ honest'[w] = IF a # None THEN honest[w] \cup {status'[a]} ELSE honest[w]
  BY <1>1, TransactionAssumption DEF Typed, Commit, End, Release, Goto
<1>3. Control(w)'
  BY <1>2 DEF Control, Locking, Running, NoCall, Transitions, RoleEdits
<1>4. Ready(w)' /\ Entitled(w)'  BY <1>2 DEF Ready, Entitled
<1>5. instance[w] \in honest'[w] \cup {None}
  <2>1. CASE call[w].kind \in Transitions
    <3>1. instance[w] = Target(call[w].kind)
      BY <1>1, <2>1, CommitEffect DEF WorkerInv, Follows
    <3>2. a \in Rows /\ status'[a] = Target(call[w].kind)
      BY <1>1, <2>1, CommitEffect DEF Typed, Transitions
    <3> QED  BY <1>2, <3>1, <3>2, TransactionAssumption
  <2>2. CASE call[w].kind \notin Transitions
    BY <1>1, <2>2, CommitEffect DEF WorkerInv, Follows, Running
  <2> QED  BY <2>1, <2>2
<1>6. Follows(w)'
  BY <1>2, <1>5 DEF Follows, Running, NoCall, Transitions
<1> QED
  BY <1>3, <1>4, <1>6, CommitKeepsTypes, CommitKeepsOthers DEF Inv, WorkerInv

(***************************************************************************)
(* Theorems.                                                               *)
(***************************************************************************)
LEMMA InitInv == Init => Inv
<1> SUFFICES ASSUME Init  PROVE Inv
    OBVIOUS
<1>1. NoCall \in Call  BY DEF NoCall, Call
<1>2. Typed
  BY <1>1, TransactionAssumption, EmptySeq DEF Init, Typed, Statuses, Points
<1>3. ASSUME NEW w \in Workers  PROVE WorkerInv(w)
  <2>1. Control(w)
    BY <1>3, TransactionAssumption
       DEF Init, Control, Running, Locking, NoCall, Transitions, RoleEdits
  <2>2. Ready(w) /\ Entitled(w)  BY <1>3 DEF Init, Ready, Entitled
  <2>3. Follows(w)
    BY <1>3 DEF Init, Follows, Running, NoCall, Transitions
  <2> QED  BY <2>1, <2>2, <2>3 DEF WorkerInv
<1> QED  BY <1>2, <1>3 DEF Inv

\* Every step of every worker keeps the invariant.
LEMMA StepKeepsInv == Inv /\ [Next]_vars => Inv'
<1> SUFFICES ASSUME Inv, [Next]_vars  PROVE Inv'
    OBVIOUS
<1>1. CASE UNCHANGED vars
  <2>1. Typed'  BY <1>1 DEF Inv, Typed, vars, tables, locks
  <2>2. ASSUME NEW w \in Workers  PROVE WorkerInv(w)'
    <3>1. WorkerInv(w)  BY DEF Inv
    <3> QED
      BY <1>1, <3>1
         DEF vars, tables, locks, WorkerInv, Control, Ready, Entitled, Follows,
             Locking, Running, NoneLive
  <2> QED  BY <2>1, <2>2 DEF Inv
<1>2. ASSUME NEW w \in Workers,
             Begins(w) \/ Proceeds(w) \/ Crash(w) \/ Lock(w) \/ Insert(w) \/ Update(w)
      PROVE  Inv'
  BY <1>2, BeginsKeepInv, RefreshKeepsInv, RecheckKeepsInv, LockKeepsInv,
     CheckKeepsInv, InsertKeepsInv, UpdateKeepsInv, FailuresKeepInv, CommitKeepsInv
     DEF Proceeds
<1> QED  BY <1>1, <1>2 DEF Next

\* The inductive invariant holds in every reachable state: types, and for each worker where
\* its call stands, which locks it holds and what its Python object remembers.
THEOREM InvHolds == Spec => []Inv
BY InitInv, StepKeepsInv, PTL DEF Spec

\* Types, and who holds which lock, for any number of workers and rows.
THEOREM TransactionsTyped == Spec => []TypeOK
BY InvHolds, InvTypes, PTL

\* models.py, _transition and its callers: whatever becomes of a call, the
\* object it was about ends with a status its row had committed since the
\* call began.
THEOREM ObjectsAreHonest == Spec => []InstanceIsHonest
<1>1. Inv => InstanceIsHonest
  BY DEF Inv, WorkerInv, Follows, Running, InstanceIsHonest
<1> QED  BY <1>1, InvHolds, PTL

\* models.py, _refresh_for_mutation before _transition: whoever waits for the
\* role holds no row, and whoever holds a row waits for nothing, so that no
\* number of calls can wait for each other in a circle.
THEOREM NobodyDeadlocks == Spec => []NobodyWaitsInACircle
<1>1. ASSUME Inv, NEW S \in SUBSET Workers, NEW w \in S
      PROVE  \E v \in S : Blockers(v) \cap S = {}
  <2>1. \A v \in S : Typed /\ Control(v)  BY <1>1 DEF Inv, WorkerInv
  <2>2. \A v \in S : pc[v] = "signal" => Blockers(v) \cap S = {}
    BY DEF Blockers
  <2>3. ASSUME NEW v \in S, NEW a, NEW u \in S, u = rowLock[a], a \in Rows
        PROVE  pc[u] = "signal"
    BY <2>1, <2>3 DEF Control
  <2>4. ASSUME NEW v \in S, pc[v] \in {"insert", "update"}, Blockers(v) \cap S # {}
        PROVE  \E u \in S : pc[u] = "signal"
    <3>1. PICK u \in S : u \in Blockers(v)  BY <2>4
    <3>2. pc[v] = "update" => call[v].row \in Rows
      BY <2>1 DEF Control
    <3>3. \E a \in Rows : u = rowLock[a]  BY <2>4, <3>1, <3>2 DEF Blockers
    <3> QED  BY <2>3, <3>3
  <2>5. ASSUME NEW v \in S, pc[v] = "lock", Blockers(v) \cap S # {}
        PROVE  \E u \in S : pc[u] # "lock"
    <3>1. roleLock \in S  BY <2>5 DEF Blockers
    <3>2. Locking(roleLock)  BY <2>1, <3>1 DEF Control
    <3> QED  BY <3>1, <3>2 DEF Locking
  <2>6. \A v \in S : pc[v] \notin {"lock", "insert", "update"} => Blockers(v) \cap S = {}
    BY DEF Blockers
  <2> QED  BY <2>2, <2>4, <2>5, <2>6
<1>2. Inv => NobodyWaitsInACircle  BY <1>1 DEF NobodyWaitsInACircle
<1> QED  BY <1>2, InvHolds, PTL

\* All steps but the commit leave the tables alone.
LEMMA OnlyCommitsChange ==
    ASSUME [Next]_vars
    PROVE  UNCHANGED tables \/ \E w \in Workers : Commit(w)
BY DEF Next, vars, Begins, BeginGrant, BeginTransition, BeginRoleEdit, Begin,
       Proceeds, Refresh, Recheck, Check, Refused, ReceiverFails, Crash, Lock,
       Insert, Update, Abort, End

\* R5 under concurrency: the lock of the role keeps what is handed out from
\* growing between the check and the commit.
THEOREM DelegationHeld == Spec => DelegationHolds
<1> DEFINE A ==
        \A w \in Workers :
           (/\ pc[w] = "signal" /\ pc'[w] # "signal" /\ status' # status
            /\ call[w].kind \in {"grant", "reactivate"})
           => perms' \subseteq Delegable[w]
<1>1. ASSUME Inv, [Next]_vars  PROVE [A]_vars
  <2>1. SUFFICES ASSUME NEW w \in Workers,
                        pc[w] = "signal", pc'[w] # "signal", status' # status,
                        call[w].kind \in {"grant", "reactivate"}
                 PROVE  perms' \subseteq Delegable[w]
    OBVIOUS
  <2>2. PICK v \in Workers : Commit(v)
    BY <1>1, <2>1, OnlyCommitsChange DEF tables
  <2>3. v = w
    BY <1>1, <2>1, <2>2 DEF Inv, Typed, Commit, End, Goto
  <2>4. perms' = perms
    BY <1>1, <2>1, <2>2, <2>3, CommitEffect DEF Transitions
  <2>5. perms \subseteq Delegable[w]
    BY <1>1, <2>1 DEF Inv, WorkerInv, Entitled
  <2> QED  BY <2>4, <2>5
<1> QED  BY <1>1, InvHolds, PTL DEF Spec, DelegationHolds

\* What one commit publishes is one transition of the abstract life of an assignment.
LEMMA CommitIsLifecycleStep ==
    ASSUME Inv, NEW w \in Workers, Commit(w)
    PROVE  Lifecycle!Next
<1> DEFINE a == call[w].row
           kind == call[w].kind
<1>1. Typed /\ WorkerInv(w) /\ pc[w] = "signal"  BY DEF Inv, Commit
<1>2. CASE kind \in Transitions \cup {"grant"}
  <2>1. /\ a \in Rows /\ perms' = perms
        /\ status' = [status EXCEPT ![a] = Target(kind)]
    BY <1>2, CommitEffect DEF Transitions, RoleEdits
  <2>2. log' = Append(log, [row |-> a, status |-> Target(kind)])
    BY <1>2, CommitEffect DEF Event, Transitions
  <2>3. CASE kind = "grant"
    <3>1. status[a] = "ABSENT" /\ Lifecycle!Live = {}
      BY <1>1, <2>3 DEF WorkerInv, Ready, NoneLive, Lifecycle!Live
    <3>2. Lifecycle!Grant(a)
      BY <2>1, <2>2, <2>3, <3>1 DEF Lifecycle!Grant, Lifecycle!Change, Target
    <3> QED  BY <2>1, <3>2 DEF Lifecycle!Next
  <2>4. CASE kind \in Transitions
    <3>1. status[a] \in AllowedFrom(kind)
      BY <1>1, <2>4 DEF WorkerInv, Ready
    <3>2. Lifecycle!Change(a, AllowedFrom(kind), Target(kind))
      BY <2>1, <2>2, <3>1 DEF Lifecycle!Change
    <3>3. Lifecycle!Suspend(a) \/ Lifecycle!Reactivate(a) \/ Lifecycle!Revoke(a)
      BY <2>4, <3>2
         DEF Transitions, AllowedFrom, Target,
             Lifecycle!Suspend, Lifecycle!Reactivate, Lifecycle!Revoke
    <3> QED  BY <2>1, <3>3 DEF Lifecycle!Next
  <2> QED  BY <1>2, <2>3, <2>4
<1>3. CASE kind \in RoleEdits
  <2>1. /\ call[w].perms \in SUBSET Permissions /\ log' = Append(log, Event(w))
        /\ call[w].perms # {} /\ {} \in SUBSET Permissions
    BY <1>1, <1>3, CommitEffect
       DEF Typed, Call, WorkerInv, Ready, RoleEdits, Transitions
  <2>2. CASE kind = "add"
    <3>1. call[w].perms \subseteq Permissions \ perms
      BY <1>1, <2>1, <2>2 DEF WorkerInv, Ready
    <3>2. /\ perms' = perms \cup call[w].perms /\ status' = status
          /\ Event(w) = [added |-> call[w].perms, removed |-> {}]
      BY <2>2, CommitEffect DEF Event, Transitions
    <3>3. Lifecycle!EditRole(call[w].perms, {})
      BY <2>1, <3>1, <3>2 DEF Lifecycle!EditRole
    <3> QED  BY <2>1, <3>3 DEF Lifecycle!Next
  <2>3. CASE kind = "remove"
    <3>1. call[w].perms \subseteq perms
      BY <1>1, <2>3 DEF WorkerInv, Ready
    <3>2. /\ perms' = perms \ call[w].perms /\ status' = status
          /\ Event(w) = [added |-> {}, removed |-> call[w].perms]
      BY <2>3, CommitEffect DEF Event, Transitions
    <3>3. Lifecycle!EditRole({}, call[w].perms)
      BY <2>1, <3>1, <3>2 DEF Lifecycle!EditRole
    <3> QED  BY <2>1, <3>3 DEF Lifecycle!Next
  <2> QED  BY <1>3, <2>2, <2>3 DEF RoleEdits
<1> QED  BY <1>2, <1>3, CommitEffect DEF RoleEdits

\* Every step of the statements is a step of the lifecycle or none.
LEMMA StepImplementsLifecycle ==
    ASSUME Inv, [Next]_vars
    PROVE  Lifecycle!Next \/ UNCHANGED tables
<1>1. ASSUME NEW w \in Workers, Commit(w)  PROVE Lifecycle!Next
  BY <1>1, CommitIsLifecycleStep
<1> QED  BY <1>1, OnlyCommitsChange

\* SPEC 8.1, 8.3, 9: the interleaved, locking, failing statements implement
\* the lifecycle API as one would specify it without transactions.
THEOREM TransactionsImplementLifecycle == Spec => ImplementsLifecycle
<1>1. Init => Lifecycle!Init
  BY TransactionAssumption DEF Init, Lifecycle!Init
<1>2. Inv /\ [Next]_vars => [Lifecycle!Next]_(Lifecycle!lifecycle)
  BY StepImplementsLifecycle DEF tables, Lifecycle!lifecycle
<1> QED
  BY <1>1, <1>2, InvHolds, PTL DEF Spec, ImplementsLifecycle, Lifecycle!Spec

(***************************************************************************)
(* What the lifecycle gives a reader of the committed tables.              *)
(***************************************************************************)
\* No two committed rows of the identity are live.
OneLiveRow ==
    \A a, b \in Rows : (/\ status[a] \in {"ACTIVE", "SUSPENDED"}
                        /\ status[b] \in {"ACTIVE", "SUSPENDED"}) => a = b

\* A step of the lifecycle changes one row, which is not a revoked one, and a
\* row becomes live only while none is.
LEMMA LifecycleChange ==
    ASSUME Typed, Lifecycle!Next
    PROVE  \/ status' = status
           \/ \E a \in Rows :
                  /\ \A b \in Rows \ {a} : status'[b] = status[b]
                  /\ status[a] # "REVOKED"
                  /\ status[a] \notin {"ACTIVE", "SUSPENDED"} => NoneLive
<1>1. ASSUME NEW a \in Rows, NEW from, NEW target, Lifecycle!Change(a, from, target),
             "REVOKED" \notin from,
             status[a] \notin {"ACTIVE", "SUSPENDED"} => NoneLive
      PROVE  /\ \A b \in Rows \ {a} : status'[b] = status[b]
             /\ status[a] # "REVOKED"
             /\ status[a] \notin {"ACTIVE", "SUSPENDED"} => NoneLive
  BY <1>1 DEF Lifecycle!Change, Typed
<1>2. ASSUME NEW a \in Rows, Lifecycle!Grant(a)
      PROVE  NoneLive /\ Lifecycle!Change(a, {"ABSENT"}, "ACTIVE")
  BY <1>2 DEF Lifecycle!Grant, Lifecycle!Live, NoneLive
<1>3. ASSUME NEW a \in Rows, NEW from \in {{"ACTIVE"}, {"SUSPENDED"}, {"ACTIVE", "SUSPENDED"}},
             NEW target, Lifecycle!Change(a, from, target)
      PROVE  status[a] \in {"ACTIVE", "SUSPENDED"} /\ "REVOKED" \notin from
  BY <1>3 DEF Lifecycle!Change
<1>4. ASSUME NEW a \in Rows, Lifecycle!Suspend(a) \/ Lifecycle!Reactivate(a) \/ Lifecycle!Revoke(a)
      PROVE  \E from \in {{"ACTIVE"}, {"SUSPENDED"}, {"ACTIVE", "SUSPENDED"}}, target \in Statuses :
                 Lifecycle!Change(a, from, target)
  BY <1>4 DEF Lifecycle!Suspend, Lifecycle!Reactivate, Lifecycle!Revoke, Statuses
<1>5. \A added, removed : Lifecycle!EditRole(added, removed) => status' = status
  BY DEF Lifecycle!EditRole
<1>6. ASSUME NEW a \in Rows, Lifecycle!Grant(a) \/ Lifecycle!Suspend(a)
                             \/ Lifecycle!Reactivate(a) \/ Lifecycle!Revoke(a)
      PROVE  /\ \A b \in Rows \ {a} : status'[b] = status[b]
             /\ status[a] # "REVOKED"
             /\ status[a] \notin {"ACTIVE", "SUSPENDED"} => NoneLive
  <2>1. CASE Lifecycle!Grant(a)
    <3>1. NoneLive /\ Lifecycle!Change(a, {"ABSENT"}, "ACTIVE")  BY <1>2, <2>1
    <3>2. "REVOKED" \notin {"ABSENT"}  OBVIOUS
    <3> QED  BY <1>1, <3>1, <3>2
  <2>2. CASE Lifecycle!Suspend(a) \/ Lifecycle!Reactivate(a) \/ Lifecycle!Revoke(a)
    <3>1. PICK from \in {{"ACTIVE"}, {"SUSPENDED"}, {"ACTIVE", "SUSPENDED"}}, target \in Statuses :
              Lifecycle!Change(a, from, target)
      BY <1>4, <2>2
    <3>2. status[a] \in {"ACTIVE", "SUSPENDED"} /\ "REVOKED" \notin from  BY <1>3, <3>1
    <3> QED  BY <1>1, <3>1, <3>2
  <2> QED  BY <1>6, <2>1, <2>2
<1> QED  BY <1>5, <1>6 DEF Lifecycle!Next

\* SPEC 8.3 under concurrency: the partial unique index and the row locks keep
\* the committed table at one live assignment of a role to a user at a scope.
THEOREM OneLiveRowCommitted == Spec => []OneLiveRow
<1>1. Init => OneLiveRow  BY DEF Init, OneLiveRow
<1>2. Inv /\ OneLiveRow /\ [Next]_vars => OneLiveRow'
  <2> SUFFICES ASSUME Inv, OneLiveRow, [Next]_vars  PROVE OneLiveRow'  OBVIOUS
  <2>1. CASE status' = status  BY <2>1 DEF OneLiveRow
  <2>2. CASE status' # status
    <3>1. PICK a \in Rows : /\ \A b \in Rows \ {a} : status'[b] = status[b]
                            /\ status[a] \notin {"ACTIVE", "SUSPENDED"} => NoneLive
      BY <2>2, StepImplementsLifecycle, LifecycleChange DEF Inv, tables
    <3>2. \A b \in Rows \ {a} : status[b] \notin {"ACTIVE", "SUSPENDED"}
      BY <3>1 DEF OneLiveRow, NoneLive
    <3> QED  BY <3>1, <3>2 DEF OneLiveRow
  <2> QED  BY <2>1, <2>2
<1> QED  BY <1>1, <1>2, InvHolds, PTL DEF Spec

\* SPEC 8.1: a revoked assignment stays revoked, whatever was under way when
\* the revocation was committed.
THEOREM RevocationIsFinal ==
    Spec => [][\A a \in Rows : status[a] = "REVOKED" => status'[a] = "REVOKED"]_status
<1>1. ASSUME Inv, [Next]_vars
      PROVE  [\A a \in Rows : status[a] = "REVOKED" => status'[a] = "REVOKED"]_status
  <2>1. CASE status' = status  BY <2>1
  <2>2. CASE status' # status
    BY <1>1, <2>2, StepImplementsLifecycle, LifecycleChange DEF Inv, tables
  <2> QED  BY <2>1, <2>2
<1> QED  BY <1>1, InvHolds, PTL DEF Spec

=============================================================================
