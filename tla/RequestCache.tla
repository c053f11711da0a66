----------------------------- MODULE RequestCache -----------------------------
(***************************************************************************)
(* The per-request memo of authorization facts (src/scoped_access/         *)
(* cache.py and the store lookups of engine.py), seen by one thread that   *)
(* runs requests, opens and closes database transactions and savepoints,   *)
(* and calls the management API, while other connections commit changes    *)
(* (READ COMMITTED).  Facts carry version numbers: the only question is    *)
(* which version an authorization check uses.                              *)
(***************************************************************************)
EXTENDS Naturals, Sequences

CONSTANTS
    Users,        \* keys ("assignments", user): rows and role permissions
    Validity,     \* the keys ("assignment_valid", assignment), as one fact
    MaxVersion,   \* bound: versions of all facts together
    MaxDepth      \* bound: nested request and transaction blocks

Keys == Users \cup {Validity}

ASSUME KeyAssumption == Validity \notin Users
ASSUME BoundAssumption == MaxVersion \in Nat /\ MaxDepth \in Nat

VARIABLES
    committed, \* [Keys -> version], the database as other connections see it
    pending,   \* what this connection wrote and has not committed
    hooks,     \* facts its on_commit callbacks are going to invalidate
    last,      \* the last version written by anyone
    frames,    \* the open "with" blocks of the thread, innermost last
    store,     \* _store: <<memo>>, or << >> outside any request
    dirty,     \* _transaction_dirty
    current    \* history: [Keys -> versions a check may be based on]

database == <<committed, pending, hooks, last>>
vars == <<database, frames, store, dirty, current>>

Nothing == << >>

\* Facts f, and those of g that f does not have.
Over(f, g) == [k \in DOMAIN f \cup DOMAIN g |->
                  IF k \in DOMAIN f THEN f[k] ELSE g[k]]

\* The innermost writes of this connection over what is committed.
View == Over(pending, committed)

(***************************************************************************)
(* Blocks.  A request block keeps what its context variables held before;  *)
(* one nested in another shares its store.  A transaction or savepoint     *)
(* keeps what a rollback restores, and how far an API call that locks a    *)
(* role has come in it.                                                    *)
(***************************************************************************)
RequestBlock == [kind |-> "request", dirty |-> dirty]
SharedBlock == [kind |-> "shared"]
AtomicBlock == [kind |-> "atomic", pending |-> pending, hooks |-> hooks,
                stage |-> "open", edit |-> {}]

Top == frames[Len(frames)]
TopIs(kind) == frames # << >> /\ Top.kind = kind
Push(f) == Len(frames) < MaxDepth /\ frames' = Append(frames, f)
Pop == frames' = SubSeq(frames, 1, Len(frames) - 1)
InBlock(fs, kind) == \E i \in DOMAIN fs : fs[i].kind = kind
InAtomic == InBlock(frames, "atomic")

Init ==
    /\ committed = [k \in Keys |-> 0]
    /\ pending = Nothing
    /\ hooks = {}
    /\ last = 0
    /\ frames = << >>
    /\ store = << >>
    /\ dirty \in BOOLEAN
    /\ current = [k \in Keys |-> {0}]

(***************************************************************************)
(* The memo.                                                               *)
(***************************************************************************)
\* get_store: no store in a transaction that changed authority, and an empty
\* one at the first look after it.
Usable == store # << >> /\ ~(dirty /\ InAtomic)
Memo == IF dirty THEN Nothing ELSE store[1]

\* The version a check is based on (effective_assignments for the key of a
\* user, _assignment_is_valid for Validity).
Answer(k) == IF Usable /\ k \in DOMAIN Memo THEN Memo[k] ELSE View[k]

\* A check: look the fact up, or query and remember it.  The validity memo,
\* which has one answer per assignment, is the one fact Validity.
Check(k) ==
    /\ store' = IF Usable THEN <<Over(Memo, [j \in {k} |-> View[k]])>> ELSE store
    /\ dirty' = (dirty /\ InAtomic)
    /\ UNCHANGED <<database, frames, current>>

Forget(K) ==
    store' = IF store = << >> THEN << >>
             ELSE <<[k \in DOMAIN store[1] \ K |-> store[1][k]]>>

\* Mutant: only the memo is invalidated, the transaction is not marked.
InvalidateMemo(K) == Forget(K) /\ UNCHANGED dirty

\* invalidate_user, invalidate_all (K = Keys).
Invalidate(K) ==
    /\ Forget(K)
    /\ dirty' = (dirty \/ InAtomic)

(***************************************************************************)
(* Requests: ScopedAccessCacheMiddleware and request_cache.                *)
(***************************************************************************)
EnterRequest ==
    /\ store = << >>
    /\ Push(RequestBlock)
    /\ store' = <<Nothing>>
    /\ dirty' = FALSE
    /\ current' = [k \in Keys |-> {View[k]}]
    /\ UNCHANGED database

EnterNested ==
    /\ store # << >>
    /\ Push(SharedBlock)
    /\ UNCHANGED <<database, store, dirty, current>>

LeaveNested ==
    /\ TopIs("shared")
    /\ Pop
    /\ UNCHANGED <<database, store, dirty, current>>

\* Mutant: the memo is left for the next request of the thread.
LeaveRequestWarm ==
    /\ TopIs("request")
    /\ Pop
    /\ dirty' = Top.dirty
    /\ UNCHANGED <<database, store, current>>

LeaveRequest ==
    /\ TopIs("request")
    /\ Pop
    /\ store' = << >>
    /\ dirty' = Top.dirty
    /\ UNCHANGED <<database, current>>

(***************************************************************************)
(* Transactions and savepoints, opened by the host or by the API calls.    *)
(***************************************************************************)
EnterAtomic ==
    /\ Push(AtomicBlock)
    /\ UNCHANGED <<database, store, dirty, current>>

\* The end of a savepoint, or of the transaction: then the writes become
\* visible to everybody and the on_commit callbacks run outside it.
Commit ==
    /\ TopIs("atomic") /\ Top.stage \in {"open", "locked"}
    /\ Pop
    /\ IF InBlock(frames', "atomic")
       THEN UNCHANGED <<database, store>>
       ELSE /\ committed' = View
            /\ pending' = Nothing
            /\ hooks' = {}
            /\ Forget(hooks)
            /\ UNCHANGED last
    /\ UNCHANGED <<dirty, current>>

\* An exception, at any point of the block.
Rollback ==
    /\ TopIs("atomic")
    /\ Pop
    /\ pending' = Top.pending
    /\ hooks' = Top.hooks
    /\ UNCHANGED <<committed, last, store, dirty>>
    /\ current' = [k \in Keys |-> IF View'[k] = View[k] THEN current[k]
                                                       ELSE {View'[k]}]

(***************************************************************************)
(* API calls, each inside a block of its own.                              *)
(***************************************************************************)
Write(K) ==
    /\ last < MaxVersion
    /\ last' = last + 1
    /\ pending' = Over([k \in K |-> last'], pending)
    /\ current' = [k \in Keys |-> IF k \in K THEN {last'} ELSE current[k]]
    /\ UNCHANGED committed

SetStage(stage, K) ==
    frames' = [frames EXCEPT ![Len(frames)] = [Top EXCEPT !.stage = stage,
                                                          !.edit = K]]

\* suspend, revoke, and the status change of reactivate: a conditional
\* UPDATE, invalidation, a callback.
Transition(u) ==
    /\ TopIs("atomic") /\ Top.stage \in {"open", "locked"}
    /\ Write({u})
    /\ hooks' = hooks \cup {u}
    /\ Invalidate({u})
    /\ UNCHANGED frames

\* _refresh_for_mutation: grant, reactivate and every change of a role lock
\* the role first.
LockRole ==
    /\ TopIs("atomic") /\ Top.stage = "open"
    /\ SetStage("locked", {})
    /\ Invalidate(Keys)
    /\ UNCHANGED <<database, current>>

\* The rows are written.  The host's model receivers run before the call
\* gets to its own invalidation.
WriteLocked(K) ==
    /\ TopIs("atomic") /\ Top.stage = "locked"
    /\ Write(K)
    /\ SetStage("written", K)
    /\ UNCHANGED <<hooks, store, dirty>>

\* grant and the permission edits register a callback as well;
\* RoleService.update does not.
InvalidateWritten(callback) ==
    /\ TopIs("atomic") /\ Top.stage = "written"
    /\ Invalidate(Top.edit)
    /\ hooks' = IF callback THEN hooks \cup Top.edit ELSE hooks
    /\ SetStage("open", {})
    /\ UNCHANGED <<committed, pending, last, current>>

\* Another connection commits; row locks keep it off what is written here.
Foreign(k) ==
    /\ k \notin DOMAIN pending
    /\ last < MaxVersion
    /\ last' = last + 1
    /\ committed' = [committed EXCEPT ![k] = last']
    /\ current' = [current EXCEPT ![k] = @ \cup {last'}]
    /\ UNCHANGED <<pending, hooks, frames, store, dirty>>

Next ==
    \/ EnterRequest \/ EnterNested \/ LeaveNested \/ LeaveRequest
    \/ EnterAtomic \/ Commit \/ Rollback
    \/ LockRole
    \/ \E u \in Users : Transition(u) \/ WriteLocked({u})
    \/ WriteLocked(Keys)
    \/ \E callback \in BOOLEAN : InvalidateWritten(callback)
    \/ \E k \in Keys : Check(k) \/ Foreign(k)

Spec == Init /\ [][Next]_vars

(***************************************************************************)
(* Properties.                                                             *)
(***************************************************************************)
Memos == UNION {[K -> 0..MaxVersion] : K \in SUBSET Keys}

Frames ==
    [kind : {"request"}, dirty : BOOLEAN]
    \cup [kind : {"shared"}]
    \cup [kind : {"atomic"}, pending : Memos, hooks : SUBSET Keys,
          stage : {"open", "locked", "written"}, edit : SUBSET Keys]

\* Types; a store exists exactly while a request block is open, uncommitted
\* writes exactly inside a transaction.
TypeOK ==
    /\ committed \in [Keys -> 0..MaxVersion]
    /\ pending \in Memos
    /\ hooks \subseteq Keys
    /\ last \in 0..MaxVersion
    /\ frames \in Seq(Frames) /\ Len(frames) <= MaxDepth
    /\ store \in {<< >>} \cup {<<m>> : m \in Memos}
    /\ dirty \in BOOLEAN
    /\ current \in [Keys -> SUBSET (0..MaxVersion)]
    /\ store # << >> <=> InBlock(frames, "request")
    /\ ~InAtomic => pending = Nothing /\ hooks = {}

\* docs/lifecycle.md: the next check sees a pending authority change, and
\* what the database says after commit or rollback.  A check is based on the
\* version this thread wrote last, or on one that was committed by others
\* since then or since the request began; never on one that was rolled back,
\* overwritten by the thread itself, or left by an earlier request.
NoStaleAnswer == \A k \in Keys : Answer(k) \in current[k]

=============================================================================
