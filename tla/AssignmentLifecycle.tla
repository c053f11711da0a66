------------------------- MODULE AssignmentLifecycle -------------------------
(***************************************************************************)
(* What the lifecycle API promises about one role and the assignments of   *)
(* it to one user at one scope (SPEC 8.1, 8.3 and 9), with no              *)
(* transactions: legal status changes only, at most one live assignment,   *)
(* and one event for every change, in the order of the changes.            *)
(***************************************************************************)
EXTENDS Sequences

CONSTANTS Rows, Permissions

VARIABLES
    status, \* [Rows -> status], ABSENT before the grant
    perms,  \* the role's permissions
    log     \* the events receivers recorded

lifecycle == <<status, perms, log>>

Live == {a \in Rows : status[a] \in {"ACTIVE", "SUSPENDED"}}

Init ==
    /\ status = [a \in Rows |-> "ABSENT"]
    /\ perms \subseteq Permissions
    /\ log = << >>

Change(a, from, target) ==
    /\ status[a] \in from
    /\ status' = [status EXCEPT ![a] = target]
    /\ log' = Append(log, [row |-> a, status |-> target])
    /\ UNCHANGED perms

Grant(a) == Live = {} /\ Change(a, {"ABSENT"}, "ACTIVE")
Suspend(a) == Change(a, {"ACTIVE"}, "SUSPENDED")
Reactivate(a) == Change(a, {"SUSPENDED"}, "ACTIVE")
Revoke(a) == Change(a, {"ACTIVE", "SUSPENDED"}, "REVOKED")

\* An edit reports exactly the permissions it added or removed.
EditRole(added, removed) ==
    /\ added \subseteq Permissions \ perms
    /\ removed \subseteq perms
    /\ added \cup removed # {}
    /\ perms' = (perms \cup added) \ removed
    /\ log' = Append(log, [added |-> added, removed |-> removed])
    /\ UNCHANGED status

Next ==
    \/ \E a \in Rows : Grant(a) \/ Suspend(a) \/ Reactivate(a) \/ Revoke(a)
    \/ \E added, removed \in SUBSET Permissions : EditRole(added, removed)

Spec == Init /\ [][Next]_lifecycle

=============================================================================
