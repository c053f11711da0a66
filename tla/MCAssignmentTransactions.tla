----------------------- MODULE MCAssignmentTransactions -----------------------
(***************************************************************************)
(* Two workers and two rows: the second row is granted after the first is  *)
(* revoked.  One actor may delegate the role only while it lacks "high".   *)
(***************************************************************************)
EXTENDS AssignmentTransactions

CONSTANTS w1, w2, a1, a2, low, high

MCWorkers == {w1, w2}
MCRows == {a1, a2}
MCPermissions == {low, high}
MCDelegable == [w \in Workers |-> IF w = w1 THEN {low} ELSE {low, high}]
MCEdits == {{high}}
MCPerms == {low}
=============================================================================
