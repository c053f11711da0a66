--------------------------- MODULE MCMutationGuards ---------------------------
(***************************************************************************)
(* MutationGuards for TLC: a request and a task it may spawn.              *)
(***************************************************************************)
EXTENDS MutationGuards, TLC

CONSTANTS request, task, role1, role2, key1, key2

Interchangeable == Permutations({request, task}) \cup Permutations({role1, role2})
                       \cup Permutations({key1, key2}) \cup Permutations(Scopes)
=============================================================================
