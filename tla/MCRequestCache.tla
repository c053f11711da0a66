---------------------------- MODULE MCRequestCache ----------------------------
(***************************************************************************)
(* A thread that checks two users' assignments, with up to four open       *)
(* blocks: a transaction and a savepoint in a request, or a request in a   *)
(* transaction with a savepoint in it.                                     *)
(***************************************************************************)
EXTENDS RequestCache

CONSTANTS u1, u2, valid

MCUsers == {u1, u2}
=============================================================================
