------------------------------- MODULE MCReAuth -------------------------------
(***************************************************************************)
(* Small deployments of ReAuth for TLC: one user who presents proofs, one  *)
(* who tries the other's tokens, two workers.                              *)
(***************************************************************************)
EXTENDS ReAuth, TLC

CONSTANTS owner, stranger, w1, w2, t1, t2

MCUsers == {owner, stranger}
MCWorkers == {w1, w2}
MCTokens == {t1, t2}

\* Workers and tokens are interchangeable: every definition quantifies over
\* them.
Interchangeable == Permutations(Workers) \cup Permutations(Tokens)

In(mode, backend, order, drops, mints, lasts) ==
    [mode |-> mode, backend |-> backend, save |-> order, drops |-> drops,
     mints |-> mints, lasts |-> lasts]

\* Both ways to claim a token, in a cache that loses at most a generation
\* (two tokens where a claim is an entry of its own) and in one that may drop
\* anything; and window mode in a cache that keeps its marks.
MCDeployments ==
    {In("single_use", "redis", "autocommit", {"generation"}, 1, 2),
     In("single_use", "portable", "autocommit", {"generation"}, 2, 1),
     In("window", "portable", "autocommit", {"token", "generation"}, 1, 2)}
    \cup {In("single_use", backend, "atomic", Entries \cup {"generation"}, 1, 2) :
        backend \in {"redis", "portable"}}

SingleUncommitted ==
    {In("single_use", backend, "atomic", {}, 1, 1) :
        backend \in {"redis", "portable"}}
=============================================================================
