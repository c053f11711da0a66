-------------------------------- MODULE StepUp --------------------------------
(***************************************************************************)
(* What step-up re-authentication promises (SPEC 7), with no cache, no     *)
(* workers and no clock: a proof mints a token at most once; in single-use *)
(* mode a token verifies once, in window mode while it is live; a token    *)
(* may stop verifying at any time and then never verifies again.           *)
(***************************************************************************)
CONSTANT Tokens

VARIABLES
    reusable, \* whether REAUTH.MODE is "window"
    unborn,   \* tokens not yet minted
    live,     \* tokens a consumption would accept
    spent     \* tokens a consumption accepted

promise == <<reusable, unborn, live, spent>>

Init == reusable \in BOOLEAN /\ unborn = Tokens /\ live = {} /\ spent = {}

\* A token may be dead on arrival: it was overtaken by an invalidation.
Mint(t) ==
    /\ t \in unborn
    /\ unborn' = unborn \ {t}
    /\ live' \in {live, live \cup {t}}
    /\ UNCHANGED <<reusable, spent>>

\* A reusable token may survive its use.
Consume(t) ==
    /\ t \in live
    /\ live' \in {live \ {t}} \cup (IF reusable THEN {live} ELSE {})
    /\ spent' = spent \cup {t}
    /\ UNCHANGED <<reusable, unborn>>

\* Expiry, invalidation, eviction.
Lose(S) ==
    /\ live' = live \ S
    /\ UNCHANGED <<reusable, unborn, spent>>

Next ==
    \/ \E t \in Tokens : Mint(t) \/ Consume(t)
    \/ \E S \in SUBSET live : Lose(S)

Spec == Init /\ [][Next]_promise

=============================================================================
