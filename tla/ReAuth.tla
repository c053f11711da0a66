-------------------------------- MODULE ReAuth --------------------------------
(***************************************************************************)
(* Step-up re-authentication (src/scoped_access/reauth): tokens, their     *)
(* generations, claims and use marks in a cache shared by all workers.     *)
(* Every cache operation is one step, so that issuing, consuming and       *)
(* invalidating interleave as they do between processes; the cache may     *)
(* drop entries, and entries past their physical timeout read as absent.   *)
(* A refused proof and a request of an inactive user touch no state: they  *)
(* are requests that never start.                                          *)
(***************************************************************************)
EXTENDS Naturals, FiniteSets

CONSTANTS
    Users, Workers, Tokens,
    Issuers,     \* users that present proofs
    Deployments, \* configurations and hosts the service runs in
    TTL,         \* REAUTH.TTL, in ticks
    Patience,    \* ticks after which a deployment kills a request
    MaxDraws,    \* bound: random generations drawn
    MaxUses,     \* bound: consumptions of one window-mode token
    None

Entries == {"token", "claim", "mark"}

\* REAUTH.MODE; the cache backend; when a password save commits, before the
\* post_save receivers or after them; what the cache may drop.  Bounds: the
\* tokens minted and the clock.
Deployment == [mode : {"single_use", "window"},
               backend : {"redis", "portable"},
               save : {"autocommit", "atomic"},
               drops : SUBSET (Entries \cup {"generation"}),
               mints : Nat, lasts : Nat]

ASSUME ConfigAssumption ==
    /\ Issuers \subseteq Users
    /\ Deployments \subseteq Deployment
    /\ TTL \in Nat \ {0} /\ Patience \in Nat
    /\ MaxDraws \in Nat /\ MaxUses \in Nat

Payload == [user : Users, generation : Nat, expires : Nat]

ASSUME NoneAssumption == None \notin Nat \cup Users \cup Tokens \cup Payload

VARIABLES
    deployment,
    generation, \* [Users -> Nat or None], the generation keys
    drawn,      \* random generations drawn so far; each draw is a new number
    payload,    \* [Tokens -> what was stored under it, None if unminted]
    entry,      \* the token itself, its consumption claim and its use mark in
                \* the cache: the physical deadline of each entry, or None
    pc, call,   \* each worker's control point and arguments
    save,       \* [Users -> progress of a password save]
    now,
    invalidations, \* history: [Users -> invalidations completed]
    bornAfter,     \* history: [Tokens -> invalidations complete when the
                   \* generation it is stored with was read]
    uses           \* history: [Tokens -> accepted consumptions]

cache == <<generation, drawn, payload, entry>>
history == <<invalidations, bornAfter, uses>>
vars == <<deployment, cache, pc, call, save, now, history>>

\* since: the invalidations complete when a consumption begins, or when an
\* issuing call reads the generation.
NoCall == [user |-> None, token |-> None, fresh |-> FALSE,
           generation |-> None, at |-> 0, since |-> 0]

Init ==
    /\ deployment \in Deployments
    /\ generation = [u \in Users |-> None]
    /\ drawn = 0
    /\ payload = [t \in Tokens |-> None]
    /\ entry = [k \in Entries |-> [t \in Tokens |-> None]]
    /\ pc = [w \in Workers |-> "idle"]
    /\ call = [w \in Workers |-> NoCall]
    /\ save = [u \in Users |-> "none"]
    /\ now = 0
    /\ invalidations = [u \in Users |-> 0]
    /\ bornAfter = [t \in Tokens |-> 0]
    /\ uses = [t \in Tokens |-> 0]

(***************************************************************************)
(* The cache: cache.set and cache.add with timeout ttl * 2, cache.get.     *)
(***************************************************************************)
Deadline == now + 2 * TTL

Held(k, t) == entry[k][t] # None /\ now < entry[k][t]

Set(k, t) == entry' = [entry EXCEPT ![k][t] = Deadline]

Remove(k, t) == entry' = [entry EXCEPT ![k][t] = None]

\* Mutant: a missing generation restarts at the first one.
RestartedGeneration == 1

\* Mutant: the last value drawn is handed out again.
LastGeneration == drawn

\* secrets.token_urlsafe: a value no one drew before.
NewGeneration == drawn + 1

Draw(u) ==
    /\ drawn < MaxDraws
    /\ drawn' = NewGeneration
    /\ generation' = [generation EXCEPT ![u] = NewGeneration]

Goto(w, where) == pc' = [pc EXCEPT ![w] = where]

\* The call returns; the worker is free again.
Return(w) == Goto(w, "idle") /\ call' = [call EXCEPT ![w] = NoCall]

(***************************************************************************)
(* ReAuthService.issue.  The proof is verified first; the generation is    *)
(* read while the payload is built.                                        *)
(***************************************************************************)
BeginIssue(w, u) ==
    /\ pc[w] = "idle"
    /\ Goto(w, "get_generation")
    /\ call' = [call EXCEPT ![w] = [NoCall EXCEPT !.user = u, !.at = now]]
    /\ UNCHANGED <<deployment, cache, save, now, history>>

\* secrets.token_urlsafe and cache.set: a token no one minted before.
StoreToken(w, t) ==
    /\ pc[w] = "store"
    /\ payload[t] = None
    /\ Cardinality({s \in Tokens : payload[s] # None}) < deployment.mints
    /\ payload' = [payload EXCEPT ![t] =
           [user |-> call[w].user, generation |-> call[w].generation,
            expires |-> call[w].at + TTL]]
    /\ Set("token", t)
    /\ bornAfter' = [bornAfter EXCEPT ![t] = call[w].since]
    /\ Return(w)
    /\ UNCHANGED <<deployment, generation, drawn, save, now, invalidations, uses>>

(***************************************************************************)
(* ReAuthService.consume.                                                  *)
(***************************************************************************)
\* Mutant: the owner of the token is only compared once it has been popped.
AnyonesToken(u, t) == Held("token", t)

\* The first cache.get, and the comparison that keeps a foreign principal
\* from burning the token.
OwnToken(u, t) == Held("token", t) /\ payload[t].user = u

\* A call refused here changes nothing.
BeginConsume(w, u, t, fresh) ==
    /\ pc[w] = "idle"
    /\ OwnToken(u, t)
    /\ uses[t] < MaxUses
    /\ Goto(w, IF deployment.mode = "window" THEN "validate"
               ELSE IF deployment.backend = "redis" THEN "pop" ELSE "claim")
    /\ call' = [call EXCEPT ![w] =
           [NoCall EXCEPT !.user = u, !.token = t, !.fresh = fresh,
                          !.at = now, !.since = invalidations[u]]]
    /\ UNCHANGED <<deployment, cache, save, now, history>>

\* cache.add of the claim: one worker wins it.  Workers that die in a call are
\* left out: one that dies between the claim and the delete keeps a good token
\* from everybody until it expires.
Claim(w) ==
    LET t == call[w].token
    IN  /\ pc[w] = "claim"
        /\ IF Held("claim", t)
           THEN Return(w) /\ UNCHANGED entry
           ELSE /\ Set("claim", t)
                /\ Goto(w, "pop")
                /\ UNCHANGED call
        /\ UNCHANGED <<deployment, generation, drawn, payload,
                       save, now, history>>

\* Mutant: the value read before is used without deleting it atomically.
PopObserved(w) ==
    /\ pc[w] = "pop"
    /\ Remove("token", call[w].token)
    /\ Goto(w, "validate")
    /\ UNCHANGED <<deployment, generation, drawn, payload, call,
                   save, now, history>>

\* GETDEL or its Lua equivalent, or the cache.delete of the claim's winner:
\* each says whether there was something to take.
Pop(w) ==
    LET t == call[w].token
    IN  /\ pc[w] = "pop"
        /\ IF Held("token", t)
           THEN /\ Remove("token", t)
                /\ Goto(w, "validate")
                /\ UNCHANGED call
           ELSE Return(w) /\ UNCHANGED entry
        /\ UNCHANGED <<deployment, generation, drawn, payload,
                       save, now, history>>

\* Mutant: the cache timeout is trusted to be the expiry.
ValidateByTimeout(w) ==
    /\ pc[w] = "validate"
    /\ Goto(w, "get_generation")
    /\ UNCHANGED <<deployment, cache, call, save, now, history>>

\* _still_valid, first half: the logical expiry.  The owner was compared when
\* the entry was read, and entries are immutable.
Validate(w) ==
    /\ pc[w] = "validate"
    /\ IF now < payload[call[w].token].expires
       THEN Goto(w, "get_generation") /\ UNCHANGED call
       ELSE Return(w)
    /\ UNCHANGED <<deployment, cache, save, now, history>>

\* The use mark (cache.add), and the answer of a window-mode consumption.
Mark(w) ==
    LET t == call[w].token
        first == ~Held("mark", t)
    IN  /\ pc[w] = "mark"
        /\ IF first THEN Set("mark", t) ELSE UNCHANGED entry
        /\ uses' = IF call[w].fresh /\ ~first THEN uses
                   ELSE [uses EXCEPT ![t] = @ + 1]
        /\ Return(w)
        /\ UNCHANGED <<deployment, generation, drawn, payload,
                       save, now, invalidations, bornAfter>>

(***************************************************************************)
(* ReAuthService._generation, and what its caller does with the answer g:  *)
(* an issuing worker goes on to store the token, a consuming one compares  *)
(* g with the token's generation.                                          *)
(***************************************************************************)
WithGeneration(w, g) ==
    LET t == call[w].token
    IN  \/ /\ t = None
           /\ call' = [call EXCEPT ![w].generation = g,
                                ![w].since = invalidations[call[w].user]]
           /\ Goto(w, "store")
           /\ UNCHANGED uses
        \/ /\ t # None
           /\ payload[t].generation # g
           /\ Return(w)
           /\ UNCHANGED uses
        \/ /\ t # None
           /\ payload[t].generation = g
           /\ IF deployment.mode = "window"
              THEN Goto(w, "mark") /\ UNCHANGED <<call, uses>>
              ELSE Return(w) /\ uses' = [uses EXCEPT ![t] = @ + 1]

GetGeneration(w) ==
    LET g == generation[call[w].user]
    IN  /\ pc[w] = "get_generation"
        /\ IF g # None
           THEN WithGeneration(w, g)
           ELSE Goto(w, "add_generation") /\ UNCHANGED <<call, uses>>
        /\ UNCHANGED <<deployment, cache, save, now, invalidations, bornAfter>>

\* cache.add of a fresh candidate, unless another worker was faster.
AddGeneration(w) ==
    /\ pc[w] = "add_generation"
    /\ IF generation[call[w].user] = None
       THEN Draw(call[w].user) /\ WithGeneration(w, NewGeneration)
       ELSE /\ Goto(w, "reread_generation")
            /\ UNCHANGED <<generation, drawn, call, uses>>
    /\ UNCHANGED <<deployment, payload, entry, save, now,
                   invalidations, bornAfter>>

\* The other worker's value or, if that is gone already, one no one stores.
RereadGeneration(w) ==
    LET g == generation[call[w].user]
    IN  /\ pc[w] = "reread_generation"
        /\ IF g # None
           THEN WithGeneration(w, g) /\ UNCHANGED drawn
           ELSE /\ drawn < MaxDraws
                /\ drawn' = NewGeneration
                /\ WithGeneration(w, NewGeneration)
        /\ UNCHANGED <<deployment, generation, payload, entry, save,
                       now, invalidations, bornAfter>>

(***************************************************************************)
(* Invalidation: explicit, or from the receivers of a password save.       *)
(***************************************************************************)
Completed(u) == invalidations' = [invalidations EXCEPT ![u] = @ + 1]

InvalidateAll(u) ==
    /\ Draw(u)
    /\ Completed(u)
    /\ UNCHANGED <<deployment, payload, entry, pc, call, save, now,
                   bornAfter, uses>>

\* pre_save saw another password than the stored one; UPDATE.
SavePassword(u) ==
    /\ save[u] = "none"
    /\ save' = [save EXCEPT ![u] = deployment.save]
    /\ UNCHANGED <<deployment, cache, pc, call, now, history>>

\* post_save, with the new password committed or about to be.
PasswordSaved(u) ==
    /\ save[u] \in {"autocommit", "atomic"}
    /\ Draw(u)
    /\ IF save[u] = "autocommit"
       THEN save' = [save EXCEPT ![u] = "none"] /\ Completed(u)
       ELSE /\ save' = [save EXCEPT ![u] = "uncommitted"]
            /\ UNCHANGED invalidations
    /\ UNCHANGED <<deployment, payload, entry, pc, call, now, bornAfter, uses>>

\* The end of the host's transaction: the old password is gone, or stays.
Commit(u) ==
    /\ save[u] = "uncommitted"
    /\ save' = [save EXCEPT ![u] = "none"]
    /\ Completed(u)
    /\ UNCHANGED <<deployment, cache, pc, call, now, bornAfter, uses>>

Rollback(u) ==
    /\ save[u] = "uncommitted"
    /\ save' = [save EXCEPT ![u] = "none"]
    /\ UNCHANGED <<deployment, cache, pc, call, now, history>>

(***************************************************************************)
(* The cache drops an entry; time passes.                                  *)
(***************************************************************************)
Evict(k, t) ==
    /\ k \in deployment.drops /\ entry[k][t] # None
    /\ Remove(k, t)
    /\ UNCHANGED <<deployment, generation, drawn, payload, pc, call, save, now,
                   history>>

EvictGeneration(u) ==
    /\ "generation" \in deployment.drops /\ generation[u] # None
    /\ generation' = [generation EXCEPT ![u] = None]
    /\ UNCHANGED <<deployment, drawn, payload, entry, pc, call,
                   save, now, history>>

\* No call outlives Patience.
Tick ==
    /\ now < deployment.lasts
    /\ \A w \in Workers : pc[w] # "idle" => now < call[w].at + Patience
    /\ now' = now + 1
    /\ UNCHANGED <<deployment, cache, pc, call, save, history>>

ServiceStep(w) ==
    \/ \E u \in Issuers : BeginIssue(w, u)
    \/ \E u \in Users, t \in Tokens, fresh \in BOOLEAN :
           BeginConsume(w, u, t, fresh)
    \/ \E t \in Tokens : StoreToken(w, t)
    \/ Pop(w) \/ Claim(w) \/ Validate(w) \/ Mark(w)
    \/ GetGeneration(w) \/ AddGeneration(w) \/ RereadGeneration(w)

Next ==
    \/ \E w \in Workers : ServiceStep(w)
    \/ \E u \in Issuers :
           \/ InvalidateAll(u) \/ SavePassword(u) \/ PasswordSaved(u)
           \/ Commit(u) \/ Rollback(u) \/ EvictGeneration(u)
    \/ \E k \in Entries, t \in Tokens : Evict(k, t)
    \/ Tick

Spec == Init /\ [][Next]_vars

(***************************************************************************)
(* Properties.                                                             *)
(***************************************************************************)

Points == {"idle", "get_generation", "add_generation", "reread_generation",
           "store", "claim", "pop", "validate", "mark"}

Call == [user : Users \cup {None}, token : Tokens \cup {None}, fresh : BOOLEAN,
         generation : Nat \cup {None}, at : Nat, since : Nat]

\* Types, and the control points that carry a token.
TypeOK ==
    /\ deployment \in Deployments
    /\ drawn \in 0..MaxDraws
    /\ generation \in [Users -> 1..MaxDraws \cup {None}]
    /\ payload \in [Tokens -> Payload \cup {None}]
    /\ entry \in [Entries -> [Tokens -> Nat \cup {None}]]
    /\ pc \in [Workers -> Points] /\ call \in [Workers -> Call]
    /\ save \in [Users -> {"none", "autocommit", "atomic", "uncommitted"}]
    /\ now \in Nat
    /\ invalidations \in [Users -> Nat]
    /\ bornAfter \in [Tokens -> Nat] /\ uses \in [Tokens -> Nat]
    /\ \A k \in Entries, t \in Tokens : entry[k][t] # None => payload[t] # None
    /\ \A w \in Workers :
           pc[w] \in {"pop", "claim", "validate", "mark"} =>
               call[w].token \in Tokens /\ payload[call[w].token] # None

\* In this step worker w answers that token t verifies.
Accepts(w, t) == pc'[w] # pc[w] /\ call[w].token = t /\ uses'[t] # uses[t]

\* The consumption is one that elects: every one in single-use mode.
Elects(w) == deployment.mode = "single_use" \/ call[w].fresh

\* SPEC 7.7: a fresh consumption, and in single-use mode every consumption,
\* accepts only a token no consumption accepted before, however the workers
\* interleave.
OneFreshUse ==
    [][\A w \in Workers, t \in Tokens :
           (Accepts(w, t) /\ Elects(w)) => uses[t] = 0]_vars

\* In this step worker w accepts token t, although an invalidation came between
\* the reading of its generation and the begin of the consumption.
Outlived(w, t) == Accepts(w, t) /\ bornAfter[t] < call[w].since

\* SPEC 7.4: once an invalidation is complete, a consumption that begins
\* after it accepts no token issued before it, nor one that was being issued
\* and is stored with a generation the invalidation replaced.
InvalidationIsFinal ==
    [][\A w \in Workers, t \in Tokens : ~Outlived(w, t)]_vars

\* The same where a password save commits before its receivers run.
CommittedInvalidationIsFinal ==
    [][deployment.save = "autocommit" =>
           \A w \in Workers, t \in Tokens : ~Outlived(w, t)]_vars

\* The token verifies as far as its own data goes.
Good(t) ==
    /\ payload[t] # None
    /\ payload[t].generation = generation[payload[t].user]
    /\ now < payload[t].expires

\* docs/reauth.md: consumption "elects exactly one winner": while the cache
\* keeps its entries, a good token is never lost to a foreign principal, to
\* two workers that both lost the race, or to a timeout of the cache; when
\* nobody is consuming it, it can still be consumed or it has been.  (A worker
\* that died in a call is not one: its call would count as under way for ever.)
TokenIsNeverLost ==
    (/\ deployment.drops \cap {"token", "claim"} = {}
     /\ \A w \in Workers : pc[w] = "idle") =>
        \A t \in Tokens : Good(t) => \/ uses[t] > 0
                                     \/ Held("token", t) /\ ~Held("claim", t)

\* A worker is consuming the token and the answer may still be yes: in
\* single-use mode it has taken the entry out.
InFlight(t) ==
    \E w \in Workers :
        /\ call[w].token = t
        /\ \/ pc[w] = "validate" /\ now < payload[t].expires
           \/ pc[w] = "get_generation"

\* The token passed its last comparison; only the use mark is missing.
Verified(t) == \E w \in Workers : pc[w] = "mark" /\ call[w].token = t

\* A consumption may still accept the token: it has passed every comparison,
\* or it would if it went on now.
Alive(t) ==
    \/ Verified(t)
    \/ /\ payload[t] # None
       /\ payload[t].generation = generation[payload[t].user]
       /\ \/ Held("token", t) /\ now < payload[t].expires
          \/ InFlight(t)

\* Both modes implement the promise of StepUp.
Promise == INSTANCE StepUp WITH
    reusable <- deployment.mode = "window",
    unborn <- {t \in Tokens : payload[t] = None},
    live <- {t \in Tokens : Alive(t)},
    spent <- {t \in Tokens : uses[t] > 0}

ImplementsStepUp == Promise!Spec

=============================================================================
