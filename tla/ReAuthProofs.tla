----------------------------- MODULE ReAuthProofs -----------------------------
(***************************************************************************)
(* Machine-checked proofs about ReAuth: for any users, workers and tokens, *)
(* any deployments, and any interleaving of the cache operations; and that *)
(* the service implements StepUp.                                          *)
(***************************************************************************)
EXTENDS ReAuth, TLAPS

Single == deployment.mode = "single_use"

(***************************************************************************)
(* The inductive invariant.                                                *)
(***************************************************************************)
\* What a call knows about its token, its clock and the invalidations.
WorkerInv(w) ==
    LET t == call[w].token
        u == call[w].user
    IN  /\ pc[w] = "idle" => call[w] = NoCall
        /\ pc[w] # "idle" => u \in Users /\ call[w].since <= invalidations[u]
        /\ pc[w] = "store" => t = None /\ call[w].generation # None
        /\ pc[w] \in {"claim", "pop"} => Single
        /\ pc[w] = "mark" => ~Single
        /\ pc[w] \in {"claim", "pop", "validate", "mark"} => t # None
        /\ t # None => payload[t] # None /\ payload[t].user = u
        /\ (t # None /\ pc[w] \in {"add_generation", "reread_generation"}) =>
               generation[u] # payload[t].generation
        /\ pc[w] # "idle" => call[w].at <= now /\ now <= call[w].at + Patience
        /\ pc[w] \in {"add_generation", "reread_generation", "get_generation", "mark"}
           /\ t # None => call[w].at < payload[t].expires
        /\ (pc[w] = "mark" /\ deployment.save = "autocommit") =>
               call[w].since <= bornAfter[t]
        /\ (pc[w] = "store" /\ deployment.save = "autocommit"
            /\ call[w].since < invalidations[u]) =>
               generation[u] = None \/ call[w].generation < generation[u]

\* Generations in use have been drawn; payloads belong to the past.
Numbers ==
    /\ \A u \in Users : generation[u] # None => generation[u] <= drawn
    /\ \A w \in Workers : call[w].generation # None => call[w].generation <= drawn
    /\ \A t \in Tokens : payload[t] # None =>
           payload[t].generation <= drawn /\ payload[t].expires <= now + TTL
    /\ deployment.save = "autocommit" => \A u \in Users : save[u] \in {"none", "autocommit"}

\* The consumption took the token out of the cache.
Owns(w, t) ==
    /\ call[w].token = t
    /\ pc[w] \in {"validate", "get_generation", "add_generation", "reread_generation"}

Owners ==
    Single => \A t \in Tokens, w \in Workers : Owns(w, t) =>
        /\ entry["token"][t] = None /\ uses[t] = 0
        /\ \A v \in Workers : Owns(v, t) => v = w

\* The token will never verify again.
Dead(t) ==
    \/ payload[t].expires <= now
    \/ generation[payload[t].user] # payload[t].generation

\* Entries outlive the token's logical expiry, marks by another TTL.
Lasting(t) ==
    /\ entry["token"][t] # None => payload[t].expires <= entry["token"][t]
    /\ entry["mark"][t] # None => payload[t].expires + TTL <= entry["mark"][t]

\* An accepted token is gone in single-use mode and marked in window mode.
Spent(t) ==
    uses[t] > 0 => /\ Single => entry["token"][t] = None
                   /\ (~Single /\ "mark" \notin deployment.drops) => entry["mark"][t] # None

\* A token whose generation was read before a completed invalidation has an
\* older one.
Outdated(t) ==
    (/\ deployment.save = "autocommit"
     /\ bornAfter[t] < invalidations[payload[t].user]) =>
        \/ generation[payload[t].user] = None
        \/ payload[t].generation < generation[payload[t].user]

\* The winner of the claim is about to take the token, or it is gone.
Claimed(t) ==
    Held("claim", t) => \/ ~Held("token", t)
                        \/ \E w \in Workers : pc[w] = "pop" /\ call[w].token = t

\* A token that could verify is in the cache or in the hands of one call.
Kept(t) ==
    "token" \notin deployment.drops =>
        \/ Held("token", t) \/ uses[t] > 0 \/ Dead(t)
        \/ Single /\ \E w \in Workers : Owns(w, t)

TokenInv(t) ==
    /\ payload[t] = None => uses[t] = 0
    /\ payload[t] # None =>
           Lasting(t) /\ Spent(t) /\ Outdated(t) /\ Claimed(t) /\ Kept(t)

Inv ==
    /\ TypeOK /\ Numbers /\ Owners
    /\ \A w \in Workers : WorkerInv(w)
    /\ \A t \in Tokens : TokenInv(t)

(***************************************************************************)
(* What each step does.                                                    *)
(***************************************************************************)
\* The deployment and what was stored stay; numbers, counters and the clock
\* only grow; a generation changes to a number no one drew before.
Progress ==
    /\ deployment' = deployment /\ drawn <= drawn' /\ now <= now'
    /\ \A u \in Users : /\ invalidations[u] <= invalidations'[u]
                        /\ \/ generation'[u] \in {generation[u], None}
                           \/ drawn < generation'[u] /\ generation'[u] <= drawn'
    /\ \A t \in Tokens : payload[t] # None =>
           payload'[t] = payload[t] /\ bornAfter'[t] = bornAfter[t]

\* The step of worker w leaves the other workers alone.
Apart(w) == \A v \in Workers \ {w} : pc'[v] = pc[v] /\ call'[v] = call[v]

\* None is no number, no user, no token; the idle worker's call is empty.
LEMMA NoneFacts ==
    /\ None \notin Nat /\ None \notin Users /\ None \notin Tokens /\ None \notin Payload
    /\ NoCall \in Call /\ NoCall.token = None /\ NoCall.generation = None
    /\ NoCall.at = 0 /\ NoCall.since = 0 /\ NoCall.user = None
BY NoneAssumption DEF NoCall, Call

\* What an issuing call knows once it has read the generation.
Told(w, g) ==
    [call[w] EXCEPT !.generation = g, !.since = invalidations[call[w].user]]

\* The four ways a call goes on with a generation.
LEMMA GenerationUsed ==
    ASSUME TypeOK, NEW w \in Workers, NEW g \in Nat, WithGeneration(w, g),
           call[w].user \in Users,
           \A t \in Tokens : call[w].token = t => payload[t] # None
    PROVE  /\ pc' \in [Workers -> Points] /\ call' \in [Workers -> Call] /\ Apart(w)
           /\ uses' \in [Tokens -> Nat]
           /\ \/ /\ call[w].token = None /\ pc'[w] = "store" /\ uses' = uses
                 /\ call'[w] = Told(w, g)
              \/ /\ call[w].token \in Tokens /\ payload[call[w].token].generation # g
                 /\ pc'[w] = "idle" /\ call'[w] = NoCall /\ uses' = uses
              \/ /\ call[w].token \in Tokens /\ payload[call[w].token].generation = g
                 /\ ~Single /\ pc'[w] = "mark" /\ call' = call /\ uses' = uses
              \/ /\ call[w].token \in Tokens /\ payload[call[w].token].generation = g
                 /\ Single /\ pc'[w] = "idle" /\ call'[w] = NoCall
                 /\ uses' = [uses EXCEPT ![call[w].token] = uses[call[w].token] + 1]
<1>1. /\ pc \in [Workers -> Points] /\ call \in [Workers -> Call] /\ call[w] \in Call
      /\ uses \in [Tokens -> Nat] /\ deployment.mode \in {"single_use", "window"}
  BY ConfigAssumption DEF TypeOK, Deployment
<1>2. call[w].token \in Tokens \cup {None}  BY <1>1 DEF Call
<1>3. CASE call[w].token = None
  <2>1. /\ call' = [call EXCEPT ![w] = Told(w, g)]
        /\ pc' = [pc EXCEPT ![w] = "store"] /\ uses' = uses
    BY <1>3 DEF WithGeneration, Goto, Told
  <2>2. Told(w, g) \in Call  BY <1>1 DEF Call, Told, TypeOK
  <2> QED  BY <1>1, <1>3, <2>1, <2>2 DEF Apart, Points
<1>4. CASE call[w].token \in Tokens
  <2> DEFINE t == call[w].token
  <2>1. t # None  BY <1>4, NoneFacts
  <2>2. CASE payload[t].generation # g
    <3>1. /\ pc' = [pc EXCEPT ![w] = "idle"] /\ call' = [call EXCEPT ![w] = NoCall]
          /\ uses' = uses
      BY <2>1, <2>2 DEF WithGeneration, Return, Goto
    <3> QED  BY <1>1, <1>4, <2>2, <3>1, NoneFacts DEF Apart, Points
  <2>3. CASE payload[t].generation = g /\ ~Single
    <3>1. pc' = [pc EXCEPT ![w] = "mark"] /\ call' = call /\ uses' = uses
      BY <1>1, <2>1, <2>3 DEF WithGeneration, Goto, Single
    <3> QED  BY <1>1, <1>4, <2>3, <3>1 DEF Apart, Points
  <2>4. CASE payload[t].generation = g /\ Single
    <3>1. /\ pc' = [pc EXCEPT ![w] = "idle"] /\ call' = [call EXCEPT ![w] = NoCall]
          /\ uses' = [uses EXCEPT ![t] = uses[t] + 1]
      BY <1>1, <2>1, <2>4 DEF WithGeneration, Return, Goto, Single
    <3> QED  BY <1>1, <1>4, <2>4, <3>1, NoneFacts DEF Apart, Points
  <2> QED  BY <2>2, <2>3, <2>4
<1> QED  BY <1>2, <1>3, <1>4

\* A call asks for the generation: it gets the stored one, stores or draws a
\* new one, or has to look again.
LEMMA GenerationAsked ==
    ASSUME Inv, NEW w \in Workers,
           GetGeneration(w) \/ AddGeneration(w) \/ RereadGeneration(w)
    PROVE  LET u == call[w].user
           IN  /\ pc[w] \in {"get_generation", "add_generation", "reread_generation"}
               /\ u \in Users
               /\ UNCHANGED <<deployment, payload, entry, save, now, invalidations, bornAfter>>
               /\ \/ /\ generation[u] # None /\ UNCHANGED <<generation, drawn>>
                     /\ pc[w] # "add_generation" /\ WithGeneration(w, generation[u])
                  \/ /\ pc[w] # "get_generation" /\ generation[u] = None
                     /\ drawn < MaxDraws /\ drawn' = drawn + 1
                     /\ \/ generation' = generation
                        \/ generation' = [generation EXCEPT ![u] = drawn + 1]
                     /\ WithGeneration(w, drawn + 1)
                  \/ /\ UNCHANGED <<generation, drawn, call, uses>>
                     /\ \/ /\ pc[w] = "get_generation" /\ generation[u] = None
                           /\ pc' = [pc EXCEPT ![w] = "add_generation"]
                        \/ /\ pc[w] = "add_generation" /\ generation[u] # None
                           /\ pc' = [pc EXCEPT ![w] = "reread_generation"]
<1>1. /\ pc[w] \in {"get_generation", "add_generation", "reread_generation"}
      /\ call[w].user \in Users
  BY DEF Inv, WorkerInv, GetGeneration, AddGeneration, RereadGeneration
<1>2. CASE GetGeneration(w)
  BY <1>1, <1>2 DEF GetGeneration, Goto, cache
<1>3. CASE AddGeneration(w)
  BY <1>1, <1>3 DEF AddGeneration, Draw, Goto, NewGeneration
<1>4. CASE RereadGeneration(w)
  BY <1>1, <1>4 DEF RereadGeneration, Goto, NewGeneration
<1> QED  BY <1>2, <1>3, <1>4

(***************************************************************************)
(* Types and progress.                                                     *)
(***************************************************************************)
LEMMA DrawFacts ==
    ASSUME TypeOK, NEW u \in Users, Draw(u)
    PROVE  /\ generation' \in [Users -> 1..MaxDraws \cup {None}]
           /\ drawn' = drawn + 1 /\ drawn' \in 0..MaxDraws
           /\ generation'[u] = drawn + 1
           /\ \A v \in Users \ {u} : generation'[v] = generation[v]
<1>1. /\ drawn < MaxDraws /\ drawn' = drawn + 1
      /\ generation' = [generation EXCEPT ![u] = drawn + 1]
  BY DEF Draw, NewGeneration
<1>2. drawn \in 0..MaxDraws /\ generation \in [Users -> 1..MaxDraws \cup {None}]
  BY DEF TypeOK
<1>3. drawn + 1 \in 1..MaxDraws /\ drawn + 1 \in 0..MaxDraws
  BY <1>1, <1>2, ConfigAssumption
<1> QED  BY <1>1, <1>2, <1>3

\* A step of the service keeps the types, moves every number forward only, and changes the
\* state of its own worker alone.
LEMMA ServiceTyped ==
    ASSUME Inv, NEW w \in Workers, ServiceStep(w)
    PROVE  TypeOK' /\ Progress /\ Apart(w)
<1>1. TypeOK /\ call[w] \in Call  BY DEF Inv, TypeOK
<1>2. TTL \in Nat /\ MaxDraws \in Nat /\ drawn \in Nat  BY <1>1, ConfigAssumption DEF TypeOK
<1>3. CASE \E u \in Issuers : BeginIssue(w, u)
  <2>1. PICK u \in Users : BeginIssue(w, u)  BY <1>3, ConfigAssumption
  <2>2. [NoCall EXCEPT !.user = u, !.at = now] \in Call
    BY <1>1, NoneFacts DEF TypeOK, Call
  <2> QED
    BY <1>1, <1>2, <2>1, <2>2
       DEF BeginIssue, TypeOK, Goto, Points, cache, history, Progress, Apart
<1>4. CASE \E u \in Users, t \in Tokens, fresh \in BOOLEAN : BeginConsume(w, u, t, fresh)
  <2>1. PICK u \in Users, t \in Tokens, fresh \in BOOLEAN : BeginConsume(w, u, t, fresh)
    BY <1>4
  <2> DEFINE c == [NoCall EXCEPT !.user = u, !.token = t, !.fresh = fresh,
                                 !.at = now, !.since = invalidations[u]]
  <2>2. c \in Call /\ c.token = t  BY <1>1, NoneFacts DEF TypeOK, Call
  <2>3. payload[t] # None
    BY <1>1, <2>1 DEF BeginConsume, OwnToken, Held, TypeOK, Entries
  <2>4. /\ call' = [call EXCEPT ![w] = c]
        /\ UNCHANGED <<deployment, generation, drawn, payload, entry, save, now,
                       invalidations, bornAfter, uses>>
        /\ \E where \in Points : pc' = [pc EXCEPT ![w] = where]
    BY <2>1 DEF BeginConsume, Goto, cache, history, Points
  <2> HIDE DEF c
  <2> QED
    BY <1>1, <1>2, <2>2, <2>3, <2>4 DEF TypeOK, Progress, Apart
<1>5. CASE \E t \in Tokens : StoreToken(w, t)
  <2>1. PICK t \in Tokens : StoreToken(w, t)  BY <1>5
  <2> DEFINE p == [user |-> call[w].user, generation |-> call[w].generation,
                   expires |-> call[w].at + TTL]
  <2>2. p \in Payload /\ p # None
    <3>1. call[w].user \in Users /\ call[w].generation \in Nat /\ call[w].at \in Nat
      BY <1>1, <2>1 DEF Inv, WorkerInv, StoreToken, Call
    <3>2. p \in Payload  BY <1>2, <3>1 DEF Payload
    <3> QED  BY <3>2, NoneFacts
  <2>3. call[w].since \in Nat  BY <1>1 DEF Call
  <2>4. /\ payload[t] = None /\ payload' = [payload EXCEPT ![t] = p]
        /\ entry' = [entry EXCEPT !["token"][t] = now + 2 * TTL]
        /\ bornAfter' = [bornAfter EXCEPT ![t] = call[w].since]
        /\ pc' = [pc EXCEPT ![w] = "idle"] /\ call' = [call EXCEPT ![w] = NoCall]
        /\ UNCHANGED <<deployment, generation, drawn, save, now, invalidations, uses>>
    BY <2>1 DEF StoreToken, Set, Deadline, Return, Goto
  <2>5. now + 2 * TTL \in Nat  BY <1>1, <1>2 DEF TypeOK
  <2> HIDE DEF p
  <2> QED
    BY <1>1, <1>2, <2>2, <2>3, <2>4, <2>5, NoneFacts
       DEF TypeOK, Points, Entries, Progress, Apart
<1>6. CASE Pop(w) \/ Claim(w)
  <2> DEFINE t == call[w].token
  <2>1. t \in Tokens /\ payload[t] # None  BY <1>1, <1>6 DEF Pop, Claim, TypeOK
  <2>2. /\ UNCHANGED <<deployment, generation, drawn, payload, save, now,
                       invalidations, bornAfter, uses>>
        /\ \E where \in Points : pc' = [pc EXCEPT ![w] = where]
        /\ call' \in {call, [call EXCEPT ![w] = NoCall]}
        /\ pc'[w] \in {"pop", "validate"} => call' = call
    BY <1>1, <1>6 DEF Pop, Claim, Return, Goto, history, Points, TypeOK
  <2>3. \/ entry' = entry
        \/ entry' = [entry EXCEPT !["claim"][t] = now + 2 * TTL]
        \/ entry' = [entry EXCEPT !["token"][t] = None]
    BY <1>6 DEF Pop, Claim, Set, Remove, Deadline
  <2>4. now + 2 * TTL \in Nat  BY <1>1, <1>2 DEF TypeOK
  <2>5. /\ entry' \in [Entries -> [Tokens -> Nat \cup {None}]]
        /\ \A k \in Entries, s \in Tokens : entry'[k][s] # None => payload[s] # None
    BY <1>1, <2>1, <2>3, <2>4 DEF TypeOK, Entries
  <2>6. pc'[w] \in {"idle", "pop", "validate"}
    BY <1>1, <1>6 DEF Pop, Claim, Return, Goto, TypeOK
  <2> QED
    BY <1>1, <1>2, <2>1, <2>2, <2>5, <2>6, NoneFacts DEF TypeOK, Progress, Apart
<1>7. CASE Validate(w)
  <2>1. /\ UNCHANGED <<deployment, generation, drawn, payload, entry, save, now,
                       invalidations, bornAfter, uses>>
        /\ \/ pc' = [pc EXCEPT ![w] = "get_generation"] /\ call' = call
           \/ pc' = [pc EXCEPT ![w] = "idle"] /\ call' = [call EXCEPT ![w] = NoCall]
    BY <1>7 DEF Validate, Goto, Return, cache, history
  <2> QED
    BY <1>1, <1>2, <2>1, NoneFacts DEF TypeOK, Points, Progress, Apart
<1>8. CASE Mark(w)
  <2> DEFINE t == call[w].token
  <2>1. t \in Tokens /\ payload[t] # None  BY <1>1, <1>8 DEF Mark, TypeOK
  <2>2. /\ UNCHANGED <<deployment, generation, drawn, payload, save, now,
                       invalidations, bornAfter>>
        /\ pc' = [pc EXCEPT ![w] = "idle"] /\ call' = [call EXCEPT ![w] = NoCall]
        /\ uses' \in {uses, [uses EXCEPT ![t] = uses[t] + 1]}
        /\ entry' \in {entry, [entry EXCEPT !["mark"][t] = now + 2 * TTL]}
    BY <1>8 DEF Mark, Return, Goto, Set, Deadline
  <2>3. now + 2 * TTL \in Nat  BY <1>1, <1>2 DEF TypeOK
  <2>4. /\ entry' \in [Entries -> [Tokens -> Nat \cup {None}]]
        /\ \A k \in Entries, s \in Tokens : entry'[k][s] # None => payload[s] # None
        /\ uses' \in [Tokens -> Nat]
    BY <1>1, <2>1, <2>2, <2>3 DEF TypeOK, Entries
  <2> QED
    BY <1>1, <1>2, <2>2, <2>4, NoneFacts DEF TypeOK, Points, Progress, Apart
<1>9. CASE GetGeneration(w) \/ AddGeneration(w) \/ RereadGeneration(w)
  <2> DEFINE u == call[w].user
  <2>1. /\ pc[w] \in {"get_generation", "add_generation", "reread_generation"}
        /\ u \in Users
        /\ UNCHANGED <<deployment, payload, entry, save, now, invalidations, bornAfter>>
    BY <1>9, GenerationAsked
  <2>2. \A t \in Tokens : call[w].token = t => payload[t] # None
    BY NoneFacts DEF Inv, WorkerInv
  <2>3. drawn + 1 \in Nat /\ (drawn < MaxDraws => drawn + 1 \in 1..MaxDraws)
    BY <1>2
  <2>4. ASSUME NEW g \in Nat, WithGeneration(w, g)
        PROVE  /\ pc' \in [Workers -> Points] /\ call' \in [Workers -> Call]
               /\ uses' \in [Tokens -> Nat] /\ Apart(w)
               /\ pc'[w] \in {"pop", "claim", "validate", "mark"} =>
                      call'[w].token \in Tokens /\ payload[call'[w].token] # None
    BY <1>1, <2>1, <2>2, <2>4, GenerationUsed
  <2>5. /\ pc' \in [Workers -> Points] /\ call' \in [Workers -> Call]
        /\ uses' \in [Tokens -> Nat] /\ Apart(w)
        /\ pc'[w] \in {"pop", "claim", "validate", "mark"} =>
               call'[w].token \in Tokens /\ payload[call'[w].token] # None
    <3>1. CASE generation[u] # None /\ WithGeneration(w, generation[u])
      <4>1. generation[u] \in Nat  BY <1>1, <2>1, <3>1 DEF TypeOK
      <4> QED  BY <2>4, <3>1, <4>1
    <3>2. CASE WithGeneration(w, drawn + 1)  BY <2>3, <2>4, <3>2
    <3>3. CASE /\ UNCHANGED <<call, uses>>
               /\ \/ pc' = [pc EXCEPT ![w] = "add_generation"]
                  \/ pc' = [pc EXCEPT ![w] = "reread_generation"]
      BY <1>1, <3>3 DEF TypeOK, Points, Apart
    <3> QED  BY <1>9, GenerationAsked, <3>1, <3>2, <3>3
  <2>6. /\ generation' \in [Users -> 1..MaxDraws \cup {None}] /\ drawn' \in 0..MaxDraws
        /\ drawn <= drawn'
        /\ \A v \in Users : \/ generation'[v] = generation[v]
                            \/ drawn < generation'[v] /\ generation'[v] <= drawn'
    <3>1. CASE UNCHANGED <<generation, drawn>>  BY <1>1, <1>2, <3>1 DEF TypeOK
    <3>2. CASE /\ drawn < MaxDraws /\ drawn' = drawn + 1
               /\ \/ generation' = generation
                  \/ generation' = [generation EXCEPT ![u] = drawn + 1]
      BY <1>1, <1>2, <2>1, <2>3, <3>2 DEF TypeOK
    <3> QED  BY <1>9, GenerationAsked, <3>1, <3>2
  <2> QED  BY <1>1, <1>2, <2>1, <2>5, <2>6 DEF TypeOK, Progress, Apart
<1> QED
  BY <1>3, <1>4, <1>5, <1>6, <1>7, <1>8, <1>9 DEF ServiceStep

\* The environment: invalidations, password saves, evictions, time.
EnvironmentStep ==
    \/ \E u \in Issuers :
           \/ InvalidateAll(u) \/ SavePassword(u) \/ PasswordSaved(u)
           \/ Commit(u) \/ Rollback(u) \/ EvictGeneration(u)
    \/ \E k \in Entries, t \in Tokens : Evict(k, t)
    \/ Tick

\* A save under way is of the kind the deployment has; an invalidation that
\* is complete at once comes with a new generation.
Invalidating ==
    \A u \in Users :
        /\ \/ save'[u] \in {save[u], "none", deployment.save}
           \/ save'[u] = "uncommitted" /\ save[u] = "atomic"
        /\ \/ invalidations'[u] = invalidations[u] \/ drawn < generation'[u]
           \/ save[u] = "uncommitted"

\* So does a step of the host or of the cache; it also never lowers a generation.
LEMMA EnvironmentTyped ==
    ASSUME Inv, EnvironmentStep
    PROVE  /\ TypeOK' /\ Progress /\ Invalidating
           /\ UNCHANGED <<payload, pc, call, bornAfter, uses>>
<1>1. TypeOK  BY DEF Inv
<1>2. /\ MaxDraws \in Nat /\ drawn \in Nat /\ now \in Nat
      /\ deployment.save \in {"autocommit", "atomic"}
  BY <1>1, ConfigAssumption DEF TypeOK, Deployment
<1>3. ASSUME NEW u \in Users, InvalidateAll(u) \/ PasswordSaved(u)
      PROVE  /\ TypeOK' /\ Progress /\ Invalidating
             /\ UNCHANGED <<payload, pc, call, bornAfter, uses>>
  <2>1. /\ Draw(u)
        /\ UNCHANGED <<deployment, payload, entry, pc, call, now, bornAfter, uses>>
        /\ \/ /\ invalidations' = [invalidations EXCEPT ![u] = invalidations[u] + 1]
              /\ save' \in {save, [save EXCEPT ![u] = "none"]}
           \/ /\ invalidations' = invalidations /\ save[u] = "atomic"
              /\ save' = [save EXCEPT ![u] = "uncommitted"]
    BY <1>1, <1>3 DEF InvalidateAll, PasswordSaved, Completed, TypeOK
  <2>2. /\ generation' \in [Users -> 1..MaxDraws \cup {None}]
        /\ drawn' = drawn + 1 /\ drawn' \in 0..MaxDraws
        /\ generation'[u] = drawn + 1
        /\ \A v \in Users \ {u} : generation'[v] = generation[v]
    BY <1>1, <2>1, DrawFacts
  <2>3. TypeOK'
    <3>1. /\ save' \in [Users -> {"none", "autocommit", "atomic", "uncommitted"}]
          /\ invalidations' \in [Users -> Nat]
      <4> DEFINE S == {"none", "autocommit", "atomic", "uncommitted"}
      <4>1. save \in [Users -> S] /\ invalidations \in [Users -> Nat]  BY <1>1 DEF TypeOK
      <4>2. [save EXCEPT ![u] = "none"] \in [Users -> S]  BY <4>1
      <4>3. [save EXCEPT ![u] = "uncommitted"] \in [Users -> S]  BY <4>1
      <4>4. [invalidations EXCEPT ![u] = invalidations[u] + 1] \in [Users -> Nat]
        BY <4>1
      <4> QED  BY <2>1, <4>1, <4>2, <4>3, <4>4
    <3> QED  BY <1>1, <2>1, <2>2, <3>1 DEF TypeOK
  <2>4. Progress  BY <1>1, <1>2, <2>1, <2>2 DEF TypeOK, Progress
  <2>5. Invalidating  BY <1>1, <1>2, <2>1, <2>2 DEF TypeOK, Invalidating
  <2> QED  BY <2>1, <2>3, <2>4, <2>5
<1>4. ASSUME NEW u \in Users, SavePassword(u) \/ Commit(u) \/ Rollback(u)
      PROVE  /\ TypeOK' /\ Progress /\ Invalidating
             /\ UNCHANGED <<payload, pc, call, bornAfter, uses>>
  <2>1. /\ UNCHANGED <<deployment, generation, drawn, payload, entry, pc, call, now,
                       bornAfter, uses>>
        /\ \/ /\ save' = [save EXCEPT ![u] = deployment.save] /\ invalidations' = invalidations
           \/ /\ save' = [save EXCEPT ![u] = "none"] /\ save[u] = "uncommitted"
              /\ invalidations' \in {invalidations,
                     [invalidations EXCEPT ![u] = invalidations[u] + 1]}
    BY <1>4 DEF SavePassword, Commit, Rollback, Completed, cache, history
  <2>2. TypeOK'
    <3>1. /\ save' \in [Users -> {"none", "autocommit", "atomic", "uncommitted"}]
          /\ invalidations' \in [Users -> Nat]
      BY <1>1, <1>2, <2>1 DEF TypeOK
    <3> QED  BY <1>1, <2>1, <3>1 DEF TypeOK
  <2>3. Progress  BY <1>1, <1>2, <2>1 DEF TypeOK, Progress
  <2>4. Invalidating  BY <1>1, <2>1 DEF TypeOK, Invalidating
  <2> QED  BY <2>1, <2>2, <2>3, <2>4
<1>5. ASSUME NEW u \in Users, EvictGeneration(u)
      PROVE  /\ TypeOK' /\ Progress /\ Invalidating
             /\ UNCHANGED <<payload, pc, call, bornAfter, uses>>
  BY <1>1, <1>2, <1>5 DEF EvictGeneration, history, TypeOK, Progress, Invalidating
<1>6. ASSUME NEW k \in Entries, NEW t \in Tokens, Evict(k, t)
      PROVE  /\ TypeOK' /\ Progress /\ Invalidating
             /\ UNCHANGED <<payload, pc, call, bornAfter, uses>>
  BY <1>1, <1>2, <1>6 DEF Evict, Remove, history, TypeOK, Progress, Invalidating
<1>7. CASE Tick
  BY <1>1, <1>2, <1>7 DEF Tick, cache, history, TypeOK, Progress, Invalidating
<1> QED
  BY <1>3, <1>4, <1>5, <1>6, <1>7, ConfigAssumption DEF EnvironmentStep

(***************************************************************************)
(* What stays true whatever the others do.                                 *)
(***************************************************************************)
\* Inv, its constants and the step as types for the arithmetic below.
LEMMA Ranges ==
    ASSUME TypeOK
    PROVE  /\ drawn \in Nat /\ now \in Nat /\ TTL \in Nat \ {0} /\ Patience \in Nat
           /\ \A u \in Users : generation[u] \in Nat \cup {None} /\ invalidations[u] \in Nat
           /\ \A t \in Tokens :
                  /\ payload[t] # None =>
                        /\ payload[t].user \in Users /\ payload[t].generation \in Nat
                        /\ payload[t].expires \in Nat
                  /\ bornAfter[t] \in Nat /\ uses[t] \in Nat
                  /\ \A k \in Entries : entry[k][t] \in Nat \cup {None}
           /\ \A w \in Workers :
                  /\ call[w].token \in Tokens \cup {None} /\ call[w].at \in Nat
                  /\ call[w].since \in Nat /\ call[w].generation \in Nat \cup {None}
                  /\ call[w].user \in Users \cup {None}
<1>1. TTL \in Nat \ {0} /\ Patience \in Nat /\ MaxDraws \in Nat  BY ConfigAssumption
<1>2. \A w \in Workers : call[w] \in Call  BY DEF TypeOK
<1>3. \A t \in Tokens : payload[t] # None => payload[t] \in Payload  BY DEF TypeOK
<1>4. \A w \in Workers :
          /\ call[w].token \in Tokens \cup {None} /\ call[w].at \in Nat
          /\ call[w].since \in Nat /\ call[w].generation \in Nat \cup {None}
          /\ call[w].user \in Users \cup {None}
  BY <1>2 DEF Call
<1>5. \A t \in Tokens : payload[t] # None =>
          /\ payload[t].user \in Users /\ payload[t].generation \in Nat
          /\ payload[t].expires \in Nat
  BY <1>3 DEF Payload
<1> QED  BY <1>1, <1>4, <1>5 DEF TypeOK

\* A number drawn in this step is no one's generation yet.
LEMMA StaysOld ==
    ASSUME Inv, TypeOK', Progress, NEW t \in Tokens, payload[t] # None
    PROVE  /\ payload'[t] = payload[t] /\ bornAfter'[t] = bornAfter[t]
           /\ LET u == payload[t].user
              IN  /\ generation[u] # payload[t].generation =>
                         generation'[u] # payload[t].generation
                  /\ (generation[u] = None \/ payload[t].generation < generation[u]) =>
                         (generation'[u] = None \/ payload[t].generation < generation'[u])
                  /\ drawn < generation'[u] =>
                         (generation'[u] = None \/ payload[t].generation < generation'[u])
           /\ Dead(t) => Dead(t)'
<1> DEFINE u == payload[t].user
<1>1. TypeOK /\ Numbers  BY DEF Inv
<1>2. u \in Users /\ payload[t].generation \in Nat /\ payload[t].expires \in Nat
  BY <1>1, Ranges
<1>3. /\ payload[t].generation <= drawn /\ drawn \in Nat /\ drawn' \in Nat
      /\ now \in Nat /\ now' \in Nat /\ now <= now'
      /\ generation[u] \in Nat \cup {None} /\ generation'[u] \in Nat \cup {None}
  BY <1>1, <1>2, Ranges, ConfigAssumption DEF Numbers, Progress, TypeOK
<1>4. payload'[t] = payload[t] /\ bornAfter'[t] = bornAfter[t]  BY DEF Progress
<1>5. \/ generation'[u] \in {generation[u], None}
      \/ drawn < generation'[u] /\ generation'[u] <= drawn'
  BY <1>2 DEF Progress
<1>6. None \notin Nat  BY NoneFacts
<1>7. /\ generation[u] # payload[t].generation => generation'[u] # payload[t].generation
      /\ (generation[u] = None \/ payload[t].generation < generation[u]) =>
             (generation'[u] = None \/ payload[t].generation < generation'[u])
      /\ drawn < generation'[u] =>
             (generation'[u] = None \/ payload[t].generation < generation'[u])
  BY <1>2, <1>3, <1>5, <1>6
<1>8. Dead(t) => Dead(t)'  BY <1>2, <1>3, <1>4, <1>7 DEF Dead
<1> QED  BY <1>4, <1>7, <1>8

\* Invalidations come with new generations, where they are final.
Renewed(u) ==
    deployment.save = "autocommit" =>
        invalidations'[u] = invalidations[u] \/ drawn < generation'[u]

Renewing(t) == Renewed(payload[t].user)

\* What is known of a worker that does not move survives the step of another.
LEMMA WorkerStays ==
    ASSUME Inv, TypeOK', Progress, NEW v \in Workers, pc'[v] = pc[v], call'[v] = call[v],
           pc[v] = "idle" \/ now' <= call[v].at + Patience,
           \A u \in Users : Renewed(u)
    PROVE  WorkerInv(v)'
<1> DEFINE t == call[v].token
           u == call[v].user
<1>1. TypeOK /\ WorkerInv(v) /\ deployment' = deployment  BY DEF Inv, Progress
<1>2. t \in Tokens \cup {None}  BY <1>1, Ranges
<1>3. CASE pc[v] = "idle"
  <2>1. call[v] = NoCall /\ t = None  BY <1>1, <1>3, NoneFacts DEF WorkerInv
  <2> QED  BY <1>3, <2>1 DEF WorkerInv
<1>4. CASE pc[v] # "idle"
  <2>1. u \in Users /\ call[v].since <= invalidations[u] /\ call[v].at <= now
    BY <1>1, <1>4 DEF WorkerInv
  <2>2. call[v].since <= invalidations'[u] /\ call[v].at <= now'
    <3>1. /\ invalidations[u] <= invalidations'[u] /\ now <= now'
          /\ invalidations[u] \in Nat /\ now \in Nat
          /\ call[v].since \in Nat /\ call[v].at \in Nat
      BY <1>1, <2>1, Ranges DEF Progress
    <3>2. invalidations'[u] \in Nat /\ now' \in Nat  BY <2>1 DEF TypeOK
    <3> QED  BY <2>1, <3>1, <3>2
  <2>5. pc[v] = "store" =>
            ((deployment'.save = "autocommit" /\ call[v].since < invalidations'[u]) =>
                 generation'[u] = None \/ call[v].generation < generation'[u])
    <3> SUFFICES ASSUME pc[v] = "store", deployment.save = "autocommit",
                        call[v].since < invalidations'[u]
                 PROVE  generation'[u] = None \/ call[v].generation < generation'[u]
      BY <1>1
    <3>1. call[v].generation \in Nat /\ call[v].generation <= drawn
      BY <1>1, Ranges DEF WorkerInv, Inv, Numbers
    <3>2. /\ drawn \in Nat /\ drawn' \in Nat /\ generation[u] \in Nat \cup {None}
          /\ generation'[u] \in Nat \cup {None}
      BY <1>1, <2>1, Ranges, ConfigAssumption DEF TypeOK
    <3>3. \/ generation'[u] \in {generation[u], None}
          \/ drawn < generation'[u]
      BY <2>1 DEF Progress
    <3>4. CASE drawn < generation'[u]  BY <3>1, <3>2, <3>4, NoneFacts
    <3>5. CASE invalidations'[u] = invalidations[u]
      BY <1>1, <3>1, <3>2, <3>3, <3>4, <3>5 DEF WorkerInv
    <3> QED  BY <2>1, <3>4, <3>5 DEF Renewed
  <2>3. CASE t = None
    BY <1>1, <1>4, <2>1, <2>2, <2>3, <2>5 DEF WorkerInv, Single
  <2>4. CASE t # None
    <3>1. t \in Tokens /\ payload[t] # None /\ payload[t].user = u
      BY <1>1, <1>2, <2>4 DEF WorkerInv
    <3>2. /\ payload'[t] = payload[t] /\ bornAfter'[t] = bornAfter[t]
          /\ generation[u] # payload[t].generation => generation'[u] # payload[t].generation
      BY <3>1, StaysOld
    <3> QED  BY <1>1, <1>4, <2>1, <2>2, <2>4, <2>5, <3>1, <3>2 DEF WorkerInv, Single
  <2> QED  BY <2>3, <2>4
<1> QED  BY <1>3, <1>4

\* A token of an older generation stays outdated.
LEMMA OutdatedStays ==
    ASSUME Inv, TypeOK', Progress, NEW t \in Tokens, payload[t] # None, Renewing(t)
    PROVE  Outdated(t)'
<1> DEFINE u == payload[t].user
<1>1. /\ payload'[t] = payload[t] /\ bornAfter'[t] = bornAfter[t]
      /\ (generation[u] = None \/ payload[t].generation < generation[u]) =>
             (generation'[u] = None \/ payload[t].generation < generation'[u])
      /\ drawn < generation'[u] =>
             (generation'[u] = None \/ payload[t].generation < generation'[u])
  BY StaysOld
<1>2. Outdated(t) /\ deployment' = deployment  BY DEF Inv, TokenInv, Progress
<1> QED  BY <1>1, <1>2 DEF Outdated, Renewing, Renewed

\* What is known of a token survives a step that does not touch it.
LEMMA TokenStays ==
    ASSUME Inv, TypeOK', Progress, NEW t \in Tokens, Renewing(t),
           payload'[t] = payload[t], uses'[t] = uses[t],
           \A k \in Entries : entry'[k][t] = entry[k][t],
           \A v \in Workers : (pc[v] = "pop" /\ call[v].token = t) =>
               ~Held("token", t) \/ (pc'[v] = "pop" /\ call'[v].token = t),
           Single => \A v \in Workers : Owns(v, t) => Owns(v, t)' \/ Dead(t)'
    PROVE  TokenInv(t)'
<1>1. CASE payload[t] = None
  BY <1>1 DEF Inv, TokenInv
<1>2. CASE payload[t] # None
  <2>1. /\ Lasting(t) /\ Spent(t) /\ Claimed(t) /\ Kept(t)
        /\ deployment' = deployment /\ now <= now'
    BY <1>2 DEF Inv, TokenInv, Progress
  <2>2. /\ now \in Nat /\ now' \in Nat /\ payload[t].expires \in Nat
        /\ \A k \in Entries : entry[k][t] \in Nat \cup {None}
    BY <1>2, Ranges DEF Inv, TypeOK
  <2>3. /\ "token" \in Entries /\ "mark" \in Entries /\ "claim" \in Entries  BY DEF Entries
  <2>4. Lasting(t)' /\ Spent(t)'  BY <2>1, <2>3 DEF Lasting, Spent, Single
  <2>5. Outdated(t)'  BY <1>2, OutdatedStays
  <2>6. Claimed(t)'
    <3>1. /\ Held("claim", t)' => Held("claim", t)
          /\ Held("token", t)' => Held("token", t)
      BY <2>1, <2>2, <2>3, NoneFacts DEF Held
    <3> QED  BY <2>1, <3>1 DEF Claimed
  <2>7. Kept(t)'
    <3>1. Dead(t) => Dead(t)'  BY <1>2, StaysOld
    <3>2. Held("token", t) => Held("token", t)' \/ Dead(t)'
      BY <2>1, <2>2, <2>3, NoneFacts DEF Held, Dead, Lasting
    <3> QED  BY <2>1, <3>1, <3>2 DEF Kept, Single
  <2> QED  BY <1>2, <2>4, <2>5, <2>6, <2>7 DEF TokenInv
<1> QED  BY <1>1, <1>2

\* A token stays with the one call that took it.
LEMMA OwnersStay ==
    ASSUME Inv, Progress,
           Single => \A v \in Workers, t \in Tokens : Owns(v, t)' =>
               Owns(v, t) /\ entry'["token"][t] = entry["token"][t] /\ uses'[t] = uses[t]
    PROVE  Owners'
BY DEF Inv, Owners, Progress, Single

\* Every generation in the system was drawn, every expiry is at most one TTL away.
LEMMA NumbersStay ==
    ASSUME Inv, TypeOK', Progress,
           \A v \in Workers : call'[v].generation # None =>
               call'[v].generation = call[v].generation \/ call'[v].generation <= drawn',
           \A t \in Tokens : payload'[t] # None => payload'[t] = payload[t]
               \/ (payload'[t].generation <= drawn' /\ payload'[t].expires <= now' + TTL),
           deployment.save = "autocommit" =>
               \A u \in Users : save'[u] \in {"none", "autocommit"}
    PROVE  Numbers'
<1>1. TypeOK /\ Numbers /\ deployment' = deployment /\ drawn <= drawn' /\ now <= now'
  BY DEF Inv, Progress
<1>2. /\ drawn \in Nat /\ drawn' \in Nat /\ now \in Nat /\ now' \in Nat /\ TTL \in Nat
  BY <1>1, ConfigAssumption, Ranges DEF TypeOK
<1>3. \A u \in Users : generation'[u] # None => generation'[u] <= drawn'
  <2> TAKE u \in Users
  <2>1. generation[u] \in Nat \cup {None}  BY <1>1, Ranges
  <2> QED  BY <1>1, <1>2, <2>1 DEF Numbers, Progress
<1>4. \A v \in Workers : call'[v].generation # None => call'[v].generation <= drawn'
  <2> TAKE v \in Workers
  <2>1. call[v].generation \in Nat \cup {None}  BY <1>1, Ranges
  <2> QED  BY <1>1, <1>2, <2>1 DEF Numbers
<1>5. \A t \in Tokens : payload'[t] # None =>
          payload'[t].generation <= drawn' /\ payload'[t].expires <= now' + TTL
  <2> TAKE t \in Tokens
  <2>1. payload[t] # None => payload[t].generation \in Nat /\ payload[t].expires \in Nat
    BY <1>1, Ranges
  <2> QED  BY <1>1, <1>2, <2>1 DEF Numbers
<1> QED  BY <1>1, <1>3, <1>4, <1>5 DEF Numbers

(***************************************************************************)
(* Every step keeps the invariant.                                         *)
(***************************************************************************)
LEMMA InitInv == Init => Inv
<1> SUFFICES ASSUME Init PROVE Inv  OBVIOUS
<1>1. TypeOK
  BY ConfigAssumption, NoneFacts DEF Init, TypeOK, Points, Entries
<1>2. Numbers /\ Owners  BY NoneFacts DEF Init, Numbers, Owners, Owns
<1>3. \A w \in Workers : WorkerInv(w)  BY NoneFacts DEF Init, WorkerInv
<1>4. \A t \in Tokens : TokenInv(t)  BY DEF Init, TokenInv
<1> QED  BY <1>1, <1>2, <1>3, <1>4 DEF Inv

\* The host's saves, evictions and the clock keep the invariant.
LEMMA EnvironmentKeeps ==
    ASSUME Inv, EnvironmentStep
    PROVE  Inv'
<1>1. /\ TypeOK' /\ Progress /\ Invalidating /\ TypeOK /\ Numbers
      /\ UNCHANGED <<payload, pc, call, bornAfter, uses>>
  BY EnvironmentTyped DEF Inv
<1>2. \/ now' = now
      \/ /\ now' = now + 1 /\ entry' = entry
         /\ \A w \in Workers : pc[w] # "idle" => now < call[w].at + Patience
  <2>1. CASE Tick  BY <2>1 DEF Tick, cache
  <2>2. CASE \E k \in Entries, t \in Tokens : Evict(k, t)
    BY <2>2 DEF Evict, history
  <2>3. CASE \E u \in Issuers :
                 \/ InvalidateAll(u) \/ SavePassword(u) \/ PasswordSaved(u)
                 \/ Commit(u) \/ Rollback(u) \/ EvictGeneration(u)
    BY <2>3 DEF InvalidateAll, SavePassword, PasswordSaved, Commit, Rollback,
                EvictGeneration
  <2> QED  BY <2>1, <2>2, <2>3 DEF EnvironmentStep
<1>3. \/ entry' = entry
      \/ \E k \in deployment.drops \cap Entries, s \in Tokens :
             entry' = [entry EXCEPT ![k][s] = None] /\ UNCHANGED <<generation, now>>
  <2>1. CASE Tick  BY <2>1 DEF Tick, cache
  <2>2. CASE \E k \in Entries, t \in Tokens : Evict(k, t)
    BY <2>2 DEF Evict, Remove, history
  <2>3. CASE \E u \in Issuers :
                 \/ InvalidateAll(u) \/ SavePassword(u) \/ PasswordSaved(u)
                 \/ Commit(u) \/ Rollback(u) \/ EvictGeneration(u)
    BY <2>3 DEF InvalidateAll, SavePassword, PasswordSaved, Commit, Rollback,
                EvictGeneration, cache
  <2> QED  BY <2>1, <2>2, <2>3 DEF EnvironmentStep
<1>4. \A w \in Workers : WorkerInv(w)'
  <2> TAKE w \in Workers
  <2>1. pc[w] = "idle" \/ now' <= call[w].at + Patience
    <3>1. /\ call[w].at \in Nat /\ Patience \in Nat /\ now \in Nat  BY <1>1, Ranges
    <3>2. pc[w] # "idle" => now <= call[w].at + Patience  BY DEF Inv, WorkerInv
    <3> QED  BY <1>2, <3>1, <3>2
  <2>2. \A u \in Users : Renewed(u)
    BY <1>1 DEF Renewed, Invalidating, Numbers
  <2> QED  BY <1>1, <2>1, <2>2, WorkerStays
<1>5. Owners'
  <2>1. \A t \in Tokens : entry["token"][t] = None => entry'["token"][t] = None
    BY <1>1, <1>3 DEF TypeOK, Entries
  <2> QED  BY <1>1, <2>1 DEF Inv, Owners, Owns, Progress, Single
<1>6. Numbers'
  <2>1. deployment.save = "autocommit" =>
            \A u \in Users : save'[u] \in {"none", "autocommit"}
    BY <1>1 DEF Invalidating, Numbers
  <2>2. \A v \in Workers : call'[v].generation # None =>
            call'[v].generation = call[v].generation \/ call'[v].generation <= drawn'
    BY <1>1
  <2>3. \A t \in Tokens : payload'[t] # None => payload'[t] = payload[t]
            \/ (payload'[t].generation <= drawn' /\ payload'[t].expires <= now' + TTL)
    BY <1>1
  <2>4. TypeOK' /\ Progress  BY <1>1
  <2> QED  BY <2>1, <2>2, <2>3, <2>4, NumbersStay
<1>7. \A t \in Tokens : TokenInv(t)'
  <2> TAKE t \in Tokens
  <2>1. payload[t] # None => Renewing(t)
    <3>1. payload[t] # None => payload[t].user \in Users  BY <1>1, Ranges
    <3> QED  BY <1>1, <3>1 DEF Renewing, Renewed, Invalidating, Numbers
  <2>2. CASE payload[t] = None  BY <1>1, <2>2 DEF Inv, TokenInv
  <2>3. CASE payload[t] # None /\ \A k \in Entries : entry'[k][t] = entry[k][t]
    BY <1>1, <2>1, <2>3, TokenStays DEF Owns
  <2>4. CASE payload[t] # None /\ \E k \in deployment.drops \cap Entries :
                 entry' = [entry EXCEPT ![k][t] = None] /\ UNCHANGED <<generation, now>>
    <3>1. PICK k \in deployment.drops \cap Entries :
              entry' = [entry EXCEPT ![k][t] = None] /\ UNCHANGED <<generation, now>>
      BY <2>4
    <3>2. /\ \A j \in Entries : entry'[j][t] = IF j = k THEN None ELSE entry[j][t]
          /\ deployment' = deployment
          /\ "token" \in Entries /\ "mark" \in Entries /\ "claim" \in Entries
      BY <1>1, <3>1 DEF TypeOK, Entries, Progress
    <3>3. Lasting(t) /\ Spent(t) /\ Claimed(t) /\ Kept(t)
      BY <2>4 DEF Inv, TokenInv
    <3>4. Lasting(t)'  BY <1>1, <3>2, <3>3 DEF Lasting
    <3>5. Spent(t)'  BY <1>1, <3>1, <3>2, <3>3 DEF Spent, Single
    <3>6. Outdated(t)'  BY <1>1, <2>1, <2>4, OutdatedStays
    <3>7. Claimed(t)'  BY <1>1, <3>1, <3>2, <3>3 DEF Claimed, Held
    <3>8. Kept(t)'  BY <1>1, <3>1, <3>2, <3>3 DEF Kept, Held, Dead, Owns, Single
    <3> QED  BY <1>1, <2>4, <3>4, <3>5, <3>6, <3>7, <3>8 DEF TokenInv
  <2>5. \/ \A k \in Entries : entry'[k][t] = entry[k][t]
        \/ \E k \in deployment.drops \cap Entries :
               entry' = [entry EXCEPT ![k][t] = None] /\ UNCHANGED <<generation, now>>
    BY <1>1, <1>3 DEF TypeOK
  <2> QED  BY <2>2, <2>3, <2>4, <2>5
<1> QED  BY <1>1, <1>4, <1>5, <1>6, <1>7 DEF Inv

\* A call's step moves neither the clock nor the invalidations.
LEMMA ServiceFrame ==
    ASSUME NEW w \in Workers, ServiceStep(w)
    PROVE  UNCHANGED <<now, save, invalidations>>
<1>1. CASE \E u \in Issuers : BeginIssue(w, u)
  BY <1>1 DEF BeginIssue, history
<1>2. CASE \E u \in Users, t \in Tokens, fresh \in BOOLEAN : BeginConsume(w, u, t, fresh)
  BY <1>2 DEF BeginConsume, history
<1>3. CASE \E t \in Tokens : StoreToken(w, t)
  BY <1>3 DEF StoreToken
<1>4. CASE Pop(w) \/ Claim(w) \/ Validate(w) \/ Mark(w)
  BY <1>4 DEF Pop, Claim, Validate, Mark, history
<1>5. CASE GetGeneration(w) \/ AddGeneration(w) \/ RereadGeneration(w)
  BY <1>5 DEF GetGeneration, AddGeneration, RereadGeneration
<1> QED  BY <1>1, <1>2, <1>3, <1>4, <1>5 DEF ServiceStep

\* It is enough to look at the worker itself, the owners and the tokens.
LEMMA ServiceKeeps ==
    ASSUME Inv, NEW w \in Workers, ServiceStep(w),
           WorkerInv(w)', Owners', \A t \in Tokens : TokenInv(t)',
           call'[w].generation # None =>
               call'[w].generation = call[w].generation \/ call'[w].generation <= drawn',
           \A t \in Tokens : payload'[t] # None => payload'[t] = payload[t]
               \/ (payload'[t].generation <= drawn' /\ payload'[t].expires <= now' + TTL)
    PROVE  Inv'
<1>1. /\ TypeOK' /\ Progress /\ Apart(w) /\ UNCHANGED <<now, save, invalidations>>
      /\ TypeOK /\ Numbers
  BY ServiceTyped, ServiceFrame DEF Inv
<1>2. ASSUME NEW v \in Workers  PROVE WorkerInv(v)'
  <2>1. CASE v = w  BY <2>1
  <2>2. CASE v # w
    <3>1. pc[v] # "idle" => now <= call[v].at + Patience  BY DEF Inv, WorkerInv
    <3>2. \A u \in Users : Renewed(u)  BY <1>1 DEF Renewed
    <3> QED  BY <1>1, <2>2, <3>1, <3>2, WorkerStays DEF Apart
  <2> QED  BY <2>1, <2>2
<1>3. Numbers'
  <2>1. \A v \in Workers : call'[v].generation # None =>
            call'[v].generation = call[v].generation \/ call'[v].generation <= drawn'
    BY <1>1 DEF Apart
  <2>2. deployment.save = "autocommit" =>
            \A u \in Users : save'[u] \in {"none", "autocommit"}
    BY <1>1 DEF Numbers
  <2> QED  BY <1>1, <2>1, <2>2, NumbersStay
<1> QED  BY <1>1, <1>2, <1>3 DEF Inv

\* A call's first step keeps the invariant.
LEMMA BeginKeeps ==
    ASSUME Inv, NEW w \in Workers,
           \/ \E u \in Issuers : BeginIssue(w, u)
           \/ \E u \in Users, t \in Tokens, fresh \in BOOLEAN :
                  BeginConsume(w, u, t, fresh)
    PROVE  Inv'
<1>1. ServiceStep(w)  BY DEF ServiceStep
<1>2. /\ TypeOK' /\ Progress /\ Apart(w) /\ UNCHANGED <<now, save, invalidations>>
      /\ TypeOK /\ call[w] = NoCall
  BY <1>1, ServiceTyped, ServiceFrame DEF Inv, WorkerInv, BeginIssue, BeginConsume
<1>3. /\ UNCHANGED <<deployment, generation, drawn, payload, entry, bornAfter, uses>>
      /\ pc[w] = "idle" /\ call'[w].generation = None
      /\ \/ pc'[w] = "get_generation" /\ call'[w].token = None
         \/ Single /\ pc'[w] \in {"pop", "claim"}
         \/ ~Single /\ pc'[w] = "validate"
  <2>1. CASE \E u \in Issuers : BeginIssue(w, u)
    <3>1. PICK u \in Issuers : BeginIssue(w, u)  BY <2>1
    <3>2. call' = [call EXCEPT ![w] = [NoCall EXCEPT !.user = u, !.at = now]]
      BY <3>1 DEF BeginIssue
    <3>3. call'[w].generation = None /\ call'[w].token = None
      BY <1>2, <3>2, NoneFacts DEF TypeOK, NoCall
    <3> QED  BY <1>2, <3>1, <3>3 DEF BeginIssue, cache, history, Goto, TypeOK
  <2>2. CASE \E u \in Users, t \in Tokens, fresh \in BOOLEAN :
                 BeginConsume(w, u, t, fresh)
    <3>1. PICK u \in Users, t \in Tokens, fresh \in BOOLEAN : BeginConsume(w, u, t, fresh)
      BY <2>2
    <3>2. call'[w].generation = None
      BY <1>2, <3>1, NoneFacts DEF BeginConsume, TypeOK, NoCall
    <3>3. deployment.mode \in {"single_use", "window"}
      BY <1>2, ConfigAssumption DEF TypeOK, Deployment
    <3> QED
      BY <1>2, <3>1, <3>2, <3>3 DEF BeginConsume, cache, history, Goto, TypeOK, Single
  <2> QED  BY <2>1, <2>2
<1>4. WorkerInv(w)'
  <2>1. now <= now + Patience /\ now \in Nat  BY <1>2, Ranges
  <2>2. CASE \E u \in Issuers : BeginIssue(w, u)
    <3>1. PICK u \in Users : BeginIssue(w, u)  BY <2>2, ConfigAssumption
    <3>2. /\ pc'[w] = "get_generation"
          /\ call'[w].user = u /\ call'[w].token = None
          /\ call'[w].at = now /\ call'[w].since = 0
      BY <1>2, <3>1, NoneFacts DEF BeginIssue, Goto, TypeOK, NoCall
    <3>3. 0 <= invalidations[u]  BY <1>2, Ranges
    <3> QED  BY <1>2, <2>1, <3>2, <3>3 DEF WorkerInv
  <2>3. CASE \E u \in Users, t \in Tokens, fresh \in BOOLEAN :
                 BeginConsume(w, u, t, fresh)
    <3>1. PICK u \in Users, t \in Tokens, fresh \in BOOLEAN : BeginConsume(w, u, t, fresh)
      BY <2>3
    <3>2. /\ pc'[w] \in {"validate", "pop", "claim"}
          /\ call'[w].user = u /\ call'[w].token = t
          /\ call'[w].at = now /\ call'[w].since = invalidations[u]
      BY <1>2, <3>1 DEF BeginConsume, Goto, TypeOK, NoCall
    <3>3. t # None /\ payload[t] # None /\ payload[t].user = u
      BY <1>2, <3>1, NoneFacts DEF BeginConsume, OwnToken, Held, TypeOK, Entries
    <3>4. invalidations[u] <= invalidations[u]  BY <1>2, Ranges
    <3>5. pc'[w] \in {"pop", "claim"} => Single'  BY <1>3 DEF Single
    <3> QED  BY <1>2, <1>3, <2>1, <3>2, <3>3, <3>4, <3>5 DEF WorkerInv
  <2> QED  BY <2>2, <2>3
<1>5. Single => \A v \in Workers, t \in Tokens : Owns(v, t)' <=> Owns(v, t)
  BY <1>2, <1>3, NoneFacts DEF Apart, Owns
<1>6. Owners'  BY <1>2, <1>3, <1>5, OwnersStay
<1>7. ASSUME NEW t \in Tokens  PROVE TokenInv(t)'
  <2>1. Renewing(t)  BY <1>2 DEF Renewing, Renewed
  <2>2. \A v \in Workers : (pc[v] = "pop" /\ call[v].token = t) =>
            ~Held("token", t) \/ (pc'[v] = "pop" /\ call'[v].token = t)
    BY <1>2, <1>3 DEF Apart
  <2> QED  BY <1>2, <1>3, <1>5, <2>1, <2>2, TokenStays
<1> QED  BY <1>1, <1>3, <1>4, <1>6, <1>7, ServiceKeeps

\* A worker that returns knows nothing any more.
LEMMA ReturnedInv ==
    ASSUME NEW w \in Workers, pc'[w] = "idle", call'[w] = NoCall
    PROVE  WorkerInv(w)'
BY NoneFacts DEF WorkerInv

\* issue(): storing the payload under the new token.
LEMMA StoreKeeps ==
    ASSUME Inv, NEW w \in Workers, NEW s \in Tokens, StoreToken(w, s)
    PROVE  Inv'
<1>1. ServiceStep(w)  BY DEF ServiceStep
<1>2. /\ TypeOK' /\ Progress /\ Apart(w) /\ UNCHANGED <<now, save, invalidations>>
      /\ TypeOK /\ Numbers /\ WorkerInv(w) /\ deployment' = deployment
  BY <1>1, ServiceTyped, ServiceFrame DEF Inv, Progress
<1> DEFINE p == [user |-> call[w].user, generation |-> call[w].generation,
                 expires |-> call[w].at + TTL]
<1>3. /\ pc[w] = "store" /\ payload[s] = None /\ payload' = [payload EXCEPT ![s] = p]
      /\ entry' = [entry EXCEPT !["token"][s] = now + 2 * TTL]
      /\ bornAfter' = [bornAfter EXCEPT ![s] = call[w].since]
      /\ pc' = [pc EXCEPT ![w] = "idle"] /\ call' = [call EXCEPT ![w] = NoCall]
      /\ UNCHANGED <<generation, drawn, uses>>
  BY DEF StoreToken, Set, Deadline, Return, Goto
<1>4. /\ payload'[s] = p /\ bornAfter'[s] = call[w].since
      /\ entry'["token"][s] = now + 2 * TTL
      /\ entry'["mark"][s] = entry["mark"][s] /\ entry'["claim"][s] = entry["claim"][s]
      /\ pc'[w] = "idle" /\ call'[w] = NoCall
  BY <1>2, <1>3 DEF TypeOK, Entries
<1>5. /\ call[w].at \in Nat /\ now \in Nat /\ TTL \in Nat \ {0} /\ drawn \in Nat
      /\ call[w].generation \in Nat /\ call[w].generation <= drawn
      /\ call[w].at <= now /\ call[w].user \in Users
      /\ invalidations[call[w].user] \in Nat
  <2>1. /\ call[w].generation # None /\ call[w].user \in Users /\ call[w].at <= now
        /\ call[w].token = None
    BY <1>2, <1>3 DEF WorkerInv
  <2> QED  BY <1>2, <2>1, Ranges DEF Numbers
<1>6. entry["mark"][s] = None /\ entry["claim"][s] = None /\ uses[s] = 0
  BY <1>2, <1>3 DEF TypeOK, Entries, Inv, TokenInv
<1>7. WorkerInv(w)'  BY <1>4, ReturnedInv
<1>8. \A v \in Workers, t \in Tokens : Owns(v, t) => t # s
  BY <1>2, <1>3, NoneFacts DEF Inv, WorkerInv, Owns
<1>9. \A v \in Workers, t \in Tokens : Owns(v, t)' <=> Owns(v, t)
  BY <1>2, <1>3, <1>4 DEF Apart, Owns
<1>10. Owners'
  <2>1. \A t \in Tokens : t # s => entry'["token"][t] = entry["token"][t]
    BY <1>2, <1>3 DEF TypeOK, Entries
  <2> QED  BY <1>2, <1>3, <1>8, <1>9, <2>1, OwnersStay
<1>11. TokenInv(s)'
  <2>1. Lasting(s)' /\ Spent(s)' /\ Claimed(s)'
    BY <1>3, <1>4, <1>5, <1>6, NoneFacts DEF Lasting, Spent, Claimed, Held
  <2>2. Outdated(s)'  BY <1>2, <1>3, <1>4, <1>5 DEF Outdated, WorkerInv
  <2>3. now < now + 2 * TTL  BY <1>5
  <2>4. now + 2 * TTL # None  BY <1>5, NoneFacts
  <2>5. Kept(s)'  BY <1>2, <1>4, <2>3, <2>4 DEF Kept, Held
  <2>6. payload'[s] # None
    <3>1. p \in Payload  BY <1>5 DEF Payload
    <3> QED  BY <1>4, <3>1, NoneFacts
  <2> QED  BY <2>1, <2>2, <2>5, <2>6 DEF TokenInv
<1>12. ASSUME NEW t \in Tokens, t # s  PROVE TokenInv(t)'
  <2>1. Renewing(t)  BY <1>2 DEF Renewing, Renewed
  <2>2. \A v \in Workers : (pc[v] = "pop" /\ call[v].token = t) =>
            ~Held("token", t) \/ (pc'[v] = "pop" /\ call'[v].token = t)
    BY <1>2, <1>3 DEF Apart
  <2>3. /\ payload'[t] = payload[t] /\ uses'[t] = uses[t]
        /\ \A k \in Entries : entry'[k][t] = entry[k][t]
    BY <1>2, <1>3, <1>12 DEF TypeOK, Entries
  <2> QED  BY <1>2, <1>9, <2>1, <2>2, <2>3, TokenStays
<1>13. \A t \in Tokens : payload'[t] # None => payload'[t] = payload[t]
           \/ (payload'[t].generation <= drawn' /\ payload'[t].expires <= now' + TTL)
  <2>1. p.generation <= drawn' /\ p.expires <= now' + TTL  BY <1>2, <1>3, <1>5
  <2> HIDE DEF p
  <2> QED  BY <1>2, <1>3, <2>1 DEF TypeOK
<1>14. call'[w].generation = None  BY <1>4, NoneFacts
<1> QED  BY <1>1, <1>7, <1>10, <1>11, <1>12, <1>13, <1>14, ServiceKeeps

\* consume(): the cache add that claims a token; at most one worker wins it.
LEMMA ClaimKeeps ==
    ASSUME Inv, NEW w \in Workers, Claim(w)
    PROVE  Inv'
<1> DEFINE s == call[w].token
<1>1. ServiceStep(w)  BY DEF ServiceStep
<1>2. /\ TypeOK' /\ Progress /\ Apart(w) /\ UNCHANGED <<now, save, invalidations>>
      /\ TypeOK /\ WorkerInv(w) /\ deployment' = deployment
      /\ UNCHANGED <<generation, drawn, payload, bornAfter, uses>>
      /\ pc[w] = "claim" /\ s \in Tokens /\ payload[s] # None
  BY <1>1, ServiceTyped, ServiceFrame DEF Inv, Progress, Claim, history, TypeOK
<1>3. \/ pc'[w] = "idle" /\ call'[w] = NoCall /\ entry' = entry
      \/ /\ pc'[w] = "pop" /\ call'[w] = call[w]
         /\ entry' = [entry EXCEPT !["claim"][s] = now + 2 * TTL]
  BY <1>2 DEF Claim, Return, Goto, Set, Deadline, TypeOK
<1>4. WorkerInv(w)'
  <2>1. CASE pc'[w] = "idle" /\ call'[w] = NoCall  BY <2>1, ReturnedInv
  <2>2. CASE pc'[w] = "pop" /\ call'[w] = call[w]
    BY <1>2, <2>2 DEF WorkerInv, Single
  <2> QED  BY <1>3, <2>1, <2>2
<1>5. \A v \in Workers, t \in Tokens : Owns(v, t)' <=> Owns(v, t)
  BY <1>2, <1>3 DEF Apart, Owns
<1>6. /\ \A k \in Entries, t \in Tokens :
             k # "claim" \/ t # s \/ entry' = entry => entry'[k][t] = entry[k][t]
      /\ "token" \in Entries /\ "mark" \in Entries /\ "claim" \in Entries
  BY <1>2, <1>3 DEF TypeOK, Entries
<1>7. Owners'  BY <1>2, <1>5, <1>6, OwnersStay
<1>8. ASSUME NEW t \in Tokens  PROVE TokenInv(t)'
  <2>1. Renewing(t)  BY <1>2 DEF Renewing, Renewed
  <2>2. \A v \in Workers : (pc[v] = "pop" /\ call[v].token = t) =>
            ~Held("token", t) \/ (pc'[v] = "pop" /\ call'[v].token = t)
    BY <1>2 DEF Apart
  <2>3. CASE t # s \/ entry' = entry
    <3>1. \A k \in Entries : entry'[k][t] = entry[k][t]  BY <1>6, <2>3
    <3> QED  BY <1>2, <1>5, <2>1, <2>2, <3>1, TokenStays
  <2>4. CASE t = s /\ entry' # entry
    <3>1. Lasting(t) /\ Spent(t) /\ Claimed(t) /\ Kept(t)
      BY <1>2, <2>4 DEF Inv, TokenInv
    <3>2. Lasting(t)' /\ Spent(t)'
      BY <1>2, <1>6, <3>1 DEF Lasting, Spent, Single
    <3>3. Outdated(t)'  BY <1>2, <2>1, <2>4, OutdatedStays
    <3>4. Claimed(t)'  BY <1>2, <1>3, <2>4 DEF Claimed
    <3>5. Kept(t)'  BY <1>2, <1>5, <1>6, <3>1 DEF Kept, Held, Dead, Single
    <3> QED  BY <1>2, <2>4, <3>2, <3>3, <3>4, <3>5 DEF TokenInv
  <2> QED  BY <2>3, <2>4
<1>9. call'[w].generation # None => call'[w].generation = call[w].generation
  BY <1>3, NoneFacts
<1> QED  BY <1>1, <1>2, <1>4, <1>7, <1>8, <1>9, ServiceKeeps

\* consume(): reading the payload and deleting it.
LEMMA PopKeeps ==
    ASSUME Inv, NEW w \in Workers, Pop(w)
    PROVE  Inv'
<1> DEFINE s == call[w].token
<1>1. ServiceStep(w)  BY DEF ServiceStep
<1>2. /\ TypeOK' /\ Progress /\ Apart(w) /\ UNCHANGED <<now, save, invalidations>>
      /\ TypeOK /\ WorkerInv(w) /\ deployment' = deployment
      /\ UNCHANGED <<generation, drawn, payload, bornAfter, uses>>
      /\ pc[w] = "pop" /\ s \in Tokens /\ payload[s] # None /\ Single
  BY <1>1, ServiceTyped, ServiceFrame DEF Inv, Progress, Pop, history, TypeOK, WorkerInv
<1>3. \/ ~Held("token", s) /\ pc'[w] = "idle" /\ call'[w] = NoCall /\ entry' = entry
      \/ /\ Held("token", s) /\ pc'[w] = "validate" /\ call'[w] = call[w]
         /\ entry' = [entry EXCEPT !["token"][s] = None]
  BY <1>2 DEF Pop, Return, Goto, Remove, TypeOK
<1>4. WorkerInv(w)'
  <2>1. CASE pc'[w] = "idle" /\ call'[w] = NoCall  BY <2>1, ReturnedInv
  <2>2. CASE pc'[w] = "validate" /\ call'[w] = call[w]
    BY <1>2, <2>2 DEF WorkerInv, Single
  <2> QED  BY <1>3, <2>1, <2>2
<1>5. \A v \in Workers, t \in Tokens : Owns(v, t)' <=>
          Owns(v, t) \/ (v = w /\ t = s /\ Held("token", s))
  BY <1>2, <1>3, NoneFacts DEF Apart, Owns
<1>6. /\ \A k \in Entries, t \in Tokens :
             k # "token" \/ t # s \/ entry' = entry => entry'[k][t] = entry[k][t]
      /\ entry' # entry => entry'["token"][s] = None
      /\ "token" \in Entries /\ "mark" \in Entries /\ "claim" \in Entries
  BY <1>2, <1>3 DEF TypeOK, Entries
<1>7. Owners'
  <2>1. Held("token", s) => uses[s] = 0 /\ \A v \in Workers : ~Owns(v, s)
    <3>1. uses[s] \in Nat /\ Spent(s)  BY <1>2, Ranges DEF Inv, TokenInv
    <3> QED  BY <1>2, <3>1 DEF Held, Spent, Inv, Owners
  <2>2. Held("token", s) => entry'["token"][s] = None  BY <1>2, <1>3 DEF TypeOK, Entries
  <2> QED  BY <1>2, <1>5, <1>6, <2>1, <2>2 DEF Inv, Owners, Single
<1>8. ASSUME NEW t \in Tokens  PROVE TokenInv(t)'
  <2>1. Renewing(t)  BY <1>2 DEF Renewing, Renewed
  <2>2. CASE t # s \/ ~Held("token", s)
    <3>1. \A k \in Entries : entry'[k][t] = entry[k][t]  BY <1>3, <1>6, <2>2
    <3>2. \A v \in Workers : (pc[v] = "pop" /\ call[v].token = t) =>
              ~Held("token", t) \/ (pc'[v] = "pop" /\ call'[v].token = t)
      BY <1>2, <2>2 DEF Apart
    <3> QED  BY <1>2, <1>5, <2>1, <3>1, <3>2, TokenStays
  <2>3. CASE t = s /\ Held("token", s)
    <3>1. Lasting(t) /\ Spent(t)  BY <1>2, <2>3 DEF Inv, TokenInv
    <3>2. entry'["token"][t] = None  BY <1>2, <1>3, <2>3 DEF TypeOK, Entries
    <3>3. Lasting(t)' /\ Spent(t)'
      BY <1>2, <1>6, <3>1, <3>2 DEF Lasting, Spent, Single
    <3>4. Outdated(t)'  BY <1>2, <2>1, <2>3, OutdatedStays
    <3>5. Claimed(t)'  BY <3>2 DEF Claimed, Held
    <3>6. Kept(t)'  BY <1>2, <1>5, <2>3 DEF Kept, Single
    <3> QED  BY <1>2, <2>3, <3>3, <3>4, <3>5, <3>6 DEF TokenInv
  <2> QED  BY <2>2, <2>3
<1>9. call'[w].generation # None => call'[w].generation = call[w].generation
  BY <1>3, NoneFacts
<1> QED  BY <1>1, <1>2, <1>4, <1>7, <1>8, <1>9, ServiceKeeps

\* consume(): comparing the payload with the user, the generation and the clock.
LEMMA ValidateKeeps ==
    ASSUME Inv, NEW w \in Workers, Validate(w)
    PROVE  Inv'
<1> DEFINE s == call[w].token
<1>1. ServiceStep(w)  BY DEF ServiceStep
<1>2. /\ TypeOK' /\ Progress /\ Apart(w) /\ UNCHANGED <<now, save, invalidations>>
      /\ TypeOK /\ WorkerInv(w) /\ deployment' = deployment
      /\ UNCHANGED <<generation, drawn, payload, entry, bornAfter, uses>>
      /\ pc[w] = "validate" /\ s \in Tokens /\ payload[s] # None
  BY <1>1, ServiceTyped, ServiceFrame DEF Inv, Progress, Validate, cache, history, TypeOK
<1>3. \/ /\ ~(now < payload[s].expires) /\ pc'[w] = "idle" /\ call'[w] = NoCall
      \/ /\ now < payload[s].expires /\ pc'[w] = "get_generation" /\ call'[w] = call[w]
  BY <1>2 DEF Validate, Return, Goto, TypeOK
<1>4. /\ now \in Nat /\ call[w].at \in Nat /\ payload[s].expires \in Nat
      /\ call[w].at <= now
  BY <1>2, Ranges DEF WorkerInv
<1>5. WorkerInv(w)'
  <2>1. CASE pc'[w] = "idle" /\ call'[w] = NoCall  BY <2>1, ReturnedInv
  <2>2. CASE /\ now < payload[s].expires
             /\ pc'[w] = "get_generation" /\ call'[w] = call[w]
    <3>1. call[w].at < payload[s].expires  BY <1>4, <2>2
    <3> QED  BY <1>2, <2>2, <3>1 DEF WorkerInv
  <2> QED  BY <1>3, <2>1, <2>2
<1>6. /\ \A v \in Workers, t \in Tokens : Owns(v, t)' => Owns(v, t)
      /\ \A v \in Workers, t \in Tokens : Owns(v, t) => Owns(v, t)' \/ Dead(t)'
  <2>1. \A v \in Workers, t \in Tokens : Owns(v, t)' => Owns(v, t)
    BY <1>2, <1>3, NoneFacts DEF Apart, Owns
  <2>2. pc'[w] = "idle" => payload'[s].expires <= now'  BY <1>2, <1>3, <1>4
  <2>3. ASSUME NEW v \in Workers, NEW t \in Tokens, Owns(v, t)
        PROVE  Owns(v, t)' \/ Dead(t)'
    <3>1. CASE v # w  BY <1>2, <2>3, <3>1 DEF Apart, Owns
    <3>2. CASE v = w /\ pc'[w] = "idle"  BY <2>2, <2>3, <3>2 DEF Owns, Dead
    <3>3. CASE v = w /\ pc'[w] # "idle"  BY <1>3, <2>3, <3>3 DEF Owns
    <3> QED  BY <3>1, <3>2, <3>3
  <2> QED  BY <2>1, <2>3
<1>7. Owners'  BY <1>2, <1>6, OwnersStay
<1>8. ASSUME NEW t \in Tokens  PROVE TokenInv(t)'
  <2>1. Renewing(t)  BY <1>2 DEF Renewing, Renewed
  <2>2. \A v \in Workers : (pc[v] = "pop" /\ call[v].token = t) =>
            ~Held("token", t) \/ (pc'[v] = "pop" /\ call'[v].token = t)
    BY <1>2 DEF Apart
  <2> QED  BY <1>2, <1>6, <2>1, <2>2, TokenStays
<1>9. call'[w].generation # None => call'[w].generation = call[w].generation
  BY <1>3, NoneFacts
<1> QED  BY <1>1, <1>2, <1>5, <1>7, <1>8, <1>9, ServiceKeeps

\* validate(): the mark that makes a window's first use the fresh one.
LEMMA MarkKeeps ==
    ASSUME Inv, NEW w \in Workers, Mark(w)
    PROVE  Inv'
<1> DEFINE s == call[w].token
<1>1. ServiceStep(w)  BY DEF ServiceStep
<1>2. /\ TypeOK' /\ Progress /\ Apart(w) /\ UNCHANGED <<now, save, invalidations>>
      /\ TypeOK /\ Numbers /\ deployment' = deployment
      /\ UNCHANGED <<generation, drawn, payload, bornAfter>>
      /\ pc[w] = "mark" /\ s \in Tokens /\ payload[s] # None /\ ~Single
      /\ pc'[w] = "idle" /\ call'[w] = NoCall
  BY <1>1, ServiceTyped, ServiceFrame
     DEF Inv, Progress, Mark, Return, Goto, TypeOK, WorkerInv
<1>3. /\ \/ Held("mark", s) /\ entry' = entry
         \/ entry' = [entry EXCEPT !["mark"][s] = now + 2 * TTL]
      /\ uses' \in {uses, [uses EXCEPT ![s] = uses[s] + 1]}
  BY DEF Mark, Set, Deadline
<1>4. /\ now \in Nat /\ TTL \in Nat \ {0} /\ payload[s].expires \in Nat
      /\ payload[s].expires <= now + TTL
  BY <1>2, Ranges DEF Numbers
<1>5. WorkerInv(w)'  BY <1>2, ReturnedInv
<1>6. Owners'  BY <1>2 DEF Owners, Single
<1>7. /\ \A k \in Entries, t \in Tokens :
             k # "mark" \/ t # s => entry'[k][t] = entry[k][t]
      /\ \A t \in Tokens \ {s} : uses'[t] = uses[t]
      /\ "token" \in Entries /\ "mark" \in Entries /\ "claim" \in Entries
      /\ uses[s] \in Nat /\ uses'[s] \in {uses[s], uses[s] + 1}
  BY <1>2, <1>3 DEF TypeOK, Entries
<1>8. /\ entry'["mark"][s] # None
      /\ \/ entry'["mark"][s] = entry["mark"][s]
         \/ payload[s].expires + TTL <= entry'["mark"][s]
  <2>1. /\ now + 2 * TTL \in Nat
        /\ payload[s].expires + TTL <= now + 2 * TTL
    BY <1>4
  <2>2. CASE Held("mark", s) /\ entry' = entry  BY <2>2 DEF Held
  <2>3. CASE entry' = [entry EXCEPT !["mark"][s] = now + 2 * TTL]
    BY <1>2, <2>1, <2>3, NoneFacts DEF TypeOK, Entries
  <2> QED  BY <1>3, <2>2, <2>3
<1>9. ASSUME NEW t \in Tokens  PROVE TokenInv(t)'
  <2>1. Renewing(t)  BY <1>2 DEF Renewing, Renewed
  <2>2. \A v \in Workers : (pc[v] = "pop" /\ call[v].token = t) =>
            ~Held("token", t) \/ (pc'[v] = "pop" /\ call'[v].token = t)
    BY <1>2 DEF Apart
  <2>3. CASE t # s
    BY <1>2, <1>7, <2>1, <2>2, <2>3, TokenStays
  <2>4. CASE t = s
    <3>1. Lasting(t) /\ Claimed(t) /\ Kept(t)  BY <1>2, <2>4 DEF Inv, TokenInv
    <3>2. Lasting(t)'  BY <1>2, <1>7, <1>8, <2>4, <3>1 DEF Lasting
    <3>3. Spent(t)'  BY <1>2, <1>8, <2>4 DEF Spent, Single
    <3>4. Outdated(t)'  BY <1>2, <2>1, <2>4, OutdatedStays
    <3>5. Claimed(t)'
      <4>1. /\ Held("claim", t)' <=> Held("claim", t)
            /\ Held("token", t)' <=> Held("token", t)
        BY <1>2, <1>7 DEF Held
      <4> QED  BY <1>2, <2>2, <3>1, <4>1 DEF Claimed
    <3>6. Kept(t)'
      <4>1. Held("token", t)' <=> Held("token", t)  BY <1>2, <1>7 DEF Held
      <4>2. Dead(t)' <=> Dead(t)  BY <1>2 DEF Dead
      <4>3. uses[t] > 0 => uses'[t] > 0  BY <1>7, <2>4
      <4> QED  BY <1>2, <3>1, <4>1, <4>2, <4>3 DEF Kept
    <3> QED  BY <1>2, <2>4, <3>2, <3>3, <3>4, <3>5, <3>6 DEF TokenInv
  <2> QED  BY <2>3, <2>4
<1>10. call'[w].generation = None  BY <1>2, NoneFacts
<1> QED  BY <1>1, <1>2, <1>5, <1>6, <1>9, <1>10, ServiceKeeps

\* The generation a call goes on with is the stored one or one just drawn;
\* the token is accepted only if the stored one was still its own.
LEMMA GenerationOutcome ==
    ASSUME Inv, NEW w \in Workers,
           GetGeneration(w) \/ AddGeneration(w) \/ RereadGeneration(w)
    PROVE  LET s == call[w].token
               u == call[w].user
           IN  \/ /\ pc'[w] \in {"add_generation", "reread_generation"}
                  /\ call'[w] = call[w] /\ uses' = uses /\ generation' = generation
                  /\ \/ generation[u] = None
                     \/ pc[w] = "add_generation"
               \/ /\ s = None /\ pc'[w] = "store" /\ uses' = uses
                  /\ \E g \in Nat : /\ g <= drawn'
                                /\ call'[w] = Told(w, g)
               \/ /\ pc'[w] = "idle" /\ call'[w] = NoCall /\ uses' = uses /\ s \in Tokens
                  /\ generation'[u] # payload[s].generation
               \/ /\ s \in Tokens /\ generation[u] = payload[s].generation
                  /\ generation' = generation /\ pc[w] = "get_generation"
                  /\ \/ ~Single /\ pc'[w] = "mark" /\ call'[w] = call[w] /\ uses' = uses
                     \/ /\ Single /\ pc'[w] = "idle" /\ call'[w] = NoCall
                        /\ uses' = [uses EXCEPT ![s] = uses[s] + 1]
<1> DEFINE s == call[w].token
           u == call[w].user
<1>1. ServiceStep(w)  BY DEF ServiceStep
<1>2. /\ TypeOK' /\ Progress /\ Apart(w) /\ UNCHANGED <<now, save, invalidations>>
      /\ TypeOK /\ Numbers /\ WorkerInv(w) /\ deployment' = deployment
  BY <1>1, ServiceTyped, ServiceFrame DEF Inv, Progress
<1>3. /\ pc[w] \in {"get_generation", "add_generation", "reread_generation"}
      /\ u \in Users /\ UNCHANGED <<payload, entry, bornAfter>>
  BY GenerationAsked
<1>4. /\ s \in Tokens \cup {None} /\ drawn \in Nat
      /\ \A t \in Tokens : s = t => payload[t] # None /\ payload[t].user = u
      /\ s \in Tokens => payload[s].generation \in Nat /\ payload[s].generation <= drawn
      /\ generation[u] \in Nat \cup {None}
      /\ generation[u] # None => generation[u] <= drawn
  BY <1>2, <1>3, Ranges, NoneFacts DEF WorkerInv, Numbers
<1>5. s \in Tokens /\ generation[u] = payload[s].generation /\ pc[w] # "add_generation" =>
          pc[w] = "get_generation"
  BY <1>2, <1>3, NoneFacts DEF WorkerInv
<1>6. CASE /\ generation[u] # None /\ UNCHANGED <<generation, drawn>>
           /\ pc[w] # "add_generation" /\ WithGeneration(w, generation[u])
  <2>1. generation[u] \in Nat  BY <1>4, <1>6
  <2> QED  BY <1>2, <1>3, <1>4, <1>5, <1>6, <2>1, GenerationUsed
<1>7. CASE /\ generation[u] = None /\ drawn' = drawn + 1
           /\ \/ generation' = generation
              \/ generation' = [generation EXCEPT ![u] = drawn + 1]
           /\ WithGeneration(w, drawn + 1)
  <2>1. drawn + 1 \in Nat /\ drawn + 1 <= drawn'  BY <1>4, <1>7
  <2>2. s \in Tokens => payload[s].generation # drawn + 1  BY <1>4
  <2>3. s \in Tokens => generation'[u] # payload[s].generation
    BY <1>2, <1>3, <1>4, <1>7, <2>2, NoneFacts DEF TypeOK
  <2>4. \/ s = None /\ pc'[w] = "store" /\ uses' = uses
              /\ call'[w] = Told(w, drawn + 1)
        \/ s \in Tokens /\ pc'[w] = "idle" /\ call'[w] = NoCall /\ uses' = uses
    BY <1>2, <1>3, <1>4, <1>7, <2>1, <2>2, GenerationUsed
  <2> QED  BY <2>1, <2>3, <2>4
<1>8. CASE /\ UNCHANGED <<generation, drawn, call, uses>>
           /\ \/ /\ pc[w] = "get_generation" /\ generation[u] = None
                 /\ pc' = [pc EXCEPT ![w] = "add_generation"]
              \/ /\ pc[w] = "add_generation" /\ generation[u] # None
                 /\ pc' = [pc EXCEPT ![w] = "reread_generation"]
  BY <1>2, <1>8 DEF TypeOK
<1> QED  BY GenerationAsked, <1>6, <1>7, <1>8

\* Reading, adding and reading again the user's generation.
LEMMA GenerationKeeps ==
    ASSUME Inv, NEW w \in Workers,
           GetGeneration(w) \/ AddGeneration(w) \/ RereadGeneration(w)
    PROVE  Inv'
<1> DEFINE s == call[w].token
           u == call[w].user
<1>1. ServiceStep(w)  BY DEF ServiceStep
<1>2. /\ TypeOK' /\ Progress /\ Apart(w) /\ UNCHANGED <<now, save, invalidations>>
      /\ TypeOK /\ Numbers /\ WorkerInv(w) /\ deployment' = deployment
  BY <1>1, ServiceTyped, ServiceFrame DEF Inv, Progress
<1>3. /\ pc[w] \in {"get_generation", "add_generation", "reread_generation"}
      /\ u \in Users /\ UNCHANGED <<payload, entry, bornAfter>>
  BY GenerationAsked
<1>4. /\ s \in Tokens \cup {None} /\ drawn \in Nat
      /\ \A t \in Tokens : s = t => payload[t] # None /\ payload[t].user = u
      /\ s \in Tokens => payload[s].generation \in Nat /\ payload[s].generation <= drawn
      /\ generation[u] \in Nat \cup {None}
      /\ generation[u] # None => generation[u] <= drawn
  BY <1>2, <1>3, Ranges, NoneFacts DEF WorkerInv, Numbers
\* The four ways the call goes on.
<1>5. \/ /\ pc'[w] \in {"add_generation", "reread_generation"}
         /\ call'[w] = call[w] /\ uses' = uses /\ generation' = generation
         /\ \/ generation[u] = None
            \/ pc[w] = "add_generation"
      \/ /\ s = None /\ pc'[w] = "store" /\ uses' = uses
         /\ \E g \in Nat : /\ g <= drawn'
                                /\ call'[w] = Told(w, g)
      \/ /\ pc'[w] = "idle" /\ call'[w] = NoCall /\ uses' = uses /\ s \in Tokens
         /\ generation'[u] # payload[s].generation
      \/ /\ s \in Tokens /\ generation[u] = payload[s].generation
         /\ generation' = generation /\ pc[w] = "get_generation"
         /\ \/ ~Single /\ pc'[w] = "mark" /\ call'[w] = call[w] /\ uses' = uses
            \/ /\ Single /\ pc'[w] = "idle" /\ call'[w] = NoCall
               /\ uses' = [uses EXCEPT ![s] = uses[s] + 1]
  BY GenerationOutcome
<1> DEFINE Accepting == Single /\ s \in Tokens /\ uses' # uses
<1>6. WorkerInv(w)'
  <2>1. /\ payload' = payload /\ bornAfter' = bornAfter /\ deployment' = deployment
        /\ now' = now /\ invalidations' = invalidations /\ (Single <=> Single')
    BY <1>2, <1>3 DEF Single
  <2>2. CASE /\ pc'[w] \in {"add_generation", "reread_generation"}
             /\ call'[w] = call[w] /\ generation' = generation
             /\ generation[u] = None \/ pc[w] = "add_generation"
    <3>1. s # None => generation[u] # payload[s].generation
      BY <1>2, <1>4, <2>2, NoneFacts DEF WorkerInv
    <3> QED  BY <1>2, <1>3, <2>1, <2>2, <3>1 DEF WorkerInv
  <2>3. CASE /\ s = None /\ pc'[w] = "store"
             /\ \E g \in Nat : call'[w] = Told(w, g)
    <3>1. PICK g \in Nat : call'[w] = Told(w, g)  BY <2>3
    <3>2. call[w] \in Call  BY <1>2 DEF TypeOK
    <3>3. /\ call'[w].generation # None /\ call'[w].token = None
          /\ call'[w].user = u /\ call'[w].at = call[w].at
          /\ call'[w].since = invalidations[u]
      BY <2>3, <3>1, <3>2, NoneFacts DEF Call, Told
    <3>4. ~(invalidations[u] < invalidations[u]) /\ invalidations[u] <= invalidations[u]
      BY <1>2, <1>3, Ranges
    <3> QED  BY <1>2, <1>3, <2>1, <2>3, <3>3, <3>4 DEF WorkerInv
  <2>4. CASE pc'[w] = "idle" /\ call'[w] = NoCall  BY <2>4, ReturnedInv
  <2>5. CASE /\ s \in Tokens /\ generation[u] = payload[s].generation
             /\ generation' = generation /\ pc[w] # "add_generation"
             /\ ~Single /\ pc'[w] = "mark" /\ call'[w] = call[w]
    <3>1. deployment.save = "autocommit" => call[w].since <= bornAfter[s]
      <4>1. Outdated(s)  BY <1>4, <2>5 DEF Inv, TokenInv
      <4>2. /\ call[w].since \in Nat /\ bornAfter[s] \in Nat /\ invalidations[u] \in Nat
            /\ call[w].since <= invalidations[u]
        BY <1>2, <1>3, <2>5, Ranges DEF WorkerInv
      <4> QED  BY <1>4, <2>5, <4>1, <4>2, NoneFacts DEF Outdated
    <3>2. s # None  BY <2>5, NoneFacts
    <3> QED  BY <1>2, <1>3, <2>1, <2>5, <3>1, <3>2 DEF WorkerInv
  <2> QED  BY <1>5, <2>2, <2>3, <2>4, <2>5
<1>7. /\ \A v \in Workers, t \in Tokens : Owns(v, t)' => Owns(v, t)
      /\ uses' = uses \/ Accepting
      /\ uses' # uses => /\ uses' = [uses EXCEPT ![s] = uses[s] + 1]
                         /\ Owns(w, s) /\ pc'[w] = "idle"
  BY <1>2, <1>3, <1>5, NoneFacts DEF Apart, Owns
<1>8. Accepting => /\ entry["token"][s] = None
                   /\ \A v \in Workers : Owns(v, s) => v = w
  BY <1>3 DEF Inv, Owners, Owns
<1>9. Owners'
  <2>1. CASE uses' = uses  BY <1>2, <1>3, <1>7, <2>1, OwnersStay
  <2>2. CASE uses' # uses
    <3>1. \A v \in Workers, t \in Tokens : t = s => ~Owns(v, t)'
      BY <1>7, <1>8, <2>2 DEF Owns
    <3>2. \A t \in Tokens \ {s} : uses'[t] = uses[t]  BY <1>2, <1>7, <2>2 DEF TypeOK
    <3> QED  BY <1>2, <1>3, <1>7, <3>1, <3>2, OwnersStay
  <2> QED  BY <2>1, <2>2
<1>10. ASSUME NEW t \in Tokens  PROVE TokenInv(t)'
  <2>1. Renewing(t)  BY <1>2 DEF Renewing, Renewed
  <2>2. \A v \in Workers : (pc[v] = "pop" /\ call[v].token = t) =>
            ~Held("token", t) \/ (pc'[v] = "pop" /\ call'[v].token = t)
    BY <1>2, <1>3 DEF Apart
  <2>3. CASE uses' = uses \/ t # s
    <3>1. uses'[t] = uses[t]  BY <1>2, <1>7, <2>3 DEF TypeOK
    <3>2. Single => \A v \in Workers : Owns(v, t) => Owns(v, t)' \/ Dead(t)'
      <4> SUFFICES ASSUME Single, NEW v \in Workers, Owns(v, t)
                   PROVE  Owns(v, t)' \/ Dead(t)'
        OBVIOUS
      <4>1. CASE v # w  BY <1>2, <4>1 DEF Apart, Owns
      <4>2. CASE v = w
        <5>1. s = t /\ t # None  BY <4>2, NoneFacts DEF Owns
        <5>2. generation'[u] # payload[t].generation => Dead(t)'
          BY <1>3, <1>4, <5>1 DEF Dead
        <5>3. uses' # [uses EXCEPT ![s] = uses[s] + 1]
          BY <1>2, <3>1, <5>1 DEF TypeOK
        <5>4. \/ pc'[w] \in {"add_generation", "reread_generation"} /\ call'[w] = call[w]
              \/ generation'[u] # payload[s].generation
          BY <1>5, <5>1, <5>3
        <5> QED  BY <4>2, <5>1, <5>2, <5>4 DEF Owns
      <4> QED  BY <4>1, <4>2
    <3> QED  BY <1>2, <1>3, <2>1, <2>2, <3>1, <3>2, TokenStays
  <2>4. CASE uses' # uses /\ t = s
    <3>1. /\ payload[t] # None /\ Lasting(t) /\ Claimed(t)
          /\ uses[t] \in Nat /\ uses'[t] = uses[t] + 1
      BY <1>2, <1>4, <1>7, <2>4 DEF Inv, TokenInv, TypeOK
    <3>2. Lasting(t)'  BY <1>3, <3>1 DEF Lasting
    <3>3. Spent(t)'  BY <1>2, <1>3, <1>7, <1>8, <2>4 DEF Spent, Single
    <3>4. Outdated(t)'  BY <1>2, <2>1, <3>1, OutdatedStays
    <3>5. Claimed(t)'  BY <1>2, <1>3, <2>2, <3>1 DEF Claimed, Held
    <3>6. Kept(t)'
      <4>1. uses'[t] > 0  BY <3>1
      <4> QED  BY <4>1 DEF Kept
    <3> QED  BY <1>3, <3>1, <3>2, <3>3, <3>4, <3>5, <3>6 DEF TokenInv
  <2> QED  BY <2>3, <2>4
<1>11. call'[w].generation # None =>
           call'[w].generation = call[w].generation \/ call'[w].generation <= drawn'
  <2>1. call[w] \in Call  BY <1>2 DEF TypeOK
  <2> QED  BY <1>5, <2>1, NoneFacts DEF Call, Told
<1> QED  BY <1>1, <1>3, <1>6, <1>9, <1>10, <1>11, ServiceKeeps

\* Every step of the service keeps the invariant.
LEMMA ServiceStepKeeps ==
    ASSUME Inv, NEW w \in Workers, ServiceStep(w)
    PROVE  Inv'
BY BeginKeeps, StoreKeeps, ClaimKeeps, PopKeeps, ValidateKeeps, MarkKeeps,
   GenerationKeeps DEF ServiceStep

\* Every step keeps the invariant.
LEMMA StepInv == Inv /\ [Next]_vars => Inv'
<1> SUFFICES ASSUME Inv, [Next]_vars  PROVE Inv'  OBVIOUS
<1>1. CASE Next
  <2>1. CASE \E w \in Workers : ServiceStep(w)  BY <2>1, ServiceStepKeeps
  <2>2. CASE EnvironmentStep  BY <2>2, EnvironmentKeeps
  <2> QED  BY <1>1, <2>1, <2>2 DEF Next, EnvironmentStep
<1>2. CASE UNCHANGED vars
  <2>1. /\ UNCHANGED <<deployment, generation, drawn, payload, entry, pc, call, save, now,
                       invalidations, bornAfter, uses>>
    BY <1>2 DEF vars, cache, history
  <2>2. TypeOK' /\ Numbers'  BY <2>1 DEF Inv, TypeOK, Numbers
  <2>3. Owners'  BY <2>1 DEF Inv, Owners, Owns, Single
  <2>4. \A w \in Workers : WorkerInv(w)'  BY <2>1 DEF Inv, WorkerInv, Single
  <2>5. \A t \in Tokens : TokenInv(t)'
    BY <2>1 DEF Inv, TokenInv, Lasting, Spent, Outdated, Claimed, Kept, Held, Dead, Owns,
                Single
  <2> QED  BY <2>2, <2>3, <2>4, <2>5 DEF Inv
<1> QED  BY <1>1, <1>2

\* The inductive invariant holds in every reachable state.
THEOREM InvHolds == Spec => []Inv
BY InitInv, StepInv, PTL DEF Spec

(***************************************************************************)
(* The theorems.                                                           *)
(***************************************************************************)
THEOREM ReAuthTyped == Spec => []TypeOK
<1>1. Inv => TypeOK  BY DEF Inv
<1> QED  BY InvHolds, <1>1, PTL

\* While the cache keeps its entries, a good token that no call works on can
\* still be consumed, or has been: nothing loses it.
THEOREM TokensAreNotLost == Spec => []TokenIsNeverLost
<1>1. Inv => TokenIsNeverLost
  <2> SUFFICES ASSUME Inv, deployment.drops \cap {"token", "claim"} = {},
                      \A w \in Workers : pc[w] = "idle",
                      NEW t \in Tokens, Good(t)
               PROVE  uses[t] > 0 \/ (Held("token", t) /\ ~Held("claim", t))
    BY DEF TokenIsNeverLost
  <2>1. TypeOK /\ payload[t] # None /\ Claimed(t) /\ Kept(t)
    BY DEF Good, Inv, TokenInv
  <2>2. ~Dead(t)
    <3>1. now \in Nat /\ payload[t].expires \in Nat  BY <2>1, Ranges
    <3> QED  BY <3>1 DEF Good, Dead
  <2>3. "token" \notin deployment.drops  OBVIOUS
  <2>4. \A w \in Workers : ~Owns(w, t)  BY DEF Owns
  <2> QED  BY <2>1, <2>2, <2>3, <2>4 DEF Claimed, Kept
<1> QED  BY InvHolds, <1>1, PTL

\* The two steps that accept a token, and what is known when they do.
LEMMA Acceptance ==
    ASSUME Inv, Next, NEW w \in Workers, NEW t \in Tokens, Accepts(w, t)
    PROVE  /\ payload[t] # None /\ payload[t].user = call[w].user /\ call[w].token = t
           /\ \/ Mark(w)
              \/ /\ Single /\ Owns(w, t) /\ pc[w] = "get_generation"
                 /\ generation[payload[t].user] = payload[t].generation
<1>1. TypeOK /\ t # None /\ call[w].token = t /\ pc'[w] # pc[w] /\ uses' # uses
  BY NoneFacts DEF Inv, Accepts
<1>2. ServiceStep(w)
  <2>1. ~EnvironmentStep  BY <1>1, EnvironmentTyped
  <2>2. PICK v \in Workers : ServiceStep(v)  BY <2>1 DEF Next, EnvironmentStep
  <2>3. v = w  BY <1>1, <2>2, ServiceTyped DEF Apart
  <2> QED  BY <2>2, <2>3
<1>3. payload[t] # None /\ payload[t].user = call[w].user
  BY <1>1 DEF Inv, WorkerInv
<1>4. CASE Mark(w)  BY <1>1, <1>3, <1>4
<1>5. CASE GetGeneration(w) \/ AddGeneration(w) \/ RereadGeneration(w)
  <2>1. /\ pc[w] = "get_generation" /\ generation[call[w].user] = payload[t].generation
        /\ Single
    BY <1>1, <1>5, GenerationOutcome
  <2>2. Owns(w, t)  BY <1>1, <2>1 DEF Owns
  <2> QED  BY <1>1, <1>3, <2>1, <2>2
<1>6. CASE \/ \E u \in Issuers : BeginIssue(w, u)
           \/ \E u \in Users, s \in Tokens, fresh \in BOOLEAN : BeginConsume(w, u, s, fresh)
           \/ \E s \in Tokens : StoreToken(w, s)
           \/ Pop(w) \/ Claim(w) \/ Validate(w)
  BY <1>1, <1>6 DEF BeginIssue, BeginConsume, StoreToken, Pop, Claim, Validate, history
<1> QED  BY <1>2, <1>4, <1>5, <1>6 DEF ServiceStep

\* Where a password save commits before its receivers run, no token outlives
\* an invalidation that was complete when its consumption began.
THEOREM InvalidationsAreFinal == Spec => CommittedInvalidationIsFinal
<1>1. ASSUME Inv, Next, deployment.save = "autocommit",
             NEW w \in Workers, NEW t \in Tokens, Accepts(w, t)
      PROVE  ~(bornAfter[t] < call[w].since)
  <2> DEFINE u == call[w].user
  <2>1. /\ payload[t] # None /\ payload[t].user = u /\ call[w].token = t
        /\ \/ Mark(w)
           \/ Owns(w, t) /\ generation[u] = payload[t].generation
    BY <1>1, Acceptance
  <2>2. /\ TypeOK /\ WorkerInv(w) /\ Outdated(t)  BY <1>1, <2>1 DEF Inv, TokenInv
  <2>3. /\ bornAfter[t] \in Nat /\ call[w].since \in Nat /\ u \in Users
        /\ invalidations[u] \in Nat /\ payload[t].generation \in Nat
    BY <2>1, <2>2, Ranges
  <2>4. CASE Mark(w)
    <3>1. call[w].since <= bornAfter[t]  BY <1>1, <2>1, <2>2, <2>4 DEF Mark, WorkerInv
    <3> QED  BY <2>3, <3>1
  <2>5. CASE Owns(w, t) /\ generation[u] = payload[t].generation
    <3>1. call[w].since <= invalidations[u]  BY <2>2, <2>5 DEF WorkerInv, Owns
    <3>2. ~(bornAfter[t] < invalidations[u])
      BY <1>1, <2>1, <2>2, <2>3, <2>5, NoneFacts DEF Outdated
    <3> QED  BY <2>3, <3>1, <3>2
  <2> QED  BY <2>1, <2>4, <2>5
<1>2. Inv /\ Next =>
          (deployment.save = "autocommit" =>
               \A w \in Workers, t \in Tokens : ~Outlived(w, t))
  BY <1>1 DEF Outlived
<1> QED  BY <1>2, InvHolds, PTL DEF Spec, CommittedInvalidationIsFinal

\* A token is consumed freshly at most once, and in single-use mode consumed
\* at most once: if no request lives longer than the TTL and no window-mode
\* deployment's cache drops use marks.
THEOREM FreshUsesAreFirst ==
    ASSUME Patience <= TTL,
           \A d \in Deployments : d.mode = "window" => "mark" \notin d.drops
    PROVE  Spec => OneFreshUse
<1>1. ASSUME Inv, Next, NEW w \in Workers, NEW t \in Tokens, Accepts(w, t), Elects(w)
      PROVE  uses[t] = 0
  <2>1. /\ payload[t] # None /\ call[w].token = t
        /\ \/ Mark(w)
           \/ Single /\ Owns(w, t)
    BY <1>1, Acceptance
  <2>2. TypeOK /\ WorkerInv(w) /\ Spent(t) /\ Lasting(t)  BY <1>1, <2>1 DEF Inv, TokenInv
  <2>3. CASE Single /\ Owns(w, t)  BY <1>1, <2>3 DEF Inv, Owners
  <2>4. CASE Mark(w)
    <3>1. ~Single /\ call[w].fresh /\ "mark" \notin deployment.drops
      <4>1. ~Single  BY <2>2, <2>4 DEF Mark, WorkerInv
      <4>2. deployment \in Deployments /\ deployment.mode \in {"single_use", "window"}
        BY <2>2, ConfigAssumption DEF TypeOK, Deployment
      <4> QED  BY <1>1, <4>1, <4>2 DEF Single, Elects
    <3>2. ~Held("mark", t)  BY <1>1, <2>1, <2>4, <3>1 DEF Mark, Accepts
    <3>3. /\ now <= call[w].at + Patience /\ call[w].at < payload[t].expires
      BY <2>1, <2>2, <2>4, NoneFacts DEF Mark, WorkerInv
    <3>4. /\ now \in Nat /\ call[w].at \in Nat /\ payload[t].expires \in Nat
          /\ TTL \in Nat /\ Patience \in Nat /\ uses[t] \in Nat
          /\ entry["mark"][t] \in Nat \cup {None}
      BY <2>1, <2>2, Ranges DEF Entries
    <3>5. entry["mark"][t] # None => payload[t].expires + TTL <= entry["mark"][t]
      BY <2>2 DEF Lasting
    <3>6. entry["mark"][t] # None => now < entry["mark"][t]
      BY <3>3, <3>4, <3>5, NoneFacts
    <3>7. entry["mark"][t] = None  BY <3>2, <3>6 DEF Held
    <3> QED  BY <2>2, <3>1, <3>4, <3>7 DEF Spent
  <2> QED  BY <2>1, <2>3, <2>4
<1>2. Inv /\ Next => \A w \in Workers, t \in Tokens :
                         (Accepts(w, t) /\ Elects(w)) => uses[t] = 0
  BY <1>1
<1> QED  BY <1>2, InvHolds, PTL DEF Spec, OneFreshUse

(***************************************************************************)
(* ReAuth keeps the promise of StepUp: every step of a worker or of its    *)
(* environment mints, consumes or loses tokens, or is not seen at all.     *)
(***************************************************************************)
LivingTokens == {t \in Tokens : Alive(t)}

\* A worker is before the last comparison of token t, or past it.
Carries(w, t) == call[w].token = t /\ pc[w] \in {"validate", "get_generation", "mark"}

\* Token t looks the same to everyone who could consume it.
Unseen(t) ==
    /\ payload'[t] = payload[t] /\ entry'["token"][t] = entry["token"][t]
    /\ \A v \in Workers : Carries(v, t)' <=> Carries(v, t)
    /\ \A v \in Workers : Carries(v, t) => pc'[v] = pc[v]

\* What only StoreToken can do: bring a token to life.
LEMMA UnseenStays ==
    ASSUME NEW t \in Tokens, Unseen(t), UNCHANGED <<generation, now>>
    PROVE  Alive(t)' <=> Alive(t)
<1>1. Verified(t)' <=> Verified(t)  BY DEF Verified, Unseen, Carries
<1>2. InFlight(t)' <=> InFlight(t)  BY DEF InFlight, Unseen, Carries
<1>3. Held("token", t)' <=> Held("token", t)  BY DEF Held, Unseen
<1> QED  BY <1>1, <1>2, <1>3 DEF Alive, Unseen

\* A stored token is alive after a step only if it was before: generations
\* do not come back, entries do not return and no call turns back.
LEMMA NothingRevives ==
    ASSUME Inv, TypeOK', Progress, NEW t \in Tokens, payload[t] # None,
           Held("token", t)' => Held("token", t),
           InFlight(t)' => InFlight(t) \/ (Held("token", t) /\ now < payload[t].expires),
           Verified(t)' => Verified(t)
               \/ (payload[t].generation = generation[payload[t].user] /\ InFlight(t))
    PROVE  Alive(t)' => Alive(t)
<1>1. /\ payload'[t] = payload[t]
      /\ generation'[payload[t].user] = payload[t].generation =>
             generation[payload[t].user] = payload[t].generation
  BY StaysOld
<1>2. /\ now \in Nat /\ now' \in Nat /\ now <= now' /\ payload[t].expires \in Nat
  BY Ranges DEF Inv, Progress, TypeOK
<1> QED  BY <1>1, <1>2 DEF Alive

\* The host, the cache and the clock bring no token to life.
LEMMA EnvironmentLoses ==
    ASSUME Inv, EnvironmentStep
    PROVE  LivingTokens' \subseteq LivingTokens
<1>1. /\ TypeOK' /\ Progress /\ TypeOK /\ UNCHANGED <<payload, pc, call>>
  BY EnvironmentTyped DEF Inv
<1> SUFFICES ASSUME NEW t \in Tokens, Alive(t)'  PROVE Alive(t)
  BY DEF LivingTokens
<1>2. CASE payload[t] = None
  <2>1. ~Verified(t)  BY <1>2 DEF Verified, Inv, TypeOK
  <2>2. ~Verified(t)'  BY <1>1, <2>1 DEF Verified
  <2> QED  BY <1>1, <1>2, <2>2 DEF Alive
<1>3. CASE payload[t] # None
  <2>1. /\ now \in Nat /\ now' \in Nat /\ now <= now' /\ payload[t].expires \in Nat
        /\ entry["token"][t] \in Nat \cup {None}
    BY <1>1, <1>3, Ranges DEF Progress, TypeOK, Entries
  <2>2. entry'["token"][t] \in {entry["token"][t], None}
    <3>1. CASE \E k \in Entries, s \in Tokens : Evict(k, s)
      BY <1>1, <3>1 DEF Evict, Remove, TypeOK, Entries
    <3>2. CASE Tick  BY <3>2 DEF Tick, cache
    <3>3. CASE \E u \in Issuers :
                   \/ InvalidateAll(u) \/ SavePassword(u) \/ PasswordSaved(u)
                   \/ Commit(u) \/ Rollback(u) \/ EvictGeneration(u)
      BY <3>3 DEF InvalidateAll, SavePassword, PasswordSaved, Commit, Rollback,
                  EvictGeneration, cache
    <3> QED  BY <3>1, <3>2, <3>3 DEF EnvironmentStep
  <2>3. Held("token", t)' => Held("token", t)  BY <2>1, <2>2, NoneFacts DEF Held
  <2>4. InFlight(t)' => InFlight(t)  BY <1>1, <2>1 DEF InFlight
  <2>5. Verified(t)' => Verified(t)  BY <1>1 DEF Verified
  <2> QED  BY <1>1, <1>3, <2>3, <2>4, <2>5, NothingRevives
<1> QED  BY <1>2, <1>3

\* A step of a call that accepts and stores nothing.
LEMMA CallLoses ==
    ASSUME Inv, NEW w \in Workers, ServiceStep(w), uses' = uses,
           \A t \in Tokens : ~StoreToken(w, t)
    PROVE  UNCHANGED payload /\ LivingTokens' \subseteq LivingTokens
<1>1. /\ TypeOK' /\ Progress /\ Apart(w) /\ UNCHANGED <<now, invalidations>>
      /\ TypeOK /\ WorkerInv(w)
  BY ServiceTyped, ServiceFrame DEF Inv
\* How the worker itself may come to carry a token.
<1>2. /\ payload' = payload
      /\ \A t \in Tokens : entry'["token"][t] \in {entry["token"][t], None}
      /\ (pc'[w] = "validate" /\ call'[w].token \in Tokens) => Held("token", call'[w].token)
      /\ (pc'[w] = "get_generation" /\ call'[w].token \in Tokens) =>
             /\ pc[w] = "validate" /\ call'[w] = call[w]
             /\ now < payload[call[w].token].expires
      /\ (pc'[w] = "mark" /\ call'[w].token \in Tokens) =>
             /\ pc[w] = "get_generation" /\ call'[w] = call[w]
             /\ payload[call[w].token].generation = generation[call[w].user]
  <2>1. CASE \E u \in Issuers : BeginIssue(w, u)
    <3>1. PICK u \in Issuers : BeginIssue(w, u)  BY <2>1
    <3>2. pc'[w] = "get_generation" /\ call'[w].token = None
      BY <1>1, <3>1, NoneFacts DEF BeginIssue, Goto, TypeOK, NoCall
    <3> QED  BY <3>1, <3>2, NoneFacts DEF BeginIssue, cache
  <2>2. CASE \E u \in Users, t \in Tokens, fresh \in BOOLEAN : BeginConsume(w, u, t, fresh)
    <3>1. PICK u \in Users, t \in Tokens, fresh \in BOOLEAN : BeginConsume(w, u, t, fresh)
      BY <2>2
    <3>2. pc'[w] \in {"validate", "pop", "claim"} /\ call'[w].token = t
      BY <1>1, <3>1 DEF BeginConsume, Goto, TypeOK, NoCall
    <3> QED  BY <3>1, <3>2 DEF BeginConsume, OwnToken, cache
  <2>3. CASE Pop(w) \/ Claim(w)
    <3>1. call[w].token \in Tokens  BY <1>1, <2>3 DEF Pop, Claim, TypeOK
    <3>2. /\ payload' = payload /\ pc'[w] \in {"idle", "pop", "validate"}
          /\ pc'[w] = "validate" => Held("token", call[w].token) /\ call' = call
      BY <1>1, <2>3 DEF Pop, Claim, Goto, Return, TypeOK
    <3>3. \A t \in Tokens : entry'["token"][t] \in {entry["token"][t], None}
      BY <1>1, <2>3, <3>1 DEF Pop, Claim, Set, Remove, TypeOK, Entries
    <3> QED  BY <3>2, <3>3
  <2>4. CASE Validate(w)
    BY <1>1, <2>4 DEF Validate, Goto, Return, TypeOK, cache
  <2>5. CASE Mark(w)
    <3>1. call[w].token \in Tokens  BY <1>1, <2>5 DEF Mark, TypeOK
    <3> QED  BY <1>1, <2>5, <3>1 DEF Mark, Set, Goto, Return, TypeOK, Entries
  <2>6. CASE GetGeneration(w) \/ AddGeneration(w) \/ RereadGeneration(w)
    <3>1. payload' = payload /\ entry' = entry  BY <2>6, GenerationAsked
    <3>2. \/ pc'[w] \in {"add_generation", "reread_generation", "store", "idle"}
          \/ /\ pc'[w] = "mark" /\ call'[w] = call[w] /\ pc[w] = "get_generation"
             /\ generation[call[w].user] = payload[call[w].token].generation
      BY <2>6, GenerationOutcome
    <3> QED  BY <3>1, <3>2
  <2> QED  BY <2>1, <2>2, <2>3, <2>4, <2>5, <2>6 DEF ServiceStep
<1>3. ASSUME NEW t \in Tokens, Alive(t)'  PROVE Alive(t)
  <2>1. payload[t] # None
    <3>1. payload'[t] # None
      BY <1>1, <1>3 DEF Alive, Verified, TypeOK
    <3> QED  BY <1>2, <3>1
  <2>2. /\ now \in Nat /\ payload[t].expires \in Nat
        /\ entry["token"][t] \in Nat \cup {None}
    BY <1>1, <2>1, Ranges DEF Entries
  <2>3. Held("token", t)' => Held("token", t)  BY <1>1, <1>2, <2>2, NoneFacts DEF Held
  <2>4. InFlight(t)' => InFlight(t) \/ (Held("token", t) /\ now < payload[t].expires)
    <3> SUFFICES ASSUME NEW v \in Workers, call'[v].token = t,
                        \/ pc'[v] = "validate" /\ now < payload[t].expires
                        \/ pc'[v] = "get_generation"
                 PROVE  InFlight(t) \/ (Held("token", t) /\ now < payload[t].expires)
      BY <1>1, <1>2 DEF InFlight
    <3>1. CASE v # w  BY <1>1, <3>1 DEF Apart, InFlight
    <3>2. CASE v = w  BY <1>2, <3>2 DEF InFlight
    <3> QED  BY <3>1, <3>2
  <2>5. Verified(t)' => Verified(t)
            \/ (payload[t].generation = generation[payload[t].user] /\ InFlight(t))
    <3> SUFFICES ASSUME NEW v \in Workers, call'[v].token = t, pc'[v] = "mark"
                 PROVE  Verified(t)
                     \/ (payload[t].generation = generation[payload[t].user] /\ InFlight(t))
      BY DEF Verified
    <3>1. CASE v # w  BY <1>1, <3>1 DEF Apart, Verified
    <3>2. CASE v = w
      <4>1. t # None  BY NoneFacts
      <4>2. payload[t].user = call[w].user  BY <1>1, <1>2, <3>2, <4>1 DEF WorkerInv
      <4> QED  BY <1>2, <3>2, <4>2 DEF InFlight
    <3> QED  BY <3>1, <3>2
  <2> QED  BY <1>1, <1>3, <2>1, <2>3, <2>4, <2>5, NothingRevives
<1> QED  BY <1>2, <1>3 DEF LivingTokens

\* An accepted token was alive; the others are as before, and in single-use
\* mode it is gone.
LEMMA AcceptanceConsumes ==
    ASSUME Inv, Next, NEW w \in Workers, NEW t \in Tokens, Accepts(w, t)
    PROVE  /\ UNCHANGED <<deployment, payload>> /\ uses' = [uses EXCEPT ![t] = uses[t] + 1]
           /\ t \in LivingTokens
           /\ \/ LivingTokens' = LivingTokens \ {t}
              \/ ~Single /\ LivingTokens' = LivingTokens
<1>1. /\ payload[t] # None /\ payload[t].user = call[w].user /\ call[w].token = t
      /\ TypeOK /\ WorkerInv(w) /\ Inv'
      /\ \/ Mark(w) /\ pc[w] = "mark" /\ ~Single
         \/ /\ pc[w] = "get_generation" /\ Single /\ Owns(w, t)
            /\ generation[payload[t].user] = payload[t].generation
  <2>1. Mark(w) => pc[w] = "mark" /\ ~Single  BY DEF Mark, Inv, WorkerInv
  <2> QED  BY <2>1, Acceptance, StepInv DEF Inv
<1>2. ServiceStep(w)
  <2>1. ~EnvironmentStep  BY EnvironmentTyped DEF Accepts
  <2>2. PICK v \in Workers : ServiceStep(v)  BY <2>1 DEF Next, EnvironmentStep
  <2>3. v = w  BY <2>2, ServiceTyped DEF Apart, Accepts
  <2> QED  BY <2>2, <2>3
<1>3. /\ Apart(w) /\ UNCHANGED <<deployment, now>>
      /\ pc'[w] = "idle" /\ call'[w] = NoCall
      /\ UNCHANGED <<payload, generation>>
      /\ uses' = [uses EXCEPT ![t] = uses[t] + 1]
      /\ \A s \in Tokens : entry'["token"][s] = entry["token"][s]
  <2>1. Apart(w) /\ UNCHANGED <<deployment, now>>
    BY <1>2, ServiceTyped, ServiceFrame DEF Progress
  <2>2. CASE Mark(w)
    <3>1. uses' # uses  BY DEF Accepts
    <3> QED
      BY <1>1, <2>1, <2>2, <3>1 DEF Mark, Return, Goto, Set, TypeOK, Entries
  <2>3. CASE pc[w] = "get_generation" /\ Single
    <3>1. GetGeneration(w)
      BY <1>2, <2>3 DEF ServiceStep, BeginIssue, BeginConsume, StoreToken, Pop, Claim,
                        Validate, Mark, AddGeneration, RereadGeneration
    <3>2. uses' # uses  BY DEF Accepts
    <3>3. payload' = payload /\ entry' = entry  BY <3>1, GenerationAsked
    <3> QED  BY <1>1, <2>1, <2>3, <3>1, <3>2, <3>3, GenerationOutcome
  <2> QED  BY <1>1, <2>2, <2>3
<1>4. Alive(t)  BY <1>1 DEF Alive, Verified, InFlight
<1>5. ASSUME NEW s \in Tokens, s # t  PROVE Alive(s)' <=> Alive(s)
  <2>1. Unseen(s)  BY <1>1, <1>3, <1>5, NoneFacts DEF Unseen, Carries, Apart
  <2> QED  BY <1>3, <2>1, UnseenStays
<1>6. Single => ~Alive(t)'
  <2> SUFFICES ASSUME Single  PROVE ~Alive(t)'  OBVIOUS
  <2>1. Owners /\ Single' /\ \A v \in Workers : WorkerInv(v)'
    BY <1>1, <1>3 DEF Inv, Single
  <2>2. entry'["token"][t] = None /\ \A v \in Workers : Owns(v, t) => v = w
    BY <1>1, <1>3, <2>1 DEF Owners
  <2>3. \A v \in Workers : ~Carries(v, t)'
    <3>1. \A v \in Workers : pc'[v] # "mark"  BY <2>1 DEF WorkerInv
    <3>2. ASSUME NEW v \in Workers, v # w  PROVE ~Carries(v, t)'
      BY <1>3, <2>2, <3>1, <3>2 DEF Carries, Owns, Apart
    <3>3. ~Carries(w, t)'  BY <1>3, NoneFacts DEF Carries
    <3> QED  BY <3>2, <3>3
  <2> QED  BY <2>2, <2>3 DEF Alive, Verified, InFlight, Held, Carries
<1>7. \/ LivingTokens' = LivingTokens \ {t}
      \/ ~Single /\ LivingTokens' = LivingTokens
  BY <1>4, <1>5, <1>6 DEF LivingTokens
<1> QED  BY <1>3, <1>4, <1>7 DEF LivingTokens

\* Storing a token mints it, dead or alive, and touches no other.
LEMMA StoreMints ==
    ASSUME Inv, NEW w \in Workers, NEW t \in Tokens, StoreToken(w, t)
    PROVE  /\ UNCHANGED <<deployment, uses>> /\ payload[t] = None /\ payload'[t] # None
           /\ \A s \in Tokens \ {t} : payload'[s] = payload[s]
           /\ LivingTokens' \in {LivingTokens, LivingTokens \cup {t}}
<1>1. ServiceStep(w)  BY DEF ServiceStep
<1>2. /\ TypeOK /\ Apart(w) /\ now' = now /\ WorkerInv(w)
      /\ pc[w] = "store" /\ pc'[w] = "idle" /\ call'[w] = NoCall
      /\ payload[t] = None /\ UNCHANGED <<deployment, uses, generation>>
      /\ \A s \in Tokens \ {t} : /\ payload'[s] = payload[s]
                                 /\ entry'["token"][s] = entry["token"][s]
      /\ entry'["token"][t] # None
  <2>1. TypeOK /\ TypeOK' /\ Apart(w) /\ WorkerInv(w)  BY <1>1, ServiceTyped DEF Inv
  <2>2. now + 2 * TTL # None  BY <2>1, Ranges, NoneFacts
  <2> QED
    BY <2>1, <2>2 DEF StoreToken, Return, Goto, Set, Deadline, TypeOK, Entries
<1>3. payload'[t] # None
  <2>1. TypeOK'  BY <1>1, ServiceTyped
  <2> QED  BY <1>2, <2>1 DEF TypeOK, Entries
<1>4. ASSUME NEW s \in Tokens, s # t  PROVE Alive(s)' <=> Alive(s)
  <2>1. call[w].token = None  BY <1>2 DEF WorkerInv
  <2>2. Unseen(s)  BY <1>2, <1>4, <2>1, NoneFacts DEF Unseen, Carries, Apart
  <2> QED  BY <1>2, <2>2, UnseenStays
<1>5. ~Alive(t)
  BY <1>2 DEF Alive, Verified, TypeOK
<1> QED  BY <1>2, <1>3, <1>4, <1>5 DEF LivingTokens

\* Every step of the service, its callers and the cache is a step of the
\* promise or none.
LEMMA StepKeepsPromise ==
    ASSUME Inv, [Next]_vars
    PROVE  Promise!Next \/ UNCHANGED Promise!promise
<1>1. TypeOK /\ (deployment.mode = "window" <=> ~Single)
  <2>1. deployment.mode \in {"single_use", "window"}
    BY ConfigAssumption DEF Inv, TypeOK, Deployment
  <2> QED  BY <2>1 DEF Inv, Single
<1>2. CASE UNCHANGED vars
  <2>1. UNCHANGED <<deployment, payload, generation, entry, pc, call, now, uses>>
    BY <1>2 DEF vars, cache, history
  <2>2. \A t \in Tokens : Alive(t)' <=> Alive(t)
    BY <2>1 DEF Alive, Verified, InFlight, Held
  <2> QED  BY <2>1, <2>2 DEF Promise!promise
<1>3. CASE UNCHANGED <<deployment, payload, uses>>
           /\ LivingTokens' \subseteq LivingTokens
  <2> DEFINE S == LivingTokens \ LivingTokens'
  <2>1. S \in SUBSET LivingTokens /\ LivingTokens' = LivingTokens \ S  BY <1>3
  <2>2. Promise!Lose(S)  BY <1>3, <2>1 DEF Promise!Lose, LivingTokens
  <2> QED  BY <2>1, <2>2 DEF Promise!Next, LivingTokens
<1>4. ASSUME NEW w \in Workers, NEW t \in Tokens, Next, Accepts(w, t)
      PROVE  Promise!Consume(t)
  <2>1. /\ UNCHANGED <<deployment, payload>> /\ uses' = [uses EXCEPT ![t] = uses[t] + 1]
        /\ t \in LivingTokens
        /\ \/ LivingTokens' = LivingTokens \ {t}
           \/ ~Single /\ LivingTokens' = LivingTokens
    BY <1>4, AcceptanceConsumes
  <2>2. {s \in Tokens : uses'[s] > 0} = {s \in Tokens : uses[s] > 0} \cup {t}
    <3>1. \A s \in Tokens : uses[s] \in Nat  BY <1>1 DEF TypeOK
    <3>2. /\ uses'[t] = uses[t] + 1
          /\ \A s \in Tokens \ {t} : uses'[s] = uses[s]
      BY <1>1, <2>1 DEF TypeOK
    <3> QED  BY <3>1, <3>2
  <2> QED  BY <1>1, <2>1, <2>2 DEF Promise!Consume, LivingTokens
<1>5. ASSUME NEW w \in Workers, NEW t \in Tokens, StoreToken(w, t)
      PROVE  Promise!Mint(t)
  BY <1>5, StoreMints DEF Promise!Mint, LivingTokens
<1>6. CASE EnvironmentStep
  BY <1>3, <1>6, EnvironmentTyped, EnvironmentLoses DEF Progress
<1>7. ASSUME NEW w \in Workers, ServiceStep(w)
      PROVE  Promise!Next \/ UNCHANGED Promise!promise
  <2>1. CASE \E t \in Tokens : StoreToken(w, t)  BY <1>5, <2>1 DEF Promise!Next
  <2>2. CASE uses' = uses /\ \A t \in Tokens : ~StoreToken(w, t)
    BY <1>3, <1>7, <2>2, CallLoses, ServiceTyped DEF Progress
  <2>3. CASE uses' # uses
    <3>1. Next  BY <1>7 DEF Next
    <3>2. \E t \in Tokens : Accepts(w, t)
      <4>1. /\ call[w].token \in Tokens /\ pc'[w] = "idle" /\ pc[w] # "idle"
            /\ uses' = [uses EXCEPT ![call[w].token] = uses[call[w].token] + 1]
        <5>1. CASE Mark(w)
          BY <1>1, <2>3, <5>1 DEF Mark, Return, Goto, TypeOK
        <5>2. CASE GetGeneration(w) \/ AddGeneration(w) \/ RereadGeneration(w)
          BY <2>3, <5>2, GenerationOutcome
        <5>3. CASE \/ \E u \in Issuers : BeginIssue(w, u)
                   \/ \E u \in Users, s \in Tokens, fresh \in BOOLEAN :
                          BeginConsume(w, u, s, fresh)
                   \/ \E s \in Tokens : StoreToken(w, s)
                   \/ Pop(w) \/ Claim(w) \/ Validate(w)
          BY <2>3, <5>3 DEF BeginIssue, BeginConsume, StoreToken, Pop, Claim, Validate,
                            history
        <5> QED  BY <1>7, <5>1, <5>2, <5>3 DEF ServiceStep
      <4>2. uses'[call[w].token] # uses[call[w].token]  BY <1>1, <4>1 DEF TypeOK
      <4> QED  BY <4>1, <4>2 DEF Accepts
    <3> QED  BY <1>4, <3>1, <3>2 DEF Promise!Next
  <2> QED  BY <2>1, <2>2, <2>3
<1> QED  BY <1>2, <1>6, <1>7 DEF Next, EnvironmentStep

\* Both modes of the service implement the promise of StepUp, whatever the
\* workers, the cache and the password saves do.
THEOREM ServiceImplementsPromise == Spec => ImplementsStepUp
<1>1. Init => Promise!Init
  <2> SUFFICES ASSUME Init  PROVE Promise!Init  OBVIOUS
  <2>1. Inv /\ \A t \in Tokens : payload[t] = None /\ uses[t] = 0
    BY InitInv DEF Init
  <2>2. \A t \in Tokens : ~Alive(t)  BY <2>1 DEF Alive, Verified, Inv, TypeOK
  <2> QED  BY <2>1, <2>2 DEF Promise!Init
<1>2. Inv /\ [Next]_vars => [Promise!Next]_(Promise!promise)
  BY StepKeepsPromise
<1> QED  BY <1>1, <1>2, InvHolds, PTL DEF Spec, ImplementsStepUp, Promise!Spec

(***************************************************************************)
(* What the promise gives a caller.                                        *)
(***************************************************************************)
\* In a step of the promise a token that is born and dead stays dead; one that
\* is accepted dies where tokens are not reusable; the others keep their uses.
LEMMA PromiseStep ==
    ASSUME Inv, [Next]_vars
    PROVE  /\ \A t \in Tokens : (payload[t] # None /\ ~Alive(t)) =>
                  payload'[t] # None /\ ~Alive(t)'
           /\ deployment'.mode = "window" <=> deployment.mode = "window"
           /\ \A t \in Tokens : payload'[t] = None => payload[t] = None
           /\ \A t \in Tokens : (uses'[t] > 0 /\ ~(uses[t] > 0)) =>
                  /\ Alive(t)
                  /\ deployment.mode # "window" => ~Alive(t)'
           /\ \A t \in Tokens : (Alive(t)' /\ ~Alive(t)) => payload'[t] # None
<1> DEFINE U == {t \in Tokens : payload[t] = None}
           L == {t \in Tokens : Alive(t)}
           P == {t \in Tokens : uses[t] > 0}
           R == deployment.mode = "window"
<1>1. CASE UNCHANGED Promise!promise
  <2>1. U' = U /\ L' = L /\ P' = P /\ (R' <=> R)  BY <1>1 DEF Promise!promise
  <2> QED  BY <2>1
<1>2. ASSUME NEW t \in Tokens, Promise!Mint(t)
      PROVE  /\ t \in U /\ U' = U \ {t} /\ L' \in {L, L \cup {t}}
             /\ P' = P /\ (R' <=> R)
  BY <1>2 DEF Promise!Mint
<1>3. ASSUME NEW t \in Tokens, Promise!Consume(t)
      PROVE  /\ t \in L /\ U' = U /\ P' = P \cup {t} /\ (R' <=> R)
             /\ L' \in {L, L \ {t}} /\ (~R => L' = L \ {t})
  BY <1>3 DEF Promise!Consume
<1>4. ASSUME NEW S, Promise!Lose(S)
      PROVE  U' = U /\ L' \subseteq L /\ P' = P /\ (R' <=> R)
  BY <1>4 DEF Promise!Lose
<1>5. CASE Promise!Next
  <2>1. CASE \E t \in Tokens : Promise!Mint(t)  BY <1>2, <2>1
  <2>2. CASE \E t \in Tokens : Promise!Consume(t)  BY <1>3, <2>2
  <2>3. CASE \E S : Promise!Lose(S)  BY <1>4, <2>3
  <2> QED  BY <1>5, <2>1, <2>2, <2>3 DEF Promise!Next
<1> QED  BY <1>1, <1>5, StepKeepsPromise

\* SPEC 7: whatever makes a token stop verifying (a use, an invalidation, its
\* expiry, the cache), no step of anybody makes it verify again.
THEOREM DeadTokensStayDead ==
    Spec => [][\A t \in Tokens : (payload[t] # None /\ ~Alive(t)) => ~Alive(t)']_vars
<1>1. ASSUME Inv, [Next]_vars
      PROVE  \A t \in Tokens : (payload[t] # None /\ ~Alive(t)) => ~Alive(t)'
  BY <1>1, PromiseStep
<1> QED  BY <1>1, InvHolds, PTL DEF Spec

\* In single-use mode a token that was accepted cannot verify any more, and a
\* token that does not exist yet was never accepted.
SpentTokensAreDead ==
    /\ \A t \in Tokens : payload[t] = None => ~Alive(t) /\ ~(uses[t] > 0)
    /\ deployment.mode # "window" => \A t \in Tokens : uses[t] > 0 => ~Alive(t)

\* SPEC 7.7: from the moment a single-use token is accepted there is no
\* interleaving left in which another call could accept it.
THEOREM SpentTokensStayDead == Spec => []SpentTokensAreDead
<1>1. Init => SpentTokensAreDead
  <2> SUFFICES ASSUME Init  PROVE SpentTokensAreDead  OBVIOUS
  <2>1. Inv /\ \A t \in Tokens : payload[t] = None /\ uses[t] = 0
    BY InitInv DEF Init
  <2>2. \A t \in Tokens : ~Alive(t)  BY <2>1 DEF Alive, Verified, Inv, TypeOK
  <2> QED  BY <2>1, <2>2 DEF SpentTokensAreDead
<1>2. Inv /\ SpentTokensAreDead /\ [Next]_vars => SpentTokensAreDead'
  BY PromiseStep DEF SpentTokensAreDead
<1> QED  BY <1>1, <1>2, InvHolds, PTL DEF Spec

=============================================================================
