-------------------------- MODULE RequestCacheProofs --------------------------
(***************************************************************************)
(* Machine-checked proofs about RequestCache: for any users and versions,  *)
(* and however deep requests, transactions and savepoints nest, no check   *)
(* uses a stale fact.                                                      *)
(***************************************************************************)
EXTENDS RequestCache, Integers, SequenceTheorems, TLAPS

Typed ==
    /\ committed \in [Keys -> 0..MaxVersion]
    /\ pending \in Memos
    /\ hooks \subseteq Keys
    /\ last \in 0..MaxVersion
    /\ frames \in Seq(Frames) /\ Len(frames) <= MaxDepth
    /\ store \in {<< >>} \cup {<<m>> : m \in Memos}
    /\ dirty \in BOOLEAN
    /\ current \in [Keys -> SUBSET (0..MaxVersion)]

Is(i, kind) == frames[i].kind = kind

\* A store exists exactly while the one request block is open.
OneRequest ==
    /\ store # << >> <=> InBlock(frames, "request")
    /\ \A i, j \in DOMAIN frames : (Is(i, "request") /\ Is(j, "request")) => i = j

\* Nothing is pending outside all transactions, nor was before the outermost.
Outermost ==
    /\ ~InAtomic => pending = Nothing /\ hooks = {}
    /\ \A i \in DOMAIN frames :
           (Is(i, "atomic") /\ \A j \in DOMAIN frames : j < i => ~Is(j, "atomic"))
           => frames[i].pending = Nothing /\ frames[i].hooks = {}

\* A request that a transaction changed authority in knows it, as long as
\* the change can still be rolled back.
WritesMark ==
    \A i, j \in DOMAIN frames :
        (/\ Is(j, "request") /\ Is(i, "atomic") /\ j < i
         /\ frames[i].pending # pending) => dirty

\* A call that locked a role has marked the context it runs in, even if a
\* receiver entered a request block since.
LocksMark ==
    \A i \in DOMAIN frames :
        (Is(i, "atomic") /\ frames[i].stage \in {"locked", "written"}) =>
            /\ \A j \in DOMAIN frames :
                   (i < j /\ Is(j, "request")) => frames[j].dirty
            /\ (\A j \in DOMAIN frames : i < j => ~Is(j, "request")) => dirty

\* What a query answers, and what a memo in use remembers, is current.
Fresh ==
    /\ \A k \in Keys : View[k] \in current[k]
    /\ (store # << >> /\ ~dirty) =>
           \A k \in DOMAIN store[1] : store[1][k] \in current[k]

Inv == Typed /\ OneRequest /\ Outermost /\ WritesMark /\ LocksMark /\ Fresh

(***************************************************************************)
(* Facts, memos and frames.                                                *)
(***************************************************************************)
\* A memo is a function from some of the keys to versions.
LEMMA MemoFacts ==
    ASSUME NEW m \in Memos
    PROVE  /\ DOMAIN m \in SUBSET Keys
           /\ \A k \in DOMAIN m : m[k] \in 0..MaxVersion
BY DEF Memos

\* A function from some keys to versions is a memo.
LEMMA MemoIs ==
    ASSUME NEW K \in SUBSET Keys, NEW f \in [K -> 0..MaxVersion]
    PROVE  f \in Memos
BY DEF Memos

\* The empty memo is one.
LEMMA NoMemo == Nothing \in Memos /\ DOMAIN Nothing = {}
<1>1. Nothing \in [{} -> 0..MaxVersion] /\ DOMAIN Nothing = {}  BY DEF Nothing
<1> QED  BY <1>1, MemoIs

\* Facts laid over facts are facts again.
LEMMA OverMemos ==
    ASSUME NEW f \in Memos, NEW g \in Memos
    PROVE  Over(f, g) \in Memos
<1> DEFINE K == DOMAIN f \cup DOMAIN g
<1>1. K \in SUBSET Keys  BY MemoFacts
<1>2. Over(f, g) \in [K -> 0..MaxVersion]  BY MemoFacts DEF Over
<1> QED  BY <1>1, <1>2, MemoIs

\* What this connection sees.
LEMMA ViewFacts ==
    ASSUME Typed
    PROVE  /\ View \in [Keys -> 0..MaxVersion]
           /\ \A k \in Keys :
                  View[k] = IF k \in DOMAIN pending THEN pending[k] ELSE committed[k]
<1>1. DOMAIN pending \in SUBSET Keys /\ DOMAIN committed = Keys  BY MemoFacts DEF Typed
<1>2. Keys = DOMAIN pending \cup DOMAIN committed  BY <1>1
<1>3. committed \in [Keys -> 0..MaxVersion]  BY DEF Typed
<1>4. \A k \in DOMAIN pending : pending[k] \in 0..MaxVersion  BY MemoFacts DEF Typed
<1>5. View = [k \in Keys |-> IF k \in DOMAIN pending THEN pending[k] ELSE committed[k]]
  BY <1>2 DEF View, Over
<1> QED  BY <1>3, <1>4, <1>5

\* Forgetting leaves the other facts of the memo alone.
LEMMA ForgetFacts ==
    ASSUME Typed, NEW K, Forget(K)
    PROVE  /\ store' \in {<< >>} \cup {<<m>> : m \in Memos}
           /\ store' # << >> <=> store # << >>
           /\ store # << >> =>
                  /\ DOMAIN store'[1] = DOMAIN store[1] \ K
                  /\ \A k \in DOMAIN store'[1] : store'[1][k] = store[1][k]
<1>1. CASE store = << >>  BY <1>1 DEF Forget
<1>2. CASE store # << >>
  <2>1. PICK m \in Memos : store = <<m>>  BY <1>2 DEF Typed
  <2> DEFINE f == [k \in DOMAIN m \ K |-> m[k]]
  <2>2. store' = <<f>>  BY <1>2, <2>1 DEF Forget
  <2>3. DOMAIN m \ K \in SUBSET Keys /\ f \in [DOMAIN m \ K -> 0..MaxVersion]
    BY MemoFacts
  <2>4. f \in Memos  BY <2>3, MemoIs
  <2>5. DOMAIN f = DOMAIN m \ K /\ \A k \in DOMAIN f : f[k] = m[k]  OBVIOUS
  <2> HIDE DEF f
  <2> QED  BY <2>1, <2>2, <2>4, <2>5
<1> QED  BY <1>1, <1>2

\* A block that is entered comes on top of those that are open.
LEMMA Pushed ==
    ASSUME NEW S, NEW s \in Seq(S), NEW b \in S
    PROVE  /\ Append(s, b) \in Seq(S) /\ Len(Append(s, b)) = Len(s) + 1
           /\ DOMAIN s = 1 .. Len(s) /\ Len(s) \in Nat
           /\ DOMAIN Append(s, b) = DOMAIN s \cup {Len(s) + 1}
           /\ \A i \in DOMAIN s : Append(s, b)[i] = s[i] /\ i < Len(s) + 1
           /\ Append(s, b)[Len(s) + 1] = b
<1>1. /\ Append(s, b) \in Seq(S) /\ Len(Append(s, b)) = Len(s) + 1
      /\ \A i \in 1 .. Len(s) : Append(s, b)[i] = s[i]
      /\ Append(s, b)[Len(s) + 1] = b
  BY AppendProperties
<1>2. DOMAIN Append(s, b) = 1 .. Len(s) + 1 /\ DOMAIN s = 1 .. Len(s) /\ Len(s) \in Nat
  BY <1>1, LenProperties
<1> QED  BY <1>1, <1>2

\* The innermost block that is left is taken away.
LEMMA Popped ==
    ASSUME NEW S, NEW s \in Seq(S), s # << >>
    PROVE  LET t == SubSeq(s, 1, Len(s) - 1)
           IN  /\ t \in Seq(S) /\ Len(t) = Len(s) - 1
               /\ DOMAIN s = DOMAIN t \cup {Len(s)} /\ Len(s) \notin DOMAIN t
               /\ \A i \in DOMAIN t : t[i] = s[i] /\ i < Len(s)
               /\ Len(s) \in Nat \ {0} /\ s[Len(s)] \in S
<1> DEFINE t == SubSeq(s, 1, Len(s) - 1)
<1>1. Len(s) \in Nat /\ Len(s) # 0 /\ DOMAIN s = 1 .. Len(s)
  BY LenProperties, EmptySeq
<1>2. s[Len(s)] \in S  BY <1>1, ElementOfSeq
<1>3. /\ t \in Seq(S) /\ Len(t) = Len(s) - 1
      /\ \A i \in 1 .. Len(s) - 1 : t[i] = s[i]
  BY <1>1, SubSeqProperties
<1>4. DOMAIN t = 1 .. Len(s) - 1  BY <1>3, LenProperties
<1> QED  BY <1>1, <1>2, <1>3, <1>4

\* The innermost block is changed in place.
LEMMA Replaced ==
    ASSUME NEW S, NEW s \in Seq(S), s # << >>, NEW b \in S
    PROVE  LET t == [s EXCEPT ![Len(s)] = b]
           IN  /\ t \in Seq(S) /\ Len(t) = Len(s) /\ DOMAIN t = DOMAIN s
               /\ Len(s) \in DOMAIN s /\ t[Len(s)] = b
               /\ \A i \in DOMAIN s \ {Len(s)} : t[i] = s[i] /\ i < Len(s)
<1>1. Len(s) \in Nat /\ Len(s) # 0 /\ DOMAIN s = 1 .. Len(s)
  BY LenProperties, EmptySeq
<1>2. Len(s) \in 1 .. Len(s)  BY <1>1
<1> DEFINE t == [s EXCEPT ![Len(s)] = b]
<1>3. t \in Seq(S) /\ Len(t) = Len(s) /\ \A i \in 1 .. Len(s) :
          t[i] = IF i = Len(s) THEN b ELSE s[i]
  BY <1>2, ExceptSeq
<1>4. DOMAIN t = 1 .. Len(s)  BY <1>3, LenProperties
<1> HIDE DEF t
<1>5. \A n \in Nat : \A i \in 1 .. n : i # n => i < n
  OBVIOUS
<1>6. /\ t \in Seq(S) /\ Len(t) = Len(s) /\ DOMAIN t = DOMAIN s
      /\ Len(s) \in DOMAIN s /\ t[Len(s)] = b
      /\ \A i \in DOMAIN s \ {Len(s)} : t[i] = s[i] /\ i < Len(s)
  BY <1>1, <1>2, <1>3, <1>4, <1>5
<1> QED  BY <1>6 DEF t

\* A block is entered on top of the others.
LEMMA PushFacts ==
    ASSUME Typed, NEW f \in Frames, Push(f)
    PROVE  /\ frames' \in Seq(Frames) /\ Len(frames') <= MaxDepth
           /\ DOMAIN frames \subseteq Nat
           /\ \E n \in Nat : /\ DOMAIN frames' = DOMAIN frames \cup {n}
                            /\ frames'[n] = f
                            /\ \A i \in DOMAIN frames :
                                   frames'[i] = frames[i] /\ i < n
<1>1. /\ frames \in Seq(Frames) /\ frames' = Append(frames, f)
      /\ Len(frames) < MaxDepth
  BY DEF Typed, Push
<1>2. /\ Append(frames, f) \in Seq(Frames) /\ Len(Append(frames, f)) = Len(frames) + 1
      /\ DOMAIN frames = 1 .. Len(frames) /\ Len(frames) \in Nat
      /\ DOMAIN Append(frames, f) = DOMAIN frames \cup {Len(frames) + 1}
      /\ \A i \in DOMAIN frames : Append(frames, f)[i] = frames[i] /\ i < Len(frames) + 1
      /\ Append(frames, f)[Len(frames) + 1] = f
  BY <1>1, Pushed
<1>3. Len(frames') <= MaxDepth  BY <1>1, <1>2, BoundAssumption
<1>4. PICK n \in Nat : n = Len(frames) + 1  BY <1>2
<1>5. DOMAIN frames \subseteq Nat  BY <1>2
<1> QED  BY <1>1, <1>2, <1>3, <1>4, <1>5

\* The innermost block is left.
LEMMA PopFacts ==
    ASSUME Typed, frames # << >>, Pop
    PROVE  /\ frames' \in Seq(Frames) /\ Len(frames') <= MaxDepth
           /\ DOMAIN frames \subseteq Nat
           /\ \E n \in Nat : /\ DOMAIN frames = DOMAIN frames' \cup {n}
                            /\ Top = frames[n] /\ frames[n] \in Frames
                            /\ \A i \in DOMAIN frames' :
                                   frames'[i] = frames[i] /\ i < n
<1> DEFINE t == SubSeq(frames, 1, Len(frames) - 1)
<1>1. /\ frames \in Seq(Frames) /\ frames' = t /\ Len(frames) <= MaxDepth
  BY DEF Typed, Pop
<1>2. /\ t \in Seq(Frames) /\ Len(t) = Len(frames) - 1
      /\ DOMAIN frames = DOMAIN t \cup {Len(frames)} /\ Len(frames) \notin DOMAIN t
      /\ \A i \in DOMAIN t : t[i] = frames[i] /\ i < Len(frames)
      /\ Len(frames) \in Nat \ {0} /\ frames[Len(frames)] \in Frames
  BY <1>1, Popped
<1>3. DOMAIN frames \subseteq Nat
  <2>1. DOMAIN frames = 1 .. Len(frames)  BY <1>1, LenProperties
  <2> QED  BY <2>1
<1> HIDE DEF t
<1>4. Len(frames') <= MaxDepth  BY <1>1, <1>2, BoundAssumption
<1>5. PICK n \in Nat : n = Len(frames)  BY <1>2
<1> QED  BY <1>1, <1>2, <1>3, <1>4, <1>5 DEF Top

\* The innermost block is a transaction, and a call goes on in it.
LEMMA StageFacts ==
    ASSUME Typed, TopIs("atomic"), NEW stage \in {"open", "locked", "written"},
           NEW K \in SUBSET Keys, SetStage(stage, K)
    PROVE  /\ frames' \in Seq(Frames) /\ Len(frames') <= MaxDepth
           /\ DOMAIN frames \subseteq Nat
           /\ \E n \in DOMAIN frames :
                  /\ DOMAIN frames' = DOMAIN frames
                  /\ Top = frames[n] /\ frames'[n].kind = "atomic"
                  /\ frames'[n].pending = frames[n].pending
                  /\ frames'[n].hooks = frames[n].hooks
                  /\ frames'[n].stage = stage
                  /\ \A i \in DOMAIN frames \ {n} : frames'[i] = frames[i] /\ i < n
<1> DEFINE b == [Top EXCEPT !.stage = stage, !.edit = K]
           t == [frames EXCEPT ![Len(frames)] = b]
<1>1. /\ frames \in Seq(Frames) /\ frames # << >> /\ frames' = t
      /\ Len(frames) <= MaxDepth /\ Top.kind = "atomic"
  BY DEF Typed, SetStage, TopIs
<1>2. Top \in Frames /\ Top = frames[Len(frames)]
  BY <1>1, Popped DEF Top
<1>3. Top \in [kind : {"atomic"}, pending : Memos, hooks : SUBSET Keys,
               stage : {"open", "locked", "written"}, edit : SUBSET Keys]
  BY <1>1, <1>2 DEF Frames
<1>4. /\ b \in Frames /\ b.kind = "atomic" /\ b.pending = Top.pending
      /\ b.hooks = Top.hooks /\ b.stage = stage
  BY <1>3 DEF Frames
<1> HIDE DEF b
<1>5. /\ t \in Seq(Frames) /\ Len(t) = Len(frames) /\ DOMAIN t = DOMAIN frames
      /\ Len(frames) \in DOMAIN frames /\ t[Len(frames)] = b
      /\ \A i \in DOMAIN frames \ {Len(frames)} : t[i] = frames[i] /\ i < Len(frames)
  BY <1>1, <1>4, Replaced
<1>6. DOMAIN frames \subseteq Nat
  <2>1. DOMAIN frames = 1 .. Len(frames)  BY <1>1, LenProperties
  <2> QED  BY <2>1
<1> HIDE DEF t
<1>7. PICK n \in DOMAIN frames : n = Len(frames)  BY <1>5
<1> QED  BY <1>1, <1>2, <1>4, <1>5, <1>6, <1>7

\* A write is what this connection sees and what a check may be based on.
LEMMA WriteFacts ==
    ASSUME Typed, Fresh, NEW K \in SUBSET Keys, Write(K)
    PROVE  /\ committed' \in [Keys -> 0..MaxVersion] /\ pending' \in Memos
           /\ last' \in 0..MaxVersion
           /\ current' \in [Keys -> SUBSET (0..MaxVersion)]
           /\ \A k \in Keys : View'[k] \in current'[k]
           /\ \A k \in Keys \ K : current'[k] = current[k]
<1>1. /\ last' = last + 1 /\ last < MaxVersion /\ committed' = committed
      /\ pending' = Over([k \in K |-> last'], pending)
      /\ current' = [k \in Keys |-> IF k \in K THEN {last'} ELSE current[k]]
  BY DEF Write
<1>2. last' \in 0..MaxVersion  BY <1>1, BoundAssumption DEF Typed
<1> DEFINE f == [k \in K |-> last']
<1>3. f \in Memos
  <2>1. f \in [K -> 0..MaxVersion]  BY <1>2
  <2> QED  BY <2>1, MemoIs
<1>4. pending' \in Memos  BY <1>1, <1>3, OverMemos DEF Typed
<1>5. /\ DOMAIN pending' = K \cup DOMAIN pending
      /\ \A k \in DOMAIN pending' : pending'[k] = IF k \in K THEN last' ELSE pending[k]
  <2>1. DOMAIN f = K /\ \A k \in K : f[k] = last'  OBVIOUS
  <2>2. pending' = Over(f, pending)  BY <1>1
  <2> HIDE DEF f
  <2>3. /\ DOMAIN Over(f, pending) = DOMAIN f \cup DOMAIN pending
        /\ \A k \in DOMAIN f \cup DOMAIN pending :
              Over(f, pending)[k] = IF k \in DOMAIN f THEN f[k] ELSE pending[k]
    BY DEF Over
  <2> QED  BY <2>1, <2>2, <2>3
<1>6. committed' \in [Keys -> 0..MaxVersion]  BY <1>1 DEF Typed
<1>7. current' \in [Keys -> SUBSET (0..MaxVersion)]  BY <1>1, <1>2 DEF Typed
<1>8. ASSUME NEW k \in Keys  PROVE View'[k] \in current'[k]
  <2>1. DOMAIN pending' \in SUBSET Keys /\ DOMAIN committed' = Keys
    BY <1>4, <1>6, MemoFacts
  <2>2. View'[k] = IF k \in DOMAIN pending' THEN pending'[k] ELSE committed'[k]
    BY <2>1 DEF View, Over
  <2>3. View[k] = IF k \in DOMAIN pending THEN pending[k] ELSE committed[k]
    BY ViewFacts
  <2>4. View[k] \in current[k]  BY DEF Fresh
  <2> QED  BY <1>1, <1>5, <2>2, <2>3, <2>4
<1> QED  BY <1>1, <1>2, <1>4, <1>6, <1>7, <1>8

(***************************************************************************)
(* Blocks.                                                                 *)
(***************************************************************************)
LEMMA SameView ==
    ASSUME UNCHANGED <<committed, pending>>
    PROVE  View' = View
BY DEF View

\* A request starts with one empty memo.
LEMMA EnterRequestKeepsInv ==
    ASSUME Inv, EnterRequest
    PROVE  Inv'
<1>1. /\ Typed /\ store = << >> /\ Push(RequestBlock) /\ store' = <<Nothing>>
      /\ dirty' = FALSE /\ current' = [k \in Keys |-> {View[k]}]
      /\ UNCHANGED database
  BY DEF Inv, EnterRequest
<1>2. RequestBlock \in Frames /\ RequestBlock.kind = "request" /\ RequestBlock.dirty = dirty
  BY <1>1 DEF Frames, RequestBlock, Typed
<1>3. frames' \in Seq(Frames) /\ Len(frames') <= MaxDepth /\ DOMAIN frames \subseteq Nat
  BY <1>1, <1>2, PushFacts
<1>4. PICK n \in Nat :
          /\ DOMAIN frames' = DOMAIN frames \cup {n} /\ frames'[n] = RequestBlock
          /\ \A i \in DOMAIN frames : frames'[i] = frames[i] /\ i < n
  BY <1>1, <1>2, PushFacts
<1>5. \A i \in DOMAIN frames : ~Is(i, "request")
  BY <1>1 DEF Inv, OneRequest, InBlock, Is
<1>6. /\ InAtomic' <=> InAtomic
      /\ UNCHANGED <<committed, pending, hooks, last>>
  BY <1>1, <1>2, <1>4 DEF InAtomic, InBlock, database
<1>7. Typed'
  BY <1>1, <1>3, <1>6, NoMemo, ViewFacts DEF Typed
<1>8. OneRequest'
  BY <1>1, <1>2, <1>4, <1>5 DEF OneRequest, InBlock, Is
<1>9. Outermost'
  BY <1>2, <1>3, <1>4, <1>6 DEF Inv, Outermost, Is
<1>10. WritesMark'
  BY <1>2, <1>3, <1>4, <1>5 DEF WritesMark, Is
<1>11. LocksMark'
  BY <1>1, <1>2, <1>3, <1>4, <1>5 DEF Inv, LocksMark, Is
<1>12. Fresh'
  <2>1. View' = View /\ store'[1] = Nothing  BY <1>1, <1>6, SameView
  <2> QED  BY <1>1, <2>1, NoMemo DEF Fresh
<1> QED  BY <1>7, <1>8, <1>9, <1>10, <1>11, <1>12 DEF Inv

\* A request block inside a request shares its store, dirty mark and facts.
LEMMA NestedKeepsInv ==
    ASSUME Inv, EnterNested \/ LeaveNested
    PROVE  Inv'
<1>1. /\ Typed /\ UNCHANGED <<database, store, dirty, current>>
      /\ UNCHANGED <<committed, pending, hooks, last>>
  BY DEF Inv, EnterNested, LeaveNested, database
<1>2. SharedBlock \in Frames /\ SharedBlock.kind = "shared"
  BY DEF Frames, SharedBlock
<1>3. /\ frames' \in Seq(Frames) /\ Len(frames') <= MaxDepth /\ DOMAIN frames \subseteq Nat
      /\ \E n \in Nat :
            \/ /\ DOMAIN frames' = DOMAIN frames \cup {n} /\ frames'[n].kind = "shared"
               /\ \A i \in DOMAIN frames : frames'[i] = frames[i] /\ i < n
            \/ /\ DOMAIN frames = DOMAIN frames' \cup {n} /\ frames[n].kind = "shared"
               /\ \A i \in DOMAIN frames' : frames'[i] = frames[i] /\ i < n
  <2>1. CASE EnterNested
    <3>1. Push(SharedBlock)  BY <2>1 DEF EnterNested
    <3> QED  BY <1>1, <1>2, <3>1, PushFacts
  <2>2. CASE LeaveNested
    <3>1. frames # << >> /\ Top.kind = "shared" /\ Pop  BY <2>2 DEF LeaveNested, TopIs
    <3> QED  BY <1>1, <3>1, PopFacts
  <2> QED  BY <2>1, <2>2
<1>4. PICK n \in Nat :
          \/ /\ DOMAIN frames' = DOMAIN frames \cup {n} /\ frames'[n].kind = "shared"
             /\ \A i \in DOMAIN frames : frames'[i] = frames[i] /\ i < n
          \/ /\ DOMAIN frames = DOMAIN frames' \cup {n} /\ frames[n].kind = "shared"
             /\ \A i \in DOMAIN frames' : frames'[i] = frames[i] /\ i < n
  BY <1>3
<1>5. /\ InAtomic' <=> InAtomic
      /\ InBlock(frames', "request") <=> InBlock(frames, "request")
  BY <1>4 DEF InAtomic, InBlock
<1>6. Typed'  BY <1>1, <1>3 DEF Typed
<1>7. OneRequest'  BY <1>1, <1>4, <1>5 DEF Inv, OneRequest, Is
<1>8. Outermost'  BY <1>1, <1>3, <1>4, <1>5 DEF Inv, Outermost, Is
<1>9. WritesMark'  BY <1>1, <1>3, <1>4 DEF Inv, WritesMark, Is
<1>10. LocksMark'  BY <1>1, <1>3, <1>4 DEF Inv, LocksMark, Is
<1>11. Fresh'
  <2>1. View' = View  BY <1>1, SameView
  <2> QED  BY <1>1, <2>1 DEF Inv, Fresh
<1> QED  BY <1>6, <1>7, <1>8, <1>9, <1>10, <1>11 DEF Inv

\* A request's end drops its memo and restores the mark it found.
LEMMA LeaveRequestKeepsInv ==
    ASSUME Inv, LeaveRequest
    PROVE  Inv'
<1>1. /\ Typed /\ frames # << >> /\ Top.kind = "request" /\ Pop
      /\ store' = << >> /\ dirty' = Top.dirty /\ UNCHANGED <<database, current>>
      /\ UNCHANGED <<committed, pending, hooks, last>>
  BY DEF Inv, LeaveRequest, TopIs, database
<1>2. frames' \in Seq(Frames) /\ Len(frames') <= MaxDepth /\ DOMAIN frames \subseteq Nat
  BY <1>1, PopFacts
<1>3. PICK n \in Nat :
          /\ DOMAIN frames = DOMAIN frames' \cup {n}
          /\ Top = frames[n] /\ frames[n] \in Frames
          /\ \A i \in DOMAIN frames' : frames'[i] = frames[i] /\ i < n
  BY <1>1, PopFacts
<1>4. dirty' = frames[n].dirty /\ dirty' \in BOOLEAN
  BY <1>1, <1>3 DEF Frames
<1>5. \A i \in DOMAIN frames' : ~Is(i, "request")'
  BY <1>1, <1>2, <1>3 DEF Inv, OneRequest, Is
<1>6. InAtomic' <=> InAtomic
  BY <1>1, <1>3 DEF InAtomic, InBlock
<1>7. Typed'  BY <1>1, <1>2, <1>4 DEF Typed
<1>8. OneRequest'  BY <1>1, <1>5 DEF OneRequest, InBlock, Is
<1>9. Outermost'  BY <1>1, <1>2, <1>3, <1>6 DEF Inv, Outermost, Is
<1>10. WritesMark'  BY <1>5 DEF WritesMark, Is
<1>11. LocksMark'
  BY <1>1, <1>2, <1>3, <1>4, <1>5 DEF Inv, LocksMark, Is
<1>12. Fresh'
  <2>1. View' = View  BY <1>1, SameView
  <2> QED  BY <1>1, <2>1 DEF Inv, Fresh
<1> QED  BY <1>7, <1>8, <1>9, <1>10, <1>11, <1>12 DEF Inv

\* An atomic block inside the request sees what the block around it sees.
LEMMA EnterAtomicKeepsInv ==
    ASSUME Inv, EnterAtomic
    PROVE  Inv'
<1>1. /\ Typed /\ Push(AtomicBlock) /\ UNCHANGED <<database, store, dirty, current>>
      /\ UNCHANGED <<committed, pending, hooks, last>>
  BY DEF Inv, EnterAtomic, database
<1>2. /\ AtomicBlock \in Frames /\ AtomicBlock.kind = "atomic"
      /\ AtomicBlock.pending = pending /\ AtomicBlock.hooks = hooks
      /\ AtomicBlock.stage = "open"
  BY <1>1 DEF Frames, AtomicBlock, Typed
<1>3. frames' \in Seq(Frames) /\ Len(frames') <= MaxDepth /\ DOMAIN frames \subseteq Nat
  BY <1>1, <1>2, PushFacts
<1>4. PICK n \in Nat :
          /\ DOMAIN frames' = DOMAIN frames \cup {n} /\ frames'[n] = AtomicBlock
          /\ \A i \in DOMAIN frames : frames'[i] = frames[i] /\ i < n
  BY <1>1, <1>2, PushFacts
<1>5. /\ InAtomic'
      /\ InBlock(frames', "request") <=> InBlock(frames, "request")
  BY <1>2, <1>4 DEF InAtomic, InBlock
<1>6. Typed'  BY <1>1, <1>3 DEF Typed
<1>7. OneRequest'  BY <1>1, <1>2, <1>4, <1>5 DEF Inv, OneRequest, Is
<1>8. Outermost'
  <2>1. SUFFICES ASSUME NEW i \in DOMAIN frames', Is(i, "atomic")',
                        \A j \in DOMAIN frames' : j < i => ~Is(j, "atomic")'
                 PROVE  frames'[i].pending = Nothing /\ frames'[i].hooks = {}
    BY <1>5 DEF Outermost, Is
  <2>2. CASE i \in DOMAIN frames
    BY <1>4, <2>1, <2>2 DEF Inv, Outermost, Is
  <2>3. CASE i = n
    <3>1. ~InAtomic  BY <1>4, <2>1, <2>3 DEF InAtomic, InBlock, Is
    <3> QED  BY <1>2, <1>4, <2>3, <3>1 DEF Inv, Outermost
  <2> QED  BY <1>4, <2>2, <2>3
<1>9. WritesMark'  BY <1>1, <1>2, <1>3, <1>4 DEF Inv, WritesMark, Is
<1>10. LocksMark'  BY <1>1, <1>2, <1>3, <1>4 DEF Inv, LocksMark, Is
<1>11. Fresh'
  <2>1. View' = View  BY <1>1, SameView
  <2> QED  BY <1>1, <2>1 DEF Inv, Fresh
<1> QED  BY <1>6, <1>7, <1>8, <1>9, <1>10, <1>11 DEF Inv

\* The innermost transaction or savepoint ends.
LEMMA AtomicPopFacts ==
    ASSUME Inv, TopIs("atomic"), Pop
    PROVE  /\ frames' \in Seq(Frames) /\ Len(frames') <= MaxDepth
           /\ DOMAIN frames \subseteq Nat /\ InAtomic
           /\ InBlock(frames', "request") <=> InBlock(frames, "request")
           /\ \E n \in Nat :
                  /\ DOMAIN frames = DOMAIN frames' \cup {n} /\ Top = frames[n]
                  /\ frames[n].kind = "atomic"
                  /\ frames[n].pending \in Memos /\ frames[n].hooks \in SUBSET Keys
                  /\ \A i \in DOMAIN frames' : frames'[i] = frames[i] /\ i < n
<1>1. Typed /\ frames # << >> /\ Top.kind = "atomic"  BY DEF Inv, TopIs
<1>2. frames' \in Seq(Frames) /\ Len(frames') <= MaxDepth /\ DOMAIN frames \subseteq Nat
  BY <1>1, PopFacts
<1>3. PICK n \in Nat :
          /\ DOMAIN frames = DOMAIN frames' \cup {n}
          /\ Top = frames[n] /\ frames[n] \in Frames
          /\ \A i \in DOMAIN frames' : frames'[i] = frames[i] /\ i < n
  BY <1>1, PopFacts
<1>4. frames[n].pending \in Memos /\ frames[n].hooks \in SUBSET Keys
  BY <1>1, <1>3 DEF Frames
<1>5. InAtomic /\ (InBlock(frames', "request") <=> InBlock(frames, "request"))
  BY <1>1, <1>3 DEF InAtomic, InBlock
<1> QED  BY <1>1, <1>2, <1>3, <1>4, <1>5

\* A commit publishes the writes; the callbacks forget the keys they changed.
LEMMA CommitKeepsInv ==
    ASSUME Inv, Commit
    PROVE  Inv'
<1>1. /\ Typed /\ TopIs("atomic") /\ Pop /\ UNCHANGED <<dirty, current>>
      /\ IF InAtomic' THEN UNCHANGED <<database, store>>
         ELSE /\ committed' = View /\ pending' = Nothing /\ hooks' = {}
              /\ Forget(hooks) /\ UNCHANGED last
  BY DEF Inv, Commit, InAtomic
<1>2. /\ frames' \in Seq(Frames) /\ Len(frames') <= MaxDepth
      /\ DOMAIN frames \subseteq Nat
      /\ InBlock(frames', "request") <=> InBlock(frames, "request")
  BY <1>1, AtomicPopFacts
<1>3. PICK n \in Nat :
          /\ DOMAIN frames = DOMAIN frames' \cup {n} /\ frames[n].kind = "atomic"
          /\ \A i \in DOMAIN frames' : frames'[i] = frames[i] /\ i < n
  BY <1>1, AtomicPopFacts
<1>4. LocksMark'  BY <1>1, <1>2, <1>3 DEF Inv, LocksMark, Is
<1>5. CASE InAtomic'
  <2>1. UNCHANGED <<committed, pending, hooks, last, store>>  BY <1>1, <1>5 DEF database
  <2>2. Typed'  BY <1>1, <1>2, <2>1 DEF Typed
  <2>3. OneRequest'  BY <1>2, <1>3, <2>1 DEF Inv, OneRequest, Is
  <2>4. Outermost'  BY <1>2, <1>3, <1>5, <2>1 DEF Inv, Outermost, Is
  <2>5. WritesMark'  BY <1>1, <1>2, <1>3, <2>1 DEF Inv, WritesMark, Is
  <2>6. Fresh'
    <3>1. View' = View  BY <2>1, SameView
    <3> QED  BY <1>1, <2>1, <3>1 DEF Inv, Fresh
  <2> QED  BY <1>4, <2>2, <2>3, <2>4, <2>5, <2>6 DEF Inv
<1>6. CASE ~InAtomic'
  <2>1. /\ committed' = View /\ pending' = Nothing /\ hooks' = {} /\ last' = last
        /\ Forget(hooks)
    BY <1>1, <1>6
  <2>2. \A i \in DOMAIN frames' : ~Is(i, "atomic")'
    BY <1>6 DEF InAtomic, InBlock, Is
  <2>3. /\ store' \in {<< >>} \cup {<<m>> : m \in Memos}
        /\ store' # << >> <=> store # << >>
        /\ store # << >> =>
               /\ DOMAIN store'[1] = DOMAIN store[1] \ hooks
               /\ \A k \in DOMAIN store'[1] : store'[1][k] = store[1][k]
    BY <1>1, <2>1, ForgetFacts
  <2>4. Typed'
    BY <1>1, <1>2, <2>1, <2>3, NoMemo, ViewFacts DEF Typed
  <2>5. OneRequest'  BY <1>2, <1>3, <2>3 DEF Inv, OneRequest, Is
  <2>6. Outermost'  BY <2>1, <2>2 DEF Outermost
  <2>7. WritesMark'  BY <2>2 DEF WritesMark
  <2>8. Fresh'
    <3>1. \A k \in Keys : View'[k] = View[k]
      BY <1>1, <2>1, NoMemo, ViewFacts DEF View, Over
    <3> QED  BY <1>1, <2>3, <3>1 DEF Inv, Fresh
  <2> QED  BY <1>4, <2>4, <2>5, <2>6, <2>7, <2>8 DEF Inv
<1> QED  BY <1>5, <1>6

\* A rollback takes the writes back: the transaction's mark keeps the memo out of use, and
\* empties it at the next look outside.
LEMMA RollbackKeepsInv ==
    ASSUME Inv, Rollback
    PROVE  Inv'
<1>1. /\ Typed /\ TopIs("atomic") /\ Pop
      /\ pending' = Top.pending /\ hooks' = Top.hooks
      /\ UNCHANGED <<committed, last, store, dirty>>
      /\ current' = [k \in Keys |-> IF View'[k] = View[k] THEN current[k] ELSE {View'[k]}]
  BY DEF Inv, Rollback
<1>2. /\ frames' \in Seq(Frames) /\ Len(frames') <= MaxDepth
      /\ DOMAIN frames \subseteq Nat
      /\ InBlock(frames', "request") <=> InBlock(frames, "request")
  BY <1>1, AtomicPopFacts
<1>3. PICK n \in Nat :
          /\ DOMAIN frames = DOMAIN frames' \cup {n} /\ Top = frames[n]
          /\ frames[n].kind = "atomic"
          /\ frames[n].pending \in Memos /\ frames[n].hooks \in SUBSET Keys
          /\ \A i \in DOMAIN frames' : frames'[i] = frames[i] /\ i < n
  BY <1>1, AtomicPopFacts
<1>4. /\ pending' = frames[n].pending /\ hooks' = frames[n].hooks
      /\ pending' \in Memos /\ hooks' \in SUBSET Keys
  BY <1>1, <1>3
<1>5. \A k \in Keys : View'[k] \in 0..MaxVersion
  <2>1. DOMAIN pending' \in SUBSET Keys /\ DOMAIN committed' = Keys
    BY <1>1, <1>4, MemoFacts DEF Typed
  <2>2. \A k \in Keys :
            View'[k] = IF k \in DOMAIN pending' THEN pending'[k] ELSE committed'[k]
    BY <2>1 DEF View, Over
  <2>3. \A k \in Keys : committed'[k] \in 0..MaxVersion  BY <1>1 DEF Typed
  <2> QED  BY <1>4, <2>2, <2>3, MemoFacts
<1>6. Typed'
  <2>1. current' \in [Keys -> SUBSET (0..MaxVersion)]
    BY <1>1, <1>5 DEF Typed
  <2> QED  BY <1>1, <1>2, <1>4, <2>1 DEF Typed
<1>7. OneRequest'  BY <1>1, <1>2, <1>3 DEF Inv, OneRequest, Is
<1>8. Outermost'
  <2>1. ~InAtomic' => pending' = Nothing /\ hooks' = {}
    <3>1. SUFFICES ASSUME ~InAtomic'  PROVE pending' = Nothing /\ hooks' = {}
      OBVIOUS
    <3>2. \A j \in DOMAIN frames : j < n => ~Is(j, "atomic")
      BY <1>2, <1>3, <3>1 DEF InAtomic, InBlock, Is
    <3> QED  BY <1>3, <1>4, <3>2 DEF Inv, Outermost, Is
  <2>2. \A i \in DOMAIN frames' :
            (Is(i, "atomic")' /\ \A j \in DOMAIN frames' : j < i => ~Is(j, "atomic")')
            => frames'[i].pending = Nothing /\ frames'[i].hooks = {}
    BY <1>2, <1>3 DEF Inv, Outermost, Is
  <2> QED  BY <2>1, <2>2 DEF Outermost, Is
<1>9. ASSUME NEW j \in DOMAIN frames', Is(j, "request")', pending' # pending
      PROVE  dirty
  BY <1>2, <1>3, <1>4, <1>9 DEF Inv, WritesMark, Is
<1>10. WritesMark'
  <2>1. SUFFICES ASSUME NEW i \in DOMAIN frames', NEW j \in DOMAIN frames',
                        Is(j, "request")', Is(i, "atomic")', j < i,
                        frames'[i].pending # pending'
                 PROVE  dirty
    BY <1>1 DEF WritesMark, Is
  <2>2. CASE pending' = pending
    BY <1>2, <1>3, <2>1, <2>2 DEF Inv, WritesMark, Is
  <2> QED  BY <1>9, <2>1, <2>2
<1>11. LocksMark'  BY <1>1, <1>2, <1>3 DEF Inv, LocksMark, Is
<1>12. Fresh'
  <2>1. \A k \in Keys : View'[k] \in current'[k]
    BY <1>1 DEF Inv, Fresh
  <2>2. ASSUME store' # << >>, ~dirty'
        PROVE  \A k \in DOMAIN store'[1] : store'[1][k] \in current'[k]
    <3>1. \E j \in DOMAIN frames' : Is(j, "request")'
      BY <1>1, <1>2, <2>2 DEF Inv, OneRequest, InBlock, Is
    <3>2. pending' = pending  BY <1>1, <1>9, <2>2, <3>1
    <3>3. View' = View  BY <1>1, <3>2, SameView
    <3>4. \A k \in Keys : current'[k] = current[k]  BY <1>1, <3>3
    <3>5. DOMAIN store[1] \in SUBSET Keys  BY <1>1, <2>2, MemoFacts DEF Typed
    <3> QED  BY <1>1, <2>2, <3>4, <3>5 DEF Inv, Fresh
  <2> QED  BY <2>1, <2>2 DEF Fresh
<1> QED  BY <1>6, <1>7, <1>8, <1>10, <1>11, <1>12 DEF Inv

(***************************************************************************)
(* API calls, checks and other connections.                                *)
(***************************************************************************)
\* In a marked transaction no memo is in use: only the marks and the view
\* have to be looked at.
LEMMA MarkedStep ==
    ASSUME Inv, Typed', DOMAIN frames' = DOMAIN frames, dirty',
           \A i \in DOMAIN frames :
               /\ frames'[i].kind = frames[i].kind
               /\ frames[i].kind = "request" => frames'[i].dirty = frames[i].dirty
               /\ frames[i].kind = "atomic" =>
                      /\ frames'[i].pending = frames[i].pending
                      /\ frames'[i].hooks = frames[i].hooks,
           store' # << >> <=> store # << >>, InAtomic,
           \A k \in Keys : View'[k] \in current'[k],
           \A i, j \in DOMAIN frames :
               (/\ Is(i, "atomic") /\ frames'[i].stage \in {"locked", "written"}
                /\ i < j /\ Is(j, "request")) => frames[j].dirty
    PROVE  Inv'
<1>1. InAtomic' /\ (InBlock(frames', "request") <=> InBlock(frames, "request"))
  BY DEF InAtomic, InBlock
<1>2. OneRequest'  BY <1>1 DEF Inv, OneRequest, Is
<1>3. Outermost'  BY <1>1 DEF Inv, Outermost, Is
<1>4. WritesMark'  BY DEF WritesMark
<1>5. LocksMark'  BY DEF LocksMark, Is
<1>6. Fresh'  BY DEF Fresh
<1> QED  BY <1>2, <1>3, <1>4, <1>5, <1>6 DEF Inv

\* The innermost transaction is no request, and no request is inside it.
LEMMA TopFacts ==
    ASSUME Typed, TopIs("atomic")
    PROVE  /\ DOMAIN frames \subseteq Nat /\ InAtomic
           /\ \E n \in DOMAIN frames :
                  /\ Top = frames[n] /\ frames[n].kind = "atomic"
                  /\ \A i \in DOMAIN frames : ~(n < i)
<1>1. frames \in Seq(Frames) /\ frames # << >> /\ Top.kind = "atomic"
  BY DEF Typed, TopIs
<1>2. DOMAIN frames = 1 .. Len(frames) /\ Len(frames) \in Nat \ {0}
  BY <1>1, LenProperties, Popped
<1>3. \A n \in Nat \ {0} : n \in 1 .. n /\ 1 .. n \subseteq Nat
                          /\ \A i \in 1 .. n : ~(n < i)
  OBVIOUS
<1>4. /\ Len(frames) \in DOMAIN frames /\ DOMAIN frames \subseteq Nat
      /\ \A i \in DOMAIN frames : ~(Len(frames) < i)
      /\ Top = frames[Len(frames)]
  BY <1>2, <1>3 DEF Top
<1>5. InAtomic  BY <1>1, <1>4 DEF InAtomic, InBlock
<1> QED  BY <1>1, <1>4, <1>5

\* A lifecycle call writes and invalidates in one step of the request.
LEMMA TransitionKeepsInv ==
    ASSUME Inv, NEW u \in Users, Transition(u)
    PROVE  Inv'
<1>1. /\ Typed /\ Fresh /\ TopIs("atomic") /\ Write({u}) /\ Forget({u})
      /\ dirty' = (dirty \/ InAtomic) /\ hooks' = hooks \cup {u} /\ frames' = frames
      /\ {u} \in SUBSET Keys
  BY DEF Inv, Transition, Invalidate, Keys
<1>2. InAtomic /\ dirty'  BY <1>1, TopFacts
<1>3. /\ store' \in {<< >>} \cup {<<m>> : m \in Memos}
      /\ store' # << >> <=> store # << >>
  BY <1>1, ForgetFacts
<1>4. /\ committed' \in [Keys -> 0..MaxVersion] /\ pending' \in Memos
      /\ last' \in 0..MaxVersion /\ current' \in [Keys -> SUBSET (0..MaxVersion)]
      /\ \A k \in Keys : View'[k] \in current'[k]
  BY <1>1, WriteFacts
<1>5. Typed'
  <2>1. dirty' \in BOOLEAN  BY <1>1
  <2> QED  BY <1>1, <1>3, <1>4, <2>1 DEF Typed
<1>6. \A i, j \in DOMAIN frames :
          (/\ Is(i, "atomic") /\ frames'[i].stage \in {"locked", "written"}
           /\ i < j /\ Is(j, "request")) => frames[j].dirty
  BY <1>1 DEF Inv, LocksMark
<1> QED  BY <1>1, <1>2, <1>3, <1>4, <1>5, <1>6, MarkedStep

\* Locking a role's row forgets every key and marks the transaction.
LEMMA LockRoleKeepsInv ==
    ASSUME Inv, LockRole
    PROVE  Inv'
<1>1. /\ Typed /\ TopIs("atomic") /\ SetStage("locked", {}) /\ Forget(Keys)
      /\ dirty' = (dirty \/ InAtomic) /\ UNCHANGED <<database, current>>
      /\ UNCHANGED <<committed, pending, hooks, last>>
  BY DEF Inv, LockRole, Invalidate, database
<1>2. InAtomic /\ dirty' /\ DOMAIN frames \subseteq Nat  BY <1>1, TopFacts
<1>3. /\ store' \in {<< >>} \cup {<<m>> : m \in Memos}
      /\ store' # << >> <=> store # << >>
  BY <1>1, ForgetFacts
<1>4. PICK n \in DOMAIN frames :
          /\ DOMAIN frames' = DOMAIN frames /\ Top = frames[n]
          /\ frames'[n].kind = "atomic" /\ frames'[n].pending = frames[n].pending
          /\ frames'[n].hooks = frames[n].hooks /\ frames'[n].stage = "locked"
          /\ \A i \in DOMAIN frames \ {n} : frames'[i] = frames[i] /\ i < n
  BY <1>1, StageFacts
<1>5. frames' \in Seq(Frames) /\ Len(frames') <= MaxDepth  BY <1>1, StageFacts
<1>6. Typed'
  <2>1. dirty' \in BOOLEAN  BY <1>1
  <2> QED  BY <1>1, <1>3, <1>5, <2>1 DEF Typed
<1>7. frames[n].kind = "atomic"  BY <1>1, <1>4 DEF TopIs
<1>8. \A k \in Keys : View'[k] \in current'[k]
  BY <1>1, SameView DEF Inv, Fresh
<1>9. \A i, j \in DOMAIN frames :
          (/\ Is(i, "atomic") /\ frames'[i].stage \in {"locked", "written"}
           /\ i < j /\ Is(j, "request")) => frames[j].dirty
  BY <1>2, <1>4, <1>7 DEF Inv, LocksMark, Is
<1> QED  BY <1>2, <1>3, <1>4, <1>6, <1>7, <1>8, <1>9, MarkedStep

\* A write under the lock comes in a marked transaction, whose checks leave the memo alone.
LEMMA WriteLockedKeepsInv ==
    ASSUME Inv, NEW K \in SUBSET Keys, WriteLocked(K)
    PROVE  Inv'
<1>1. /\ Typed /\ Fresh /\ TopIs("atomic") /\ Top.stage = "locked" /\ Write(K)
      /\ SetStage("written", K) /\ UNCHANGED <<hooks, store, dirty>>
  BY DEF Inv, WriteLocked
<1>2. InAtomic /\ DOMAIN frames \subseteq Nat  BY <1>1, TopFacts
<1>3. PICK n \in DOMAIN frames :
          /\ DOMAIN frames' = DOMAIN frames /\ Top = frames[n]
          /\ frames'[n].kind = "atomic" /\ frames'[n].pending = frames[n].pending
          /\ frames'[n].hooks = frames[n].hooks /\ frames'[n].stage = "written"
          /\ \A i \in DOMAIN frames \ {n} : frames'[i] = frames[i] /\ i < n
  BY <1>1, StageFacts
<1>4. frames[n].kind = "atomic" /\ frames[n].stage = "locked"
  BY <1>1, <1>3 DEF TopIs
<1>5. dirty
  <2>1. \A j \in DOMAIN frames : ~(n < j)  BY <1>2, <1>3
  <2> QED  BY <1>4, <2>1 DEF Inv, LocksMark, Is
<1>6. frames' \in Seq(Frames) /\ Len(frames') <= MaxDepth  BY <1>1, StageFacts
<1>7. /\ committed' \in [Keys -> 0..MaxVersion] /\ pending' \in Memos
      /\ last' \in 0..MaxVersion /\ current' \in [Keys -> SUBSET (0..MaxVersion)]
      /\ \A k \in Keys : View'[k] \in current'[k]
  BY <1>1, WriteFacts
<1>8. Typed'  BY <1>1, <1>6, <1>7 DEF Typed
<1>9. \A i, j \in DOMAIN frames :
          (/\ Is(i, "atomic") /\ frames'[i].stage \in {"locked", "written"}
           /\ i < j /\ Is(j, "request")) => frames[j].dirty
  BY <1>2, <1>3, <1>4 DEF Inv, LocksMark, Is
<1> QED  BY <1>1, <1>2, <1>3, <1>4, <1>5, <1>7, <1>8, <1>9, MarkedStep

\* Invalidation forgets the keys the call wrote.
LEMMA InvalidateWrittenKeepsInv ==
    ASSUME Inv, NEW callback \in BOOLEAN, InvalidateWritten(callback)
    PROVE  Inv'
<1>1. /\ Typed /\ TopIs("atomic") /\ SetStage("open", {}) /\ Forget(Top.edit)
      /\ dirty' = (dirty \/ InAtomic)
      /\ hooks' = (IF callback THEN hooks \cup Top.edit ELSE hooks)
      /\ UNCHANGED <<committed, pending, last, current>>
  BY DEF Inv, InvalidateWritten, Invalidate
<1>2. InAtomic /\ dirty' /\ DOMAIN frames \subseteq Nat  BY <1>1, TopFacts
<1>3. /\ store' \in {<< >>} \cup {<<m>> : m \in Memos}
      /\ store' # << >> <=> store # << >>
  BY <1>1, ForgetFacts
<1>4. PICK n \in DOMAIN frames :
          /\ DOMAIN frames' = DOMAIN frames /\ Top = frames[n]
          /\ frames'[n].kind = "atomic" /\ frames'[n].pending = frames[n].pending
          /\ frames'[n].hooks = frames[n].hooks /\ frames'[n].stage = "open"
          /\ \A i \in DOMAIN frames \ {n} : frames'[i] = frames[i] /\ i < n
  BY <1>1, StageFacts
<1>5. frames' \in Seq(Frames) /\ Len(frames') <= MaxDepth  BY <1>1, StageFacts
<1>6. frames[n].kind = "atomic"  BY <1>1, <1>4 DEF TopIs
<1>7. hooks' \subseteq Keys
  <2>1. frames \in Seq(Frames) /\ frames # << >>  BY <1>1 DEF Typed, TopIs
  <2>2. Top \in Frames  BY <2>1, Popped DEF Top
  <2>3. Top.edit \in SUBSET Keys  BY <1>1, <2>2 DEF TopIs, Frames
  <2> QED  BY <1>1, <2>3 DEF Typed
<1>8. Typed'
  <2>1. dirty' \in BOOLEAN  BY <1>1
  <2> QED  BY <1>1, <1>3, <1>5, <1>7, <2>1 DEF Typed
<1>9. \A k \in Keys : View'[k] \in current'[k]
  BY <1>1, SameView DEF Inv, Fresh
<1>10. \A i, j \in DOMAIN frames :
          (/\ Is(i, "atomic") /\ frames'[i].stage \in {"locked", "written"}
           /\ i < j /\ Is(j, "request")) => frames[j].dirty
  BY <1>2, <1>4, <1>6 DEF Inv, LocksMark, Is
<1> QED  BY <1>2, <1>3, <1>4, <1>6, <1>8, <1>9, <1>10, MarkedStep

\* A check answers from the memo, or fills it from the present view.
LEMMA CheckKeepsInv ==
    ASSUME Inv, NEW k \in Keys, Check(k)
    PROVE  Inv'
<1>1. /\ Typed /\ dirty' = (dirty /\ InAtomic)
      /\ UNCHANGED <<committed, pending, hooks, last, frames, current>>
      /\ store' = IF Usable THEN <<Over(Memo, [j \in {k} |-> View[k]])>> ELSE store
  BY DEF Inv, Check, database
<1> DEFINE f == [j \in {k} |-> View[k]]
<1>2. f \in Memos /\ DOMAIN f = {k} /\ f[k] = View[k]
  <2>1. f \in [{k} -> 0..MaxVersion]  BY <1>1, ViewFacts
  <2> QED  BY <2>1, MemoIs
<1> HIDE DEF f
<1>3. Usable => /\ Memo \in Memos
                /\ ~dirty => Memo = store[1]
                /\ dirty => Memo = Nothing /\ ~InAtomic
  BY <1>1, NoMemo DEF Usable, Memo, Typed
<1>4. Usable => /\ store' = <<Over(Memo, f)>> /\ Over(Memo, f) \in Memos
  BY <1>1, <1>2, <1>3, OverMemos DEF f
<1>5. ~Usable => store' = store  BY <1>1
<1>6. /\ store' \in {<< >>} \cup {<<m>> : m \in Memos}
      /\ store' # << >> <=> store # << >>
  BY <1>1, <1>4, <1>5 DEF Usable, Typed
<1>7. Typed'
  <2>1. dirty' \in BOOLEAN  BY <1>1
  <2> QED  BY <1>1, <1>6, <2>1 DEF Typed
<1>8. OneRequest'  BY <1>1, <1>6 DEF Inv, OneRequest, Is
<1>9. Outermost'  BY <1>1 DEF Inv, Outermost, Is, InAtomic
<1>10. \A i \in DOMAIN frames : Is(i, "atomic") => InAtomic
  BY DEF Is, InAtomic, InBlock
<1>11. WritesMark'  BY <1>1, <1>10 DEF Inv, WritesMark, Is
<1>12. LocksMark'  BY <1>1, <1>10 DEF Inv, LocksMark, Is
<1>13. Fresh'
  <2>1. View' = View  BY <1>1, SameView
  <2>2. View[k] \in current[k]  BY DEF Inv, Fresh
  <2>3. ASSUME store' # << >>, ~dirty', NEW j \in DOMAIN store'[1]
        PROVE  store'[1][j] \in current'[j]
    <3>1. Usable  BY <1>1, <1>6, <2>3 DEF Usable
    <3>2. store'[1] = Over(Memo, f)  BY <1>4, <3>1
    <3>3. /\ DOMAIN Over(Memo, f) = DOMAIN Memo \cup DOMAIN f
          /\ Over(Memo, f)[j] = IF j \in DOMAIN Memo THEN Memo[j] ELSE f[j]
      <4>1. j \in DOMAIN Over(Memo, f)  BY <2>3, <3>2
      <4> QED  BY <4>1 DEF Over
    <3>4. CASE j \in DOMAIN Memo
      <4>1. ~dirty  BY <1>3, <3>1, <3>4, NoMemo
      <4>2. Memo = store[1] /\ store # << >>  BY <1>3, <3>1, <4>1 DEF Usable
      <4>3. store[1][j] \in current[j]  BY <3>4, <4>1, <4>2 DEF Inv, Fresh
      <4> QED  BY <1>1, <3>2, <3>3, <3>4, <4>2, <4>3
    <3>5. CASE j \notin DOMAIN Memo
      <4>1. j = k  BY <1>2, <2>3, <3>2, <3>3, <3>5
      <4> QED  BY <1>1, <1>2, <2>2, <3>2, <3>3, <3>5, <4>1
    <3> QED  BY <3>4, <3>5
  <2> QED  BY <1>1, <2>1, <2>3 DEF Inv, Fresh
<1> QED  BY <1>7, <1>8, <1>9, <1>11, <1>12, <1>13 DEF Inv

\* A foreign commit adds to what the request may have seen.
LEMMA ForeignKeepsInv ==
    ASSUME Inv, NEW k \in Keys, Foreign(k)
    PROVE  Inv'
<1>1. /\ Typed /\ k \notin DOMAIN pending /\ last < MaxVersion /\ last' = last + 1
      /\ committed' = [committed EXCEPT ![k] = last']
      /\ current' = [current EXCEPT ![k] = current[k] \cup {last'}]
      /\ UNCHANGED <<pending, hooks, frames, store, dirty>>
  BY DEF Inv, Foreign
<1>2. last' \in 0..MaxVersion  BY <1>1, BoundAssumption DEF Typed
<1>3. Typed'  BY <1>1, <1>2 DEF Typed
<1>4. OneRequest'  BY <1>1 DEF Inv, OneRequest, Is
<1>5. Outermost'  BY <1>1 DEF Inv, Outermost, Is, InAtomic
<1>6. WritesMark'  BY <1>1 DEF Inv, WritesMark, Is
<1>7. LocksMark'  BY <1>1 DEF Inv, LocksMark, Is
<1>8. Fresh'
  <2>1. \A j \in Keys : current[j] \subseteq current'[j]  BY <1>1 DEF Typed
  <2>2. ASSUME NEW j \in Keys  PROVE View'[j] \in current'[j]
    <3>1. DOMAIN pending' \in SUBSET Keys /\ DOMAIN committed' = Keys
      BY <1>3, MemoFacts DEF Typed
    <3>2. View'[j] = IF j \in DOMAIN pending' THEN pending'[j] ELSE committed'[j]
      BY <3>1 DEF View, Over
    <3>3. View[j] = IF j \in DOMAIN pending THEN pending[j] ELSE committed[j]
      BY <1>1, ViewFacts
    <3>4. View[j] \in current[j]  BY DEF Inv, Fresh
    <3> QED  BY <1>1, <2>1, <3>2, <3>3, <3>4 DEF Typed
  <2>3. store # << >> => DOMAIN store[1] \in SUBSET Keys
    BY <1>1, MemoFacts DEF Typed
  <2> QED  BY <1>1, <2>1, <2>2, <2>3 DEF Inv, Fresh
<1> QED  BY <1>3, <1>4, <1>5, <1>6, <1>7, <1>8 DEF Inv

(***************************************************************************)
(* Theorems.                                                               *)
(***************************************************************************)
LEMMA InitInv == Init => Inv
<1> SUFFICES ASSUME Init  PROVE Inv
    OBVIOUS
<1>1. /\ frames = << >> /\ DOMAIN frames = {} /\ frames \in Seq(Frames) /\ Len(frames) = 0
  BY EmptySeq DEF Init
<1>2. Typed
  BY <1>1, NoMemo, BoundAssumption DEF Init, Typed
<1>3. OneRequest /\ Outermost /\ WritesMark /\ LocksMark
  BY <1>1 DEF Init, OneRequest, Outermost, WritesMark, LocksMark, InBlock
<1>4. Fresh
  BY <1>2, NoMemo, ViewFacts DEF Init, Fresh
<1> QED  BY <1>2, <1>3, <1>4 DEF Inv

\* Every step keeps the invariant.
LEMMA StepKeepsInv == Inv /\ [Next]_vars => Inv'
<1> SUFFICES ASSUME Inv, [Next]_vars  PROVE Inv'
    OBVIOUS
<1>1. CASE UNCHANGED vars
  BY <1>1 DEF vars, database, Inv, Typed, OneRequest, Outermost, WritesMark, LocksMark,
              Fresh, Is, InAtomic, InBlock, View
<1>2. CASE Next
  <2>1. \A u \in Users : {u} \in SUBSET Keys  BY DEF Keys
  <2> QED
    BY <1>2, <2>1, EnterRequestKeepsInv, NestedKeepsInv, LeaveRequestKeepsInv,
       EnterAtomicKeepsInv, CommitKeepsInv, RollbackKeepsInv, LockRoleKeepsInv,
       TransitionKeepsInv, WriteLockedKeepsInv, InvalidateWrittenKeepsInv,
       CheckKeepsInv, ForeignKeepsInv
       DEF Next
<1> QED  BY <1>1, <1>2

\* The invariant holds in every reachable state.
THEOREM InvHolds == Spec => []Inv
BY InitInv, StepKeepsInv, PTL DEF Spec

\* Types; a store lives exactly as long as its request, uncommitted writes
\* exactly as long as their transaction.
THEOREM CacheTyped == Spec => []TypeOK
<1>1. Inv => TypeOK  BY DEF Inv, Typed, OneRequest, Outermost, TypeOK
<1> QED  BY <1>1, InvHolds, PTL

\* cache.py, engine.py: no authorization check uses a fact this thread has
\* replaced or rolled back, or one of an earlier request.
THEOREM ChecksAreCurrent == Spec => []NoStaleAnswer
<1>1. Inv => NoStaleAnswer
  <2> SUFFICES ASSUME Inv, NEW k \in Keys  PROVE Answer(k) \in current[k]
      BY DEF NoStaleAnswer
  <2>1. View[k] \in current[k]  BY DEF Inv, Fresh
  <2>2. CASE Usable /\ k \in DOMAIN Memo
    <3>1. ~dirty  BY <2>2, NoMemo DEF Memo
    <3>2. store # << >> /\ Memo = store[1]  BY <2>2, <3>1 DEF Usable, Memo
    <3> QED  BY <2>2, <3>1, <3>2 DEF Answer, Inv, Fresh
  <2> QED  BY <2>1, <2>2 DEF Answer
<1> QED  BY <1>1, InvHolds, PTL

=============================================================================
