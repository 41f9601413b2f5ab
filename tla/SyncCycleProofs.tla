-------------------------- MODULE SyncCycleProofs --------------------------
(***************************************************************************)
(* Proofs about SyncCycle, for any number of launches, conversations,      *)
(* comments, moves and failures, for an integration synced before or not,  *)
(* and however far creation times trail the local clock.                   *)
(***************************************************************************)
EXTENDS SyncCycle, TLAPS

-----------------------------------------------------------------------------
(* Type correctness.                                                       *)

\* The initial state is well typed.
LEMMA InitTypeOK == Init => TypeOK
  BY SyncAssumption DEF Init, TypeOK

\* A change of the listings keeps the state well typed.
LEMMA MovesTypeOK ==
    ASSUME TypeOK, NEW k \in Conversations, NEW readers, Moves(k, readers),
           listed' \subseteq Conversations, reach' \in [Workers -> SUBSET Conversations]
    PROVE  TypeOK'
  BY SyncAssumption DEF TypeOK, Moves, clock

\* Every step keeps the state well typed.
LEMMA NextTypeOK == TypeOK /\ [Next]_vars => TypeOK'
<1> SUFFICES ASSUME TypeOK, [Next]_vars PROVE TypeOK'
    OBVIOUS
<1> USE SyncAssumption DEF TypeOK, clock, listing
<1>1. CASE Post
    <2>1. now' \in 0..MaxTime
        BY <1>1 DEF Post
    <2>2. posted' \subseteq Comment
        <3>1. PICK lag \in 0..MaxLag, k \in Conversations :
                /\ now + 1 - lag >= 1
                /\ posted' = posted \union {[of |-> k, at |-> now + 1, stamp |-> now + 1 - lag]}
            BY <1>1 DEF Post
        <3>2. now + 1 \in 1..MaxTime /\ now + 1 - lag \in 1..MaxTime
            BY <1>1, <3>1 DEF Post
        <3> QED BY <3>1, <3>2 DEF Comment
    <2> QED BY <1>1, <2>1, <2>2 DEF Post
<1>2. ASSUME NEW k \in Conversations, Leave(k) \/ Enter(k) \/ \E w \in Workers : Slip(w, k)
      PROVE  TypeOK'
    <2>1. CASE Leave(k)
        BY <2>1, MovesTypeOK DEF Leave
    <2>2. CASE Enter(k)
        BY <2>2, MovesTypeOK DEF Enter
    <2>3. CASE \E w \in Workers : Slip(w, k)
        BY <2>3, MovesTypeOK DEF Slip
    <2> QED BY <1>2, <2>1, <2>2, <2>3
<1>3. ASSUME NEW w \in Workers, Launch(w) PROVE TypeOK'
    BY <1>3 DEF Launch
<1>4. ASSUME NEW w \in Workers, Step(w) PROVE TypeOK'
    <2>1. CASE Begin(w)
        BY <2>1 DEF Begin
    <2>2. CASE Fetch(w)
        <3>1. PICK read \in SUBSET posted :
                /\ batch' = [batch EXCEPT ![w] = NewComments(w, read)]
                /\ pc' = [pc EXCEPT ![w] = IF NewComments(w, read) = {} THEN "mark" ELSE "upsert"]
            BY <2>2 DEF Fetch
        <3>2. NewComments(w, read) \subseteq Comment
            BY DEF NewComments
        <3> QED BY <2>2, <3>1, <3>2 DEF Fetch
    <2>3. CASE Upsert(w)
        BY <2>3 DEF Upsert, Return
    <2>4. CASE UpdateLastSyncedAt(w)
        <3>1. Unsure(w) \subseteq Comment
            BY DEF Unsure
        <3> QED BY <2>4, <3>1 DEF UpdateLastSyncedAt, Return
    <2>5. CASE Fails(w)
        BY <2>5 DEF Fails, Return
    <2>6. CASE Aborts(w)
        BY <2>6 DEF Aborts, Return
    <2> QED BY <1>4, <2>1, <2>2, <2>3, <2>4, <2>5, <2>6 DEF Step
<1>5. CASE UNCHANGED vars
    BY <1>5 DEF vars
<1> QED BY <1>1, <1>2, <1>3, <1>4, <1>5 DEF Next

(***************************************************************************)
(* The sync cycle's state is always well typed.                            *)
(***************************************************************************)
THEOREM TypeCorrect == Spec => []TypeOK
  BY InitTypeOK, NextTypeOK, PTL DEF Spec

-----------------------------------------------------------------------------
(* No comment is passed over without a cause of its own.                   *)

(***************************************************************************)
(* NoneSkipped alone is not inductive.  The argument follows a time from   *)
(* where it is captured to where it is stored: syncStartedAt is noted      *)
(* before the fetch, so at the upsert the batch, with what was shown       *)
(* before and what the cycle was not sure of, holds every comment up to    *)
(* it; the base a goroutine captured was a mark once; and a comment        *)
(* written later has a later time.                                         *)
(***************************************************************************)

\* Every comment up to time t that is not late is shown, missed, or in s.
ShownUpTo(t, s) ==
    \A c \in posted : ~Late(c) /\ c.stamp <= t => c \in shown \union missed \union s

Times ==
    /\ \A c \in posted : c.stamp <= c.at /\ c.at <= now
    /\ mark # Nil => mark <= now
    /\ \A w \in Workers : began[w] <= now
    /\ \A w \in Workers : base[w] # Nil => base[w] <= now

Owing ==
    /\ mark # Nil => ShownUpTo(mark, {})
    /\ \A w \in Workers :
         /\ batch[w] \subseteq posted
         /\ base[w] # Nil => ShownUpTo(base[w], {})
         /\ pc[w] = "upsert" => ShownUpTo(began[w], batch[w] \union Unsure(w))
         /\ pc[w] = "mark" => ShownUpTo(began[w], Unsure(w))

DeliveryInv == TypeOK /\ Times /\ Owing

\* It holds at first: there are no comments.
LEMMA InitDelivery == Init => DeliveryInv
  BY InitTypeOK, SyncAssumption DEF Init, DeliveryInv, Times, Owing, ShownUpTo

\* What is known of a comment's times.
LEMMA CommentTimes ==
    ASSUME DeliveryInv, NEW c \in posted
    PROVE  c.at \in Nat /\ c.stamp \in Nat /\ c.of \in Conversations
  BY SyncAssumption DEF DeliveryInv, TypeOK, Comment

\* A new comment's time lies after every time captured so far; its creation
\* time, when it lies elsewhere, makes it a late one.
LEMMA PostKeepsDelivery ==
    ASSUME DeliveryInv, TypeOK', Post PROVE DeliveryInv'
<1> USE DEF DeliveryInv, TypeOK, clock, listing
<1>1. PICK lag \in 0..MaxLag, k \in Conversations :
        posted' = posted \union {[of |-> k, at |-> now + 1, stamp |-> now + 1 - lag]}
    BY DEF Post
<1>2. DEFINE c0 == [of |-> k, at |-> now + 1, stamp |-> now + 1 - lag]
<1>3. now' = now + 1 /\ UNCHANGED <<shown, mark, pc, base, began, batch, sure, missed>>
    BY DEF Post
<1>4. c0.at = now + 1 /\ c0.stamp <= now + 1 /\ (~Late(c0) => c0.stamp = now + 1)
    BY SyncAssumption DEF Late
<1>5. posted' = posted \union {c0}
    BY <1>1
<1> HIDE DEF c0
<1>6. Times'
    <2>1. \A c \in posted' : c.stamp <= c.at /\ c.at <= now'
        <3>1. \A c \in posted : c.stamp <= c.at /\ c.at <= now + 1
            BY DEF Times, Comment
        <3> QED BY <1>3, <1>4, <1>5, <3>1
    <2>2. \A w \in Workers : began'[w] <= now'
        BY <1>3 DEF Times
    <2>3. mark' # Nil => mark' <= now'
        BY <1>3, SyncAssumption DEF Times
    <2>4. \A w \in Workers : base'[w] # Nil => base'[w] <= now'
        BY <1>3, SyncAssumption DEF Times
    <2> QED BY <2>1, <2>2, <2>3, <2>4 DEF Times
<1>7. Owing'
    <2>1. ASSUME NEW t \in Nat, t <= now, NEW s, NEW s2, s \subseteq s2, ShownUpTo(t, s)
          PROVE  \A c \in posted' : ~Late(c) /\ c.stamp <= t =>
                    c \in shown' \union missed' \union s2
        BY <1>3, <1>4, <1>5, <2>1 DEF ShownUpTo
    <2>2. mark' # Nil => ShownUpTo(mark, {})'
        BY <1>3, <2>1 DEF Times, Owing, ShownUpTo
    <2>3. ASSUME NEW w \in Workers
          PROVE  /\ batch'[w] \subseteq posted'
                 /\ base'[w] # Nil => ShownUpTo(base[w], {})'
                 /\ pc'[w] = "upsert" => ShownUpTo(began[w], batch[w] \union Unsure(w))'
                 /\ pc'[w] = "mark" => ShownUpTo(began[w], Unsure(w))'
        <3>1. Unsure(w) \subseteq Unsure(w)'
            BY <1>3, <1>5 DEF Unsure
        <3>2. base'[w] # Nil => ShownUpTo(base[w], {})'
            BY <1>3, <2>1 DEF Times, Owing, ShownUpTo
        <3>3. pc'[w] = "upsert" => ShownUpTo(began[w], batch[w] \union Unsure(w))'
            BY <1>3, <2>1, <3>1 DEF Times, Owing, ShownUpTo
        <3>4. pc'[w] = "mark" => ShownUpTo(began[w], Unsure(w))'
            BY <1>3, <2>1, <3>1 DEF Times, Owing, ShownUpTo
        <3> QED BY <1>3, <1>5, <3>2, <3>3, <3>4 DEF Owing
    <2> QED BY <2>2, <2>3 DEF Owing
<1> QED BY <1>6, <1>7

\* Once a Fetch is over, what its cycle was sure of does not change any more.
LEMMA ListingKeepsDelivery ==
    ASSUME DeliveryInv, TypeOK', NEW k \in Conversations,
           Leave(k) \/ Enter(k) \/ \E w \in Workers : Slip(w, k)
    PROVE  DeliveryInv'
<1> USE DEF DeliveryInv, TypeOK
<1>1. UNCHANGED <<now, posted, shown, mark, pc, base, began, batch, missed>>
    BY DEF Leave, Enter, Slip, Moves, clock
<1>2. \A w \in Workers : pc[w] # "fetch" => sure'[w] = sure[w]
    BY DEF Leave, Enter, Slip, Moves, Reading
<1>3. \A w \in Workers : pc[w] # "fetch" => Unsure(w)' = Unsure(w)
    BY <1>1, <1>2 DEF Unsure
<1>4. Times'
    BY <1>1 DEF Times
<1>5. Owing'
    BY <1>1, <1>3 DEF Owing, ShownUpTo
<1> QED BY <1>4, <1>5

\* A launch captures the mark, up to which everything is shown or missed.
LEMMA LaunchKeepsDelivery ==
    ASSUME DeliveryInv, TypeOK', NEW w \in Workers, Launch(w) PROVE DeliveryInv'
<1> USE DEF DeliveryInv, TypeOK
<1>1. /\ UNCHANGED <<now, posted, shown, mark, began, batch, sure, missed>>
      /\ pc[w] = "new" /\ pc' = [pc EXCEPT ![w] = "idle"]
      /\ base' = [base EXCEPT ![w] = mark]
    BY DEF Launch, clock
<1>2. Times'
    BY <1>1 DEF Times
<1>3. \A v \in Workers : v # w => Unsure(v)' = Unsure(v)
    BY <1>1 DEF Unsure
<1>4. Owing'
    BY <1>1, <1>3 DEF Owing, ShownUpTo
<1> QED BY <1>2, <1>4

\* A Fetch returns every comment after the base up to the start of the cycle
\* that it was sure of.
LEMMA FetchKeepsDelivery ==
    ASSUME DeliveryInv, TypeOK', NEW w \in Workers, Fetch(w) PROVE DeliveryInv'
<1> USE DEF DeliveryInv, TypeOK
<1>1. PICK read \in SUBSET posted :
        /\ {c \in posted : c.at <= began[w] /\ c.of \in sure[w]} \subseteq read
        /\ batch' = [batch EXCEPT ![w] = NewComments(w, read)]
        /\ pc' = [pc EXCEPT ![w] = IF NewComments(w, read) = {} THEN "mark" ELSE "upsert"]
    BY DEF Fetch
<1>2. UNCHANGED <<now, posted, shown, mark, base, began, sure, missed>> /\ pc[w] = "fetch"
    BY DEF Fetch, clock
<1>3. \A v \in Workers : Unsure(v)' = Unsure(v)
    BY <1>2 DEF Unsure
<1>4. ShownUpTo(began[w], NewComments(w, read) \union Unsure(w))
    <2> SUFFICES ASSUME NEW c \in posted, ~Late(c), c.stamp <= began[w],
                        c \notin NewComments(w, read), c \notin Unsure(w)
                 PROVE  c \in shown \union missed
        BY DEF ShownUpTo
    <2>1. c.stamp \in Nat /\ c.at \in Nat /\ c.at <= began[w] /\ began[w] \in Nat
        BY CommentTimes DEF Late, Times
    <2>2. base[w] # Nil /\ c.of \in sure[w] /\ base[w] \in Nat
        BY <2>1 DEF Unsure
    <2>3. c \in read
        BY <1>1, <2>1, <2>2
    <2>4. c.stamp <= base[w]
        BY <2>1, <2>2, <2>3 DEF NewComments
    <2> QED BY <2>2, <2>4 DEF Owing, ShownUpTo
<1>5. Times'
    BY <1>2 DEF Times
<1>6. Owing'
    <2>1. NewComments(w, read) \subseteq posted
        BY DEF NewComments
    <2>2. pc'[w] = "upsert" => ShownUpTo(began[w], batch[w] \union Unsure(w))'
        BY <1>1, <1>2, <1>3, <1>4 DEF ShownUpTo
    <2>3. pc'[w] = "mark" => ShownUpTo(began[w], Unsure(w))'
        BY <1>1, <1>2, <1>3, <1>4 DEF ShownUpTo
    <2> QED BY <1>1, <1>2, <1>3, <2>1, <2>2, <2>3 DEF Owing, ShownUpTo
<1> QED BY <1>5, <1>6

\* The end of a cycle, with or without its last effect, in terms of the others.
LEMMA OthersKeep ==
    ASSUME DeliveryInv, NEW w \in Workers, Return(w),
           UNCHANGED <<posted, base>>,
           shown \subseteq shown', missed \subseteq missed'
    PROVE  \A v \in Workers :
             /\ batch'[v] \subseteq posted'
             /\ base'[v] # Nil => ShownUpTo(base[v], {})'
             /\ pc'[v] = "upsert" => ShownUpTo(began[v], batch[v] \union Unsure(v))'
             /\ pc'[v] = "mark" => ShownUpTo(began[v], Unsure(v))'
<1> USE DEF DeliveryInv, TypeOK
<1>1. ASSUME NEW v \in Workers
      PROVE  batch'[v] \subseteq posted' /\ (base'[v] # Nil => ShownUpTo(base[v], {})')
    BY DEF Return, Owing, ShownUpTo
<1>2. ASSUME NEW v \in Workers, v # w
      PROVE  /\ pc'[v] = "upsert" => ShownUpTo(began[v], batch[v] \union Unsure(v))'
             /\ pc'[v] = "mark" => ShownUpTo(began[v], Unsure(v))'
    <2>1. /\ pc'[v] = pc[v] /\ began'[v] = began[v]
          /\ batch'[v] = batch[v] /\ sure'[v] = sure[v]
        BY <1>2 DEF Return
    <2>2. Unsure(v)' = Unsure(v)
        BY <2>1 DEF Unsure
    <2> QED BY <2>1, <2>2 DEF Owing, ShownUpTo
<1>3. pc'[w] = "idle"
    BY DEF Return
<1> QED BY <1>1, <1>2, <1>3

\* The other steps of a cycle.
LEMMA StepKeepsDelivery ==
    ASSUME DeliveryInv, TypeOK', NEW w \in Workers, Step(w) PROVE DeliveryInv'
<1> USE DEF DeliveryInv, TypeOK, clock
<1>1. CASE Begin(w)
    <2>1. /\ UNCHANGED <<now, posted, shown, mark, base, batch, missed>>
          /\ pc' = [pc EXCEPT ![w] = "fetch"] /\ began' = [began EXCEPT ![w] = now]
          /\ \A v \in Workers : v # w => sure'[v] = sure[v]
        BY <1>1 DEF Begin
    <2>2. \A v \in Workers : v # w => Unsure(v)' = Unsure(v)
        BY <2>1 DEF Unsure
    <2>3. Times'
        BY <2>1 DEF Times
    <2>4. Owing'
        BY <2>1, <2>2 DEF Owing, ShownUpTo
    <2> QED BY <2>3, <2>4
<1>2. CASE Fetch(w)
    BY <1>2, FetchKeepsDelivery
<1>3. CASE Upsert(w)
    <2>1. shown' = shown \union batch[w] /\ UNCHANGED <<now, posted, mark, base, missed>>
        BY <1>3 DEF Upsert
    <2>2. Times'
        BY <1>3, <2>1, SyncAssumption DEF Upsert, Return, Times
    <2>3. mark' # Nil => ShownUpTo(mark, {})'
        BY <2>1 DEF Owing, ShownUpTo
    <2>4. CASE Return(w)
        BY <2>1, <2>2, <2>3, <2>4, OthersKeep DEF Owing
    <2>5. CASE pc' = [pc EXCEPT ![w] = "mark"] /\ UNCHANGED <<began, batch, sure>>
        <3>1. \A v \in Workers : Unsure(v)' = Unsure(v)
            BY <2>1, <2>5 DEF Unsure
        <3>2. ShownUpTo(began[w], batch[w] \union Unsure(w))
            BY <1>3 DEF Upsert, Owing
        <3>3. ShownUpTo(began[w], Unsure(w))'
            BY <2>1, <2>5, <3>1, <3>2 DEF ShownUpTo
        <3>4. ASSUME NEW v \in Workers
              PROVE  /\ batch'[v] \subseteq posted'
                     /\ base'[v] # Nil => ShownUpTo(base[v], {})'
                     /\ pc'[v] = "upsert" => ShownUpTo(began[v], batch[v] \union Unsure(v))'
                     /\ pc'[v] = "mark" => ShownUpTo(began[v], Unsure(v))'
            BY <2>1, <2>5, <3>1, <3>3 DEF Owing, ShownUpTo
        <3> QED BY <2>2, <2>3, <3>4 DEF Owing
    <2> QED BY <1>3, <2>4, <2>5 DEF Upsert
<1>4. CASE UpdateLastSyncedAt(w)
    <2>1. /\ pc[w] = "mark" /\ mark' = began[w] /\ began[w] \in Nat
          /\ missed' = missed \union Unsure(w)
          /\ Return(w) /\ UNCHANGED <<now, posted, shown, base>>
        BY <1>4 DEF UpdateLastSyncedAt
    <2>2. Times'
        BY <2>1, SyncAssumption DEF Return, Times
    <2>3. ShownUpTo(mark, {})'
        BY <2>1 DEF Owing, ShownUpTo
    <2> QED BY <2>1, <2>2, <2>3, OthersKeep DEF Owing
<1>5. CASE Fails(w) \/ Aborts(w)
    <2>1. UNCHANGED <<now, posted, shown, mark, base, missed>> /\ Return(w)
        BY <1>5 DEF Fails, Aborts
    <2>2. Times'
        BY <2>1 DEF Return, Times
    <2>3. mark' # Nil => ShownUpTo(mark, {})'
        BY <2>1 DEF Owing, ShownUpTo
    <2> QED BY <2>1, <2>2, <2>3, OthersKeep DEF Owing
<1> QED BY <1>1, <1>2, <1>3, <1>4, <1>5 DEF Step

\* DeliveryInv is an invariant.
LEMMA DeliveryHolds == Spec => []DeliveryInv
<1>1. DeliveryInv /\ [Next]_vars => DeliveryInv'
    <2> SUFFICES ASSUME DeliveryInv, [Next]_vars PROVE DeliveryInv'
        OBVIOUS
    <2>1. TypeOK'
        BY NextTypeOK DEF DeliveryInv
    <2>2. CASE UNCHANGED vars
        BY <2>1, <2>2 DEF vars, clock, listing, DeliveryInv, Times, Owing, ShownUpTo, Unsure
    <2>3. CASE Next
        BY <2>1, <2>3, PostKeepsDelivery, ListingKeepsDelivery, LaunchKeepsDelivery,
           StepKeepsDelivery DEF Next
    <2> QED BY <2>2, <2>3
<1> QED BY InitDelivery, <1>1, PTL DEF Spec

(***************************************************************************)
(* last_synced_at never passes a comment that the feed has not shown, but  *)
(* for a late one and for one that a first sync or a slip in the listings  *)
(* kept from the very cycle that moved the mark past it: whatever fails,   *)
(* crashes, is cancelled half-way or arrives late.                         *)
(***************************************************************************)
THEOREM NoCommentLost == Spec => []NoneSkipped
<1>1. DeliveryInv => NoneSkipped
    BY DEF DeliveryInv, Owing, ShownUpTo, NoneSkipped, Passed
<1> QED BY DeliveryHolds, <1>1, PTL

-----------------------------------------------------------------------------
(* The refinement.                                                         *)

\* What a cycle is not sure of was out of sight at some time.
Sight ==
    /\ Conversations \ listed \subseteq moved
    /\ \A w \in Workers :
         pc[w] \in {"fetch", "upsert", "mark"} => Conversations \ sure[w] \subseteq moved

\* Sight is an invariant.
LEMMA SightHolds == Spec => []Sight
<1>1. Init => Sight
    BY DEF Init, Sight
<1>2. TypeOK /\ Sight /\ [Next]_vars => Sight'
    <2> SUFFICES ASSUME TypeOK, Sight, [Next]_vars PROVE Sight'
        OBVIOUS
    <2> USE DEF TypeOK, Sight, listing
    <2>1. CASE Post
        BY <2>1 DEF Post
    <2>2. ASSUME NEW k \in Conversations,
                 Leave(k) \/ Enter(k) \/ \E w \in Workers : Slip(w, k)
          PROVE  Sight'
        <3>1. /\ UNCHANGED pc /\ moved' = moved \union {k}
              /\ \A w \in Workers : sure[w] \ {k} \subseteq sure'[w]
            BY <2>2 DEF Leave, Enter, Slip, Moves
        <3>2. listed \ {k} \subseteq listed'
            BY <2>2 DEF Leave, Enter, Slip
        <3> QED BY <3>1, <3>2
    <2>3. ASSUME NEW w \in Workers, Launch(w) PROVE Sight'
        BY <2>3 DEF Launch
    <2>4. ASSUME NEW w \in Workers, Step(w) PROVE Sight'
        BY <2>4 DEF Step, Begin, Fetch, Upsert, UpdateLastSyncedAt, Fails, Aborts, Return
    <2>5. CASE UNCHANGED vars
        BY <2>5 DEF vars
    <2> QED BY <2>1, <2>2, <2>3, <2>4, <2>5 DEF Next
<1> QED BY <1>1, <1>2, TypeCorrect, PTL DEF Spec

\* A first sync can only begin while nothing was synced.
LEMMA FirstSyncBegins ==
    ASSUME TypeOK, [Next]_vars, OnFirstSync' PROVE OnFirstSync \/ mark = Nil
<1> USE DEF TypeOK
<1>1. PICK w \in Workers :
        /\ pc'[w] # "new" /\ base'[w] = Nil
        /\ w \notin cancelled' \/ pc'[w] # "idle"
    BY DEF OnFirstSync
<1>2. CASE Post \/ \E k \in Conversations :
                     Leave(k) \/ Enter(k) \/ \E v \in Workers : Slip(v, k)
    <2>1. UNCHANGED <<pc, base, cancelled>>
        BY <1>2 DEF Post, Leave, Enter, Slip, Moves
    <2> QED BY <1>1, <2>1 DEF OnFirstSync
<1>3. ASSUME NEW v \in Workers, Launch(v) PROVE OnFirstSync \/ mark = Nil
    BY <1>1, <1>3 DEF Launch, OnFirstSync
<1>4. ASSUME NEW v \in Workers, Step(v) PROVE OnFirstSync
    <2>1. UNCHANGED <<base, cancelled>>
        BY <1>4 DEF Step, Begin, Fetch, Upsert, UpdateLastSyncedAt, Fails, Aborts
    <2>2. pc[w] # "new" /\ (w \notin cancelled \/ pc[w] # "idle")
        BY <1>1, <1>4 DEF Step, Begin, Fetch, Upsert, UpdateLastSyncedAt, Fails, Aborts,
           Return, Live
    <2> QED BY <1>1, <2>1, <2>2 DEF OnFirstSync
<1>5. CASE UNCHANGED vars
    BY <1>1, <1>5 DEF vars, OnFirstSync
<1> QED BY <1>2, <1>3, <1>4, <1>5 DEF Next

\* The initial states are those of CommentFeed.
LEMMA InitImplements == Init => Abstract!Init
  BY DEF Init, Abstract!Init, OnFirstSync

\* Every step is a step of CommentFeed, or leaves it alone.
LEMMA NextImplements == ASSUME DeliveryInv, Sight, [Next]_vars PROVE Abstract!Next
<1> USE SyncAssumption DEF DeliveryInv, TypeOK, clock, listing
<1>0. OnFirstSync' => OnFirstSync \/ mark = Nil
    BY FirstSyncBegins
<1> DEFINE Same == UNCHANGED <<posted, shown, mark, missed, moved>>
<1>1. CASE Post
    <2>1. PICK lag \in 0..MaxLag, k \in Conversations :
            /\ now + 1 - lag >= 1
            /\ posted' = posted \union {[of |-> k, at |-> now + 1, stamp |-> now + 1 - lag]}
        BY <1>1 DEF Post
    <2>2. [of |-> k, at |-> now + 1, stamp |-> now + 1 - lag] \in Comment
        BY <1>1, <2>1 DEF Post, Comment
    <2>3. PICK c \in Comment : c = [of |-> k, at |-> now + 1, stamp |-> now + 1 - lag]
        BY <2>2
    <2>4. mark # Nil /\ c.stamp = c.at => c.stamp > mark
        BY <2>3 DEF Times
    <2>5. Abstract!Write(c)
        BY <1>1, <2>1, <2>3, <2>4 DEF Post, Abstract!Write, Abstract!Owed
    <2> QED BY <1>0, <2>5 DEF Abstract!Next
<1>2. ASSUME NEW k \in Conversations, Leave(k) \/ Enter(k) \/ \E w \in Workers : Slip(w, k)
      PROVE  Abstract!Next
    <2>1. Abstract!Move(k)
        BY <1>2 DEF Leave, Enter, Slip, Moves, Abstract!Move
    <2> QED BY <1>0, <2>1 DEF Abstract!Next
<1>3. ASSUME NEW w \in Workers, Launch(w) \/ Begin(w) \/ Fetch(w) \/ Fails(w) \/ Aborts(w)
      PROVE  Abstract!Next
    <2>1. Same
        BY <1>3 DEF Launch, Begin, Fetch, Fails, Aborts
    <2> QED BY <1>0, <2>1 DEF Abstract!Next
<1>4. ASSUME NEW w \in Workers, Upsert(w) PROVE Abstract!Next
    <2>1. batch[w] \in SUBSET posted
        BY DEF Owing
    <2>2. PICK s \in SUBSET posted : s = batch[w]
        BY <2>1
    <2>3. Abstract!Show(s)
        BY <1>4, <2>2 DEF Upsert, Abstract!Show
    <2> QED BY <1>0, <2>3 DEF Abstract!Next
<1>5. ASSUME NEW w \in Workers, UpdateLastSyncedAt(w) PROVE Abstract!Next
    <2>1. began[w] \in 0..MaxTime /\ Unsure(w) \in SUBSET posted
        BY DEF Times, Unsure
    <2>2. OnFirstSync \/ \A c \in Unsure(w) : c.of \in moved
        <3>1. CASE base[w] = Nil
            BY <1>5, <3>1 DEF UpdateLastSyncedAt, OnFirstSync
        <3>2. CASE base[w] # Nil
            <4>1. Conversations \ sure[w] \subseteq moved
                BY <1>5 DEF UpdateLastSyncedAt, Sight
            <4> QED BY <3>2, <4>1, CommentTimes DEF Unsure
        <3> QED BY <3>1, <3>2
    <2>3. \A c \in posted : c.stamp = c.at /\ c.stamp <= began[w] =>
             c \in shown \union missed \union Unsure(w)
        <3>1. \A c \in posted : c.stamp = c.at => ~Late(c)
            BY CommentTimes DEF Late
        <3> QED BY <1>5, <3>1 DEF UpdateLastSyncedAt, Owing, ShownUpTo
    <2>4. PICK t \in 0..MaxTime : t = began[w]
        BY <2>1
    <2>5. PICK s \in SUBSET posted : s = Unsure(w)
        BY <2>1
    <2>6. Abstract!Advance(t, s)
        BY <1>5, <2>2, <2>3, <2>4, <2>5
           DEF UpdateLastSyncedAt, Abstract!Advance, Abstract!Owed
    <2> QED BY <1>0, <2>6 DEF Abstract!Next
<1>6. CASE UNCHANGED vars
    BY <1>0, <1>6 DEF vars, Abstract!Next
<1> QED BY <1>1, <1>2, <1>3, <1>4, <1>5, <1>6 DEF Next, Step

(***************************************************************************)
(* The sync cycle implements CommentFeed: the mark moves past a comment    *)
(* with the right time only when the feed has shown it, or gives it up     *)
(* for one of the two causes, a first sync or a conversation that was out  *)
(* of sight at some time.                                                  *)
(***************************************************************************)
THEOREM SyncImplementsFeed == Spec => ImplementsFeed
<1>1. DeliveryInv /\ Sight /\ [Next]_vars => Abstract!Next
    BY NextImplements
<1> QED BY <1>1, InitImplements, DeliveryHolds, SightHolds, PTL
        DEF Spec, ImplementsFeed, Abstract!Spec
=============================================================================
