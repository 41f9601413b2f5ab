----------------------------- MODULE SyncCycle -----------------------------
(***************************************************************************)
(* The sync cycle of one integration (internal/app/worker.go) as the poll  *)
(* goroutines of internal/app/scheduler.go run it, followed for one kind   *)
(* of item: comments by others on my pull requests, or on Jira issues I    *)
(* have commented on.  Both fetchers report the comments created after     *)
(* integration.LastSyncedAt, a value the goroutine captured when it was    *)
(* launched, and none when it is nil ("first sync").                       *)
(*                                                                         *)
(* A fetcher reaches a comment only through its conversation, the pull     *)
(* request or issue it is on, and that only through a listing that is read *)
(* page by page, by number or offset.  Conversations come and go, and when *)
(* an entry leaves a listing between two pages, one that follows slips     *)
(* past the reader (GitHubItems and JiraItems follow the pages one by one; *)
(* here the reader loses sight of a conversation).                         *)
(*                                                                         *)
(* A launch stands for Reload, a manual sync or a restart of the process:  *)
(* it cancels the goroutine before it and captures last_synced_at.  A      *)
(* database call that a cancelled goroutine had begun may still take       *)
(* effect, in any order with the calls of its successor.                   *)
(*                                                                         *)
(* The clock advances when a comment is written, so a comment's time tells *)
(* it from every other event.  Other items do not depend on the mark.      *)
(***************************************************************************)
EXTENDS Integers, FiniteSets

CONSTANTS
    Workers,        \* the launches of a poll goroutine, numbered as they come
    Conversations,  \* the pull requests or issues that others comment on
    Nil,            \* last_synced_at of an integration that was never synced
    MaxLag,         \* how far a comment's creation time may trail the local clock
    MaxTime,        \* bound: the number of comments
    MaxFailures,    \* bound: the errors of the API and of the database
    MaxMoves        \* bound: the changes of the listings

ASSUME SyncAssumption ==
    /\ MaxLag \in Nat /\ MaxTime \in Nat /\ MaxFailures \in Nat /\ MaxMoves \in Nat
    /\ Nil \notin Int
    /\ Workers \subseteq Int

VARIABLES
    now,        \* the local clock
    posted,     \* comments by others: conversation, local time and CreatedAt
    shown,      \* the comments an upsert has brought to the items table
    mark,       \* integrations.last_synced_at
    pc,         \* where each goroutine is in RunOnce
    base,       \* the LastSyncedAt each goroutine captured
    began,      \* syncStartedAt of its current cycle
    batch,      \* the comments its Fetch returned
    cancelled,  \* the goroutines whose context is done
    failures,   \* errors so far
    listed,     \* the conversations listed now in which the user takes part
    moves,      \* changes of the listings so far
    sure,       \* the conversations a goroutine's Fetch cannot miss
    reach,      \* those it may read
    moved,      \* history: the conversations that were ever out of a Fetch's sight
    missed      \* history: the comments the mark passed while a cycle was not sure of them

clock == <<now, posted>>
listing == <<listed, moves, moved>>
vars == <<clock, shown, mark, pc, base, began, batch, cancelled, failures,
          listing, sure, reach, missed>>

Comment == [of : Conversations, at : 1..MaxTime, stamp : 1..MaxTime]
Live(w) == pc[w] # "new" /\ w \notin cancelled

-----------------------------------------------------------------------------

\* The integration was never synced, or last before all that is written here.
Init ==
    /\ now = 0
    /\ posted = {}
    /\ shown = {}
    /\ mark \in {Nil, 0}
    /\ pc = [w \in Workers |-> "new"]
    /\ base = [w \in Workers |-> Nil]
    /\ began = [w \in Workers |-> 0]
    /\ batch = [w \in Workers |-> {}]
    /\ cancelled = {}
    /\ failures = 0
    /\ listed \in SUBSET Conversations
    /\ moves = 0
    /\ sure = [w \in Workers |-> {}]
    /\ reach = [w \in Workers |-> {}]
    /\ moved = Conversations \ listed
    /\ missed = {}

\* Somebody writes a comment.  The server's clock, or the whole seconds it
\* keeps, may put its creation time up to MaxLag behind the local clock.
Post ==
    /\ now < MaxTime
    /\ now' = now + 1
    /\ \E lag \in 0..MaxLag, k \in Conversations :
         /\ now + 1 - lag >= 1
         /\ posted' = posted \union {[of |-> k, at |-> now + 1, stamp |-> now + 1 - lag]}
    /\ UNCHANGED <<shown, mark, pc, base, began, batch, cancelled, failures,
                   listing, sure, reach, missed>>

\* Something happens to conversation k, and the reading goroutines `readers`
\* may miss it from then on.
Moves(k, readers) ==
    /\ moves < MaxMoves
    /\ moves' = moves + 1
    /\ moved' = moved \union {k}
    /\ sure' = [w \in Workers |-> IF w \in readers THEN sure[w] \ {k} ELSE sure[w]]
    /\ UNCHANGED <<clock, shown, mark, pc, base, began, batch, cancelled, failures, missed>>

Reading == {w \in Workers : pc[w] = "fetch"}

\* A pull request is closed, an issue leaves its sprint, a space is removed.
Leave(k) ==
    /\ k \in listed
    /\ listed' = listed \ {k}
    /\ Moves(k, Reading)
    /\ UNCHANGED reach

\* It comes back, or the user's first comment makes it one of the user's.
Enter(k) ==
    /\ k \notin listed
    /\ listed' = listed \union {k}
    /\ reach' = [w \in Workers |-> IF w \in Reading THEN reach[w] \union {k} ELSE reach[w]]
    /\ Moves(k, {})

\* Something before k in the listing, or before k's newest comment among its
\* comments, goes between two pages: what followed slips past a reader.
Slip(w, k) ==
    /\ w \in Reading /\ k \in sure[w]
    /\ Moves(k, {w})
    /\ UNCHANGED <<listed, reach>>

\* The goroutine before is cancelled; the new one captures last_synced_at.
Launch(w) ==
    /\ pc[w] = "new"
    /\ \A v \in Workers : v < w => pc[v] # "new"
    /\ pc' = [pc EXCEPT ![w] = "idle"]
    /\ base' = [base EXCEPT ![w] = mark]
    /\ cancelled' = {v \in Workers : pc[v] # "new"}
    /\ UNCHANGED <<clock, shown, mark, began, batch, failures, listing, sure, reach, missed>>

\* As Begin, with a margin for clocks that differ.
BeginWithMargin(w) ==
    /\ pc[w] = "idle" /\ Live(w)
    /\ pc' = [pc EXCEPT ![w] = "fetch"]
    /\ began' = [began EXCEPT ![w] = now - 1]
    /\ sure' = [sure EXCEPT ![w] = listed]
    /\ reach' = [reach EXCEPT ![w] = listed]
    /\ UNCHANGED <<clock, shown, mark, base, batch, cancelled, failures, listing, missed>>

\* RunOnce begins: on launch, and on every tick of the loop.
Begin(w) ==
    /\ pc[w] = "idle" /\ Live(w)
    /\ pc' = [pc EXCEPT ![w] = "fetch"]
    /\ began' = [began EXCEPT ![w] = now]
    /\ sure' = [sure EXCEPT ![w] = listed]
    /\ reach' = [reach EXCEPT ![w] = listed]
    /\ UNCHANGED <<clock, shown, mark, base, batch, cancelled, failures, listing, missed>>

\* The comments a fetcher reports of those it has read.
NewComments(w, read) ==
    IF base[w] = Nil THEN {} ELSE {c \in read : c.stamp > base[w]}

(***************************************************************************)
(* Fetch succeeds.  It reads one conversation after the other: of those it *)
(* cannot miss it has every comment written before the cycle began, of the *)
(* others, and of later comments, any.  Without items the upsert is        *)
(* skipped.                                                                *)
(***************************************************************************)
Fetch(w) ==
    /\ pc[w] = "fetch" /\ Live(w)
    /\ \E read \in SUBSET {c \in posted : c.of \in reach[w]} :
         /\ {c \in posted : c.at <= began[w] /\ c.of \in sure[w]} \subseteq read
         /\ batch' = [batch EXCEPT ![w] = NewComments(w, read)]
         /\ pc' = [pc EXCEPT ![w] = IF NewComments(w, read) = {} THEN "mark" ELSE "upsert"]
    /\ reach' = [reach EXCEPT ![w] = {}]
    /\ UNCHANGED <<clock, shown, mark, base, began, cancelled, failures, listing, sure, missed>>

\* RunOnce returns: its local values are gone.
Return(w) ==
    /\ pc' = [pc EXCEPT ![w] = "idle"]
    /\ began' = [began EXCEPT ![w] = 0]
    /\ batch' = [batch EXCEPT ![w] = {}]
    /\ sure' = [sure EXCEPT ![w] = {}]
    /\ reach' = [reach EXCEPT ![w] = {}]

\* ItemStore.Upsert of the batch, one transaction.  A cancelled goroutine
\* makes no further call after the one in flight.
Upsert(w) ==
    /\ pc[w] = "upsert"
    /\ shown' = shown \union batch[w]
    /\ \/ w \in cancelled /\ Return(w)
       \/ /\ w \notin cancelled
          /\ pc' = [pc EXCEPT ![w] = "mark"]
          /\ UNCHANGED <<began, batch, sure, reach>>
    /\ UNCHANGED <<clock, mark, base, cancelled, failures, listing, missed>>

\* The comments written before a cycle that it may not have reported: all of
\* them on a first sync, else those of conversations it was not sure to read.
Unsure(w) == {c \in posted : c.at <= began[w] /\ (base[w] = Nil \/ c.of \notin sure[w])}

\* As UpdateLastSyncedAt, with the time at the end of the cycle.
UpdateLastSyncedAtEnd(w) ==
    /\ pc[w] = "mark"
    /\ mark' = now
    /\ missed' = missed \union Unsure(w)
    /\ Return(w)
    /\ UNCHANGED <<clock, shown, base, cancelled, failures, listing>>

\* UpdateLastSyncedAt with the time at which the cycle began.
UpdateLastSyncedAt(w) ==
    /\ pc[w] = "mark"
    /\ mark' = began[w]
    /\ missed' = missed \union Unsure(w)
    /\ Return(w)
    /\ UNCHANGED <<clock, shown, base, cancelled, failures, listing>>

\* As Fails, carrying on to UpdateLastSyncedAt after a failed upsert.
FailsButMarks(w) ==
    /\ pc[w] \in {"fetch", "upsert", "mark"}
    /\ failures < MaxFailures
    /\ failures' = failures + 1
    /\ pc' = [pc EXCEPT ![w] = IF pc[w] = "upsert" THEN "mark" ELSE "idle"]
    /\ UNCHANGED <<clock, shown, mark, base, began, batch, cancelled, listing,
                   sure, reach, missed>>

\* Fetch, Upsert or UpdateLastSyncedAt returns an error: the cycle ends there.
Fails(w) ==
    /\ pc[w] \in {"fetch", "upsert", "mark"}
    /\ failures < MaxFailures
    /\ failures' = failures + 1
    /\ Return(w)
    /\ UNCHANGED <<clock, shown, mark, base, cancelled, listing, missed>>

\* On a context that is done each call fails, if it had not gone through.
Aborts(w) ==
    /\ pc[w] \in {"fetch", "upsert", "mark"}
    /\ w \in cancelled
    /\ Return(w)
    /\ UNCHANGED <<clock, shown, mark, base, cancelled, failures, listing, missed>>

Step(w) == Begin(w) \/ Fetch(w) \/ Upsert(w) \/ UpdateLastSyncedAt(w) \/ Fails(w) \/ Aborts(w)

Next ==
    \/ Post
    \/ \E k \in Conversations : Leave(k) \/ Enter(k) \/ \E w \in Workers : Slip(w, k)
    \/ \E w \in Workers : Launch(w) \/ Step(w)

Spec == Init /\ [][Next]_vars

(***************************************************************************)
(* The ticker keeps the loop going and every call returns; the server has  *)
(* a poller at all (see Scheduler, Covered): some launch happens.          *)
(***************************************************************************)
Fairness ==
    /\ WF_vars((\A w \in Workers : pc[w] = "new") /\ \E w \in Workers : Launch(w))
    /\ \A w \in Workers : WF_vars(Step(w))

FairSpec == Spec /\ Fairness

-----------------------------------------------------------------------------
(* Properties                                                              *)

TypeOK ==
    /\ now \in 0..MaxTime
    /\ posted \subseteq Comment
    /\ shown \subseteq Comment
    /\ mark \in Nat \union {Nil}
    /\ pc \in [Workers -> {"new", "idle", "fetch", "upsert", "mark"}]
    /\ base \in [Workers -> Nat \union {Nil}]
    /\ began \in [Workers -> Nat]
    /\ batch \in [Workers -> SUBSET Comment]
    /\ cancelled \subseteq Workers
    /\ failures \in 0..MaxFailures
    /\ listed \subseteq Conversations
    /\ moves \in 0..MaxMoves
    /\ sure \in [Workers -> SUBSET Conversations]
    /\ reach \in [Workers -> SUBSET Conversations]
    /\ moved \subseteq Conversations
    /\ missed \subseteq Comment

\* The comments a later goroutine will not report any more.
Passed == IF mark = Nil THEN {} ELSE {c \in posted : c.stamp <= mark}

\* A comment whose creation time trails the local clock.
Late(c) == c.stamp < c.at

(***************************************************************************)
(* last_synced_at never passes a comment that the feed has not shown, but  *)
(* for a late one and for one that a first sync or a slip in the listings  *)
(* kept from the very cycle that moved the mark past it.  So none is lost  *)
(* to a failure, a crash between two steps, a Reload in the middle of a    *)
(* cycle or a late write, and none because another one was.  (RunOnce      *)
(* notes the time before it fetches and stores it after the upsert.)       *)
(***************************************************************************)
NoneSkipped == \A c \in Passed : c \in shown \/ c \in missed \/ Late(c)

(***************************************************************************)
(* "All item types are suppressed on first sync (lastSyncedAt == nil)"     *)
(* (jira/fetcher.go): on the first only.  What is written once the first   *)
(* sync has been recorded, where a cycle cannot miss it, is not passed     *)
(* over.                                                                   *)
(***************************************************************************)
OnlyFirstSyncSuppresses ==
    [][\A w \in Workers :
          (mark # Nil /\ UpdateLastSyncedAt(w)) =>
              {c \in posted : c.of \in sure[w] /\ c.stamp > mark /\ c.stamp <= mark'}
                  \subseteq shown]_vars

\* The goroutine that runs will never report the comment: it is still on its
\* first sync, or captured a mark that had passed a late or a missed one.
GivenUp(c) ==
    \E w \in Workers :
        /\ Live(w)
        /\ \/ base[w] = Nil
           \/ c.stamp <= base[w] /\ (c \in missed \/ Late(c))

(***************************************************************************)
(* Every comment of a conversation that is listed in the end reaches the   *)
(* feed or was given up, however the cycles fail and are cut short, as     *)
(* long as the failures and the moves end.  In particular one that slipped *)
(* past a cycle is found by the next one of the same goroutine.            *)
(***************************************************************************)
EveryCommentShown ==
    <>[](\A c \in posted : c.of \in listed => c \in shown \/ GivenUp(c))

\* Some goroutine that can still store a mark is on its first sync.
OnFirstSync ==
    \E w \in Workers :
        /\ pc[w] # "new" /\ base[w] = Nil
        /\ w \notin cancelled \/ pc[w] # "idle"

(***************************************************************************)
(* The sync cycle implements CommentFeed: comments are shown only after    *)
(* they are written, and the mark moves past an unshown one only for a     *)
(* cause the feed knows: the comment is late, its conversation was out of  *)
(* sight, or a first sync is under way.                                    *)
(***************************************************************************)
Abstract == INSTANCE CommentFeed WITH
    Comments <- Comment,
    Marks <- 0..MaxTime,
    waived <- missed,
    first <- OnFirstSync

ImplementsFeed == Abstract!Spec
=============================================================================
