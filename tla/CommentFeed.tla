---------------------------- MODULE CommentFeed ----------------------------
(***************************************************************************)
(* What the sync cycle owes the user: a comment reaches the feed, because  *)
(* last_synced_at moves only past comments that the feed has shown.  It    *)
(* may also waive a comment, but not at will: only on a first sync, or     *)
(* when the comment's conversation was out of its sight at some time.  A   *)
(* comment whose creation time is wrong is not owed.                       *)
(***************************************************************************)
EXTENDS Integers

CONSTANTS
    Comments,       \* records with the conversation `of`, the times `at` and `stamp`
    Conversations,
    Marks,          \* the values of last_synced_at
    Nil             \* none: nothing was synced yet

VARIABLES
    posted,     \* the comments written by others
    shown,      \* those a sync has brought to the feed
    mark,       \* last_synced_at
    waived,     \* the comments that were given up
    moved,      \* the conversations that were ever out of sight
    first       \* a first sync is under way

vars == <<posted, shown, mark, waived, moved, first>>

Init ==
    /\ posted = {} /\ shown = {} /\ waived = {}
    /\ mark \in {Nil, 0}
    /\ moved \in SUBSET Conversations
    /\ first = FALSE

Owed(c) == c.stamp = c.at

\* Someone writes a comment; if its time is right it lies after the mark.
Write(c) ==
    /\ mark # Nil /\ Owed(c) => c.stamp > mark
    /\ posted' = posted \union {c}
    /\ UNCHANGED <<shown, mark, waived, moved>>

\* A conversation gets out of sight.
Move(k) ==
    /\ moved' = moved \union {k}
    /\ UNCHANGED <<posted, shown, mark, waived>>

\* A sync brings comments to the feed, some of them again.
Show(s) ==
    /\ shown' = shown \union s
    /\ UNCHANGED <<posted, mark, waived, moved>>

\* The mark moves, also back, past comments that were shown or are waived.
Advance(t, s) ==
    /\ first \/ \A c \in s : c.of \in moved
    /\ waived' = waived \union s
    /\ mark' = t
    /\ \A c \in posted : Owed(c) /\ c.stamp <= t => c \in shown \union waived'
    /\ UNCHANGED <<posted, shown, moved>>

\* A first sync can only begin while nothing was synced.
Next ==
    /\ \/ \E c \in Comments : Write(c)
       \/ \E k \in Conversations : Move(k)
       \/ \E s \in SUBSET posted : Show(s) \/ \E t \in Marks : Advance(t, s)
       \/ UNCHANGED <<posted, shown, mark, waived, moved>>
    /\ first' => first \/ mark = Nil

Spec == Init /\ [][Next]_vars
=============================================================================
