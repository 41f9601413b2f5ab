----------------------------- MODULE JiraItems -----------------------------
(***************************************************************************)
(* What the Jira fetcher (internal/adapter/jira/fetcher.go) reports of     *)
(* issues that change while it reads them.  Of a scrum space a Fetch       *)
(* lists the active sprints of the board, then each sprint's issue keys    *)
(* page by page, and reads every issue on a page in a request of its own   *)
(* (GetActiveSprintIssues); of a kanban space it reads a search page by    *)
(* page, the issues with it (SearchIssues).  Pages are found by their      *)
(* offset in a result that changes between them.                           *)
(*                                                                         *)
(* Bugs and comments count as new relative to the last_synced_at the       *)
(* cycle was given, which stays what it is here: SyncCycle follows it.     *)
(* `seen` is a history variable, as in GitHubItems.                        *)
(***************************************************************************)
EXTENDS Integers, FiniteSetsExt

CONSTANTS
    Issues,         \* issues, in the order in which Jira lists them
    Bugs,           \* those of issue type "Bug"
    Created,        \* those created after LastSyncedAt
    Commented,      \* those the user commented on before
    Spaces,         \* the enabled spaces are 1..Spaces, in this order
    Space,          \* the space of each issue
    Sprints,        \* the sprints of a board are 1..Sprints
    Names,          \* what the client calls people: their display names
    Nobody,         \* the empty name: of no assignee, and of no account ID
    Me,             \* the user's display name
    PageSize,       \* issues on a page
    Placements,     \* which list each issue may be in at first
    BoardTypes,     \* the board types the spaces may be stored with
    AccountIDs,     \* the account IDs that may be stored
    MaxChanges,     \* bound: changes in Jira
    MaxFailures     \* bound: requests that fail

ASSUME JiraAssumption ==
    /\ Issues \subseteq Nat /\ IsFiniteSet(Issues) /\ Bugs \subseteq Issues
    /\ Created \subseteq Issues /\ Commented \subseteq Issues
    /\ Spaces \in Nat \ {0} /\ Space \in [Issues -> 1..Spaces]
    /\ Sprints \in Nat \ {0} /\ PageSize \in Nat \ {0}
    /\ Nobody \notin Names /\ Me \in Names
    /\ Placements \subseteq [Issues -> 0..Sprints]
    /\ BoardTypes \subseteq [1..Spaces -> {"scrum", "kanban", ""}]
    /\ AccountIDs \subseteq Names \union {Nobody}
    /\ MaxChanges \in Nat /\ MaxFailures \in Nat

VARIABLES
    sprint,         \* the list each issue is in, 0 for none
    active,         \* the active sprints, pairs of a space and a sprint
    assignee,       \* the display name of each issue's assignee
    comments,       \* the comments on each issue: who wrote it, whether after LastSyncedAt
    boardType,      \* the board type stored for each space
    accountID,      \* the fetcher's account ID
    firstSync,      \* the goroutine was launched before a first sync
    marked,         \* last_synced_at is stored
    pc,             \* the request that comes next
    got,            \* what the Fetch under way has read
    batch,          \* the items it has gathered
    rows,           \* the items in the database
    seen,           \* history: what held during the Fetch under way
    changes, failures

jira == <<sprint, active, assignee, comments>>
stored == <<boardType, accountID>>
sync == <<firstSync, marked>>
vars == <<jira, stored, sync, pc, got, batch, rows, seen, changes, failures>>

People == Names \union {Nobody}
Types == {"jira_status_change", "jira_new_bug", "jira_comment"}
Items == [issue : Issues, type : Types]
Lists == (1..Spaces) \X (1..Sprints)

-----------------------------------------------------------------------------
(* Lists of issues                                                         *)

\* The list an issue must be in to be read: of a scrum space an active
\* sprint, of a kanban space the issues that are not done, list 1.
Live(s, k) == IF boardType[s] = "kanban" THEN k = 1 ELSE <<s, k>> \in active

List(s, k) == {i \in Issues : Space[i] = s /\ sprint[i] = k}

Before(i) == Cardinality({j \in List(Space[i], sprint[i]) : j < i})

\* The issues from offset on, at most PageSize.
Page(s, k, offset) == {i \in List(s, k) : Before(i) >= offset /\ Before(i) < offset + PageSize}

\* As HasNextPage, counting what is on this page twice.
HasNextPageEarly(s, k, offset) == offset + 2 * PageSize < Cardinality(List(s, k))

HasNextPage(s, k, offset) == offset + PageSize < Cardinality(List(s, k))

-----------------------------------------------------------------------------
(* Classification                                                          *)

IHaveCommented(i) == \E c \in comments[i] : c.by = accountID

NewCommentFrom(i) == \E c \in comments[i] : c.by # accountID /\ c.new

\* As ProcessIssue, taking a comment of anybody as one to answer.
ProcessIssueAnyComment(i) ==
    {t \in Types :
        /\ ~firstSync
        /\ \/ t = "jira_status_change" /\ assignee[i] = accountID
           \/ t = "jira_new_bug" /\ i \in Bugs /\ i \in Created
           \/ t = "jira_comment" /\ NewCommentFrom(i)}

\* processIssue: the types of the items for i, which is read in this state.
ProcessIssue(i) ==
    {t \in Types :
        /\ ~firstSync
        /\ \/ t = "jira_status_change" /\ assignee[i] = accountID
           \/ t = "jira_new_bug" /\ i \in Bugs /\ i \in Created
           \/ t = "jira_comment" /\ IHaveCommented(i) /\ NewCommentFrom(i)}

\* The condition item x stands for, with `me` for the user's name.
HoldsFor(x, me) ==
    LET i == x.issue
    IN  \/ x.type = "jira_status_change" /\ assignee[i] = me
        \/ x.type = "jira_new_bug" /\ i \in Bugs \intersect Created
        \/ /\ x.type = "jira_comment"
           /\ {c \in comments[i] : c.by # me /\ c.new} # {}
           /\ {c \in comments[i] : c.by = me} # {}

-----------------------------------------------------------------------------

NotFetching == [space |-> 1, sprints |-> {}, sprint |-> 1, offset |-> 0, keys |-> {},
                more |-> FALSE]
Unseen == [held |-> {}, always |-> Items, listed |-> {}, ran |-> {},
           left |-> {}, kept |-> Lists]

\* The Fetch reads this list, page by page.
Reads(s, k) == pc \in {"keys", "issue", "search"} /\ s = got.space /\ k = got.sprint

\* Every step of a Fetch, and every change during it, notes the state it
\* starts from.
Observe ==
    seen' = IF "idle" \in {pc, pc'} THEN Unseen
            ELSE LET holding == {x \in Items : HoldsFor(x, accountID)}
                     live == {l \in Lists : Live(l[1], l[2])}
                 IN  [held |-> seen.held \union holding,
                      always |-> seen.always \intersect holding,
                      listed |-> seen.listed \union {<<i, sprint[i]>> : i \in Issues},
                      ran |-> seen.ran \union live,
                      left |-> seen.left \union
                                 {l \in seen.listed : sprint[l[1]] # l[2] /\ Reads(Space[l[1]], l[2])},
                      kept |-> seen.kept \intersect live]

\* All issues exist from the start; one that is created later is one that
\* enters a list for the first time (MoveIssue).
Init ==
    /\ accountID \in AccountIDs
    /\ sprint \in Placements
    /\ active = {<<s, 1>> : s \in 1..Spaces}
    /\ assignee = [i \in Issues |-> Nobody]
    /\ comments = [i \in Issues |-> IF i \in Commented THEN {[by |-> Me, new |-> FALSE]}
                                    ELSE {}]
    /\ boardType \in BoardTypes
    /\ firstSync \in BOOLEAN /\ marked = ~firstSync
    /\ pc = "idle"
    /\ got = NotFetching
    /\ batch = {}
    /\ rows = {}
    /\ seen = Unseen
    /\ changes = 0 /\ failures = 0

-----------------------------------------------------------------------------
(* Jira                                                                    *)

Change ==
    /\ changes < MaxChanges
    /\ changes' = changes + 1
    /\ UNCHANGED <<stored, sync, pc, got, batch, rows, failures>>

\* To another sprint, into or out of the backlog, or done and not done.
MoveIssue(i, k) ==
    /\ Change
    /\ sprint[i] # k /\ sprint' = [sprint EXCEPT ![i] = k]
    /\ UNCHANGED <<active, assignee, comments>>

\* A sprint starts or is completed.
ToggleSprint(s, k) ==
    /\ Change
    /\ active' = IF <<s, k>> \in active THEN active \ {<<s, k>>} ELSE active \union {<<s, k>>}
    /\ UNCHANGED <<sprint, assignee, comments>>

Assign(i, name) ==
    /\ Change
    /\ assignee[i] # name /\ assignee' = [assignee EXCEPT ![i] = name]
    /\ UNCHANGED <<sprint, active, comments>>

\* A comment of a deleted account has no name.
Comment(i, name) ==
    /\ Change
    /\ comments' = [comments EXCEPT ![i] = @ \union {[by |-> name, new |-> TRUE]}]
    /\ UNCHANGED <<sprint, active, assignee>>

JiraChanges ==
    \/ \E i \in Issues :
         \/ \E k \in 0..Sprints : MoveIssue(i, k)
         \/ \E name \in People : Assign(i, name)
         \/ \E name \in People : Comment(i, name)
    \/ \E s \in 1..Spaces, k \in 1..Sprints : ToggleSprint(s, k)

-----------------------------------------------------------------------------
(* The fetcher                                                             *)

\* As Return, with the items left for the next cycle.
ReturnKeepsBatch ==
    /\ pc' = "idle"
    /\ got' = NotFetching
    /\ batch' = batch

\* RunOnce is over; nothing of the Fetch is kept.
Return ==
    /\ pc' = "idle"
    /\ got' = NotFetching
    /\ batch' = {}

\* fetchIssues of the first or the next space.  A space without a board type
\* is an error of the whole Fetch.
StartSpace(s, gathered) ==
    \/ /\ s <= Spaces /\ boardType[s] = "scrum"
       /\ got' = [NotFetching EXCEPT !.space = s]
       /\ pc' = "sprints" /\ batch' = gathered
    \/ /\ s <= Spaces /\ boardType[s] = "kanban"
       /\ got' = [NotFetching EXCEPT !.space = s]
       /\ pc' = "search" /\ batch' = gathered
    \/ /\ s <= Spaces /\ boardType[s] = ""
       /\ Return
    \/ /\ s > Spaces
       /\ got' = NotFetching
       /\ pc' = "upsert" /\ batch' = gathered

Begin ==
    /\ pc = "idle"
    /\ StartSpace(1, {})
    /\ UNCHANGED <<jira, stored, sync, rows, changes, failures>>

\* As NextSprint, going on when the first sprint is read.
NextSprintFirst(g, gathered) ==
    \/ /\ g.sprints # {}
       /\ got' = [g EXCEPT !.sprint = Min(g.sprints), !.sprints = {}]
       /\ pc' = "keys" /\ batch' = gathered
    \/ g.sprints = {} /\ StartSpace(g.space + 1, gathered)

\* The next sprint of the list read at the start of the space, or the next
\* space.
NextSprint(g, gathered) ==
    \/ /\ g.sprints # {}
       /\ got' = [g EXCEPT !.sprint = Min(g.sprints), !.sprints = g.sprints \ {Min(g.sprints)},
                           !.offset = 0, !.keys = {}, !.more = FALSE]
       /\ pc' = "keys" /\ batch' = gathered
    \/ g.sprints = {} /\ StartSpace(g.space + 1, gathered)

\* The active sprints of the board.
ListSprints ==
    /\ pc = "sprints"
    /\ NextSprint([got EXCEPT !.sprints = {k \in 1..Sprints : <<got.space, k>> \in active}], batch)
    /\ UNCHANGED <<jira, stored, sync, rows, changes, failures>>

\* After a page, or the last issue on it: the next page, sprint or space.
TurnPage(g, gathered) ==
    \/ /\ g.more
       /\ got' = [g EXCEPT !.offset = @ + PageSize, !.keys = {}, !.more = FALSE]
       /\ pc' = "keys" /\ batch' = gathered
    \/ ~g.more /\ NextSprint(g, gathered)

\* A page of the keys in a sprint, and whether more follow.
SprintIssues ==
    /\ pc = "keys"
    /\ LET g == [got EXCEPT !.keys = Page(got.space, got.sprint, got.offset),
                            !.more = HasNextPage(got.space, got.sprint, got.offset)]
       IN  \/ g.keys # {} /\ got' = g /\ pc' = "issue" /\ batch' = batch
           \/ g.keys = {} /\ TurnPage(g, batch)
    /\ UNCHANGED <<jira, stored, sync, rows, changes, failures>>

\* GetIssue of the next key on the page.
GetIssue ==
    /\ pc = "issue"
    /\ LET i == Min(got.keys)
           gathered == batch \union [issue : {i}, type : ProcessIssue(i)]
           g == [got EXCEPT !.keys = got.keys \ {i}]
       IN  \/ g.keys # {} /\ got' = g /\ pc' = pc /\ batch' = gathered
           \/ g.keys = {} /\ TurnPage(g, gathered)
    /\ UNCHANGED <<jira, stored, sync, rows, changes, failures>>

\* A page of the search, with the issues on it.
SearchIssues ==
    /\ pc = "search"
    /\ LET found == Page(got.space, 1, got.offset)
           gathered == batch \union
                         UNION {[issue : {i}, type : ProcessIssue(i)] : i \in found}
       IN  \/ /\ HasNextPage(got.space, 1, got.offset)
              /\ got' = [got EXCEPT !.offset = @ + PageSize]
              /\ pc' = pc /\ batch' = gathered
           \/ ~HasNextPage(got.space, 1, got.offset) /\ StartSpace(got.space + 1, gathered)
    /\ UNCHANGED <<jira, stored, sync, rows, changes, failures>>

\* The rest of RunOnce, with the mark.
Upsert ==
    /\ pc = "upsert"
    /\ rows' = rows \union batch
    /\ marked' = TRUE
    /\ Return
    /\ UNCHANGED <<jira, stored, firstSync, changes, failures>>

\* A Reload launches a goroutine that captures the mark.
Relaunch ==
    /\ pc = "idle" /\ firstSync /\ marked
    /\ firstSync' = FALSE
    /\ UNCHANGED <<jira, stored, marked, pc, got, batch, rows, changes, failures>>

\* Any request that fails ends the Fetch and the sync cycle.
Fails ==
    /\ pc # "idle" /\ failures < MaxFailures
    /\ failures' = failures + 1
    /\ Return
    /\ UNCHANGED <<jira, stored, sync, rows, changes>>

Sync ==
    Begin \/ ListSprints \/ SprintIssues \/ GetIssue \/ SearchIssues \/ Upsert \/ Fails

Next == (JiraChanges \/ Relaunch \/ Sync) /\ Observe

Spec == Init /\ [][Next]_vars

\* The poll loop runs one cycle after the other, and its requests return.
FairSpec == Spec /\ WF_vars(Sync /\ Observe)

-----------------------------------------------------------------------------
(* Properties                                                              *)

Got == [space : 1..Spaces, sprints : SUBSET (1..Sprints),
        sprint : 1..Sprints, offset : Nat, keys : SUBSET Issues, more : BOOLEAN]
Seen == [held : SUBSET Items, always : SUBSET Items,
         listed : SUBSET (Issues \X (0..Sprints)), ran : SUBSET Lists,
         left : SUBSET (Issues \X (0..Sprints)), kept : SUBSET Lists]

TypeOK ==
    /\ sprint \in [Issues -> 0..Sprints]
    /\ active \subseteq Lists
    /\ assignee \in [Issues -> People]
    /\ comments \in [Issues -> SUBSET [by : People, new : BOOLEAN]]
    /\ boardType \in BoardTypes /\ accountID \in AccountIDs
    /\ firstSync \in BOOLEAN /\ marked \in BOOLEAN
    /\ pc \in {"idle", "sprints", "keys", "issue", "search", "upsert"}
    /\ got \in Got
    /\ pc = "idle" => got = NotFetching /\ batch = {}
    /\ (got.keys # {}) <=> (pc = "issue")
    /\ batch \subseteq Items /\ rows \subseteq Items
    /\ seen \in Seen
    /\ changes \in 0..MaxChanges /\ failures \in 0..MaxFailures

(***************************************************************************)
(* What a Fetch reports was so: the item's condition held, for the user    *)
(* the account ID names, the issue was in a list of its space, and that    *)
(* list was an active sprint or the search, each at some moment of the     *)
(* Fetch, although sprints, keys and issues are read one after the other.  *)
(***************************************************************************)
ReportsWhatHeld ==
    \A x \in batch :
        /\ x \in seen.held
        /\ \E k \in 1..Sprints : <<x.issue, k>> \in seen.listed /\ <<Space[x.issue], k>> \in seen.ran

\* i was in one list all the time, and that list live.
Stayed(i) ==
    /\ sprint[i] > 0 /\ {l \in seen.listed : l[1] = i} \subseteq {<<i, sprint[i]>>}
    /\ <<Space[i], sprint[i]>> \in seen.kept

\* An issue listed before i left i's list while the list was read.
Shifted(i) ==
    \E l \in seen.left : Space[l[1]] = Space[i] /\ l[1] < i /\ l[2] = sprint[i]

(***************************************************************************)
(* What a Fetch does not report was not so all along: an item whose        *)
(* condition held throughout, on an issue that stayed in a list that       *)
(* stayed live, is upserted, unless it slipped between two pages.  On the  *)
(* first sync nothing is reported, and no failure reports a part.          *)
(***************************************************************************)
ReportsWhatLasts ==
    pc = "upsert" /\ ~firstSync =>
        \A x \in seen.always : Stayed(x.issue) => x \in batch \/ Shifted(x.issue)

Warranted(x) ==
    /\ sprint[x.issue] > 0 /\ Live(Space[x.issue], sprint[x.issue])
    /\ HoldsFor(x, accountID)

(***************************************************************************)
(* Once Jira comes to rest, requests stop failing and the goroutine is one *)
(* launched after the first sync, every issue in a live list has the items *)
(* it warrants, if all spaces have a board type.  A single space without   *)
(* one blocks the items of all others.                                     *)
(***************************************************************************)
Reported ==
    <>[] \/ firstSync
         \/ \E s \in 1..Spaces : boardType[s] = "" /\ rows = {}
         \/ \A x \in Items : Warranted(x) => x \in rows

(***************************************************************************)
(* "jira_status_change: assigned to me.", says processIssue: whoever an    *)
(* item says is assigned to the user was so during the Fetch.              *)
(***************************************************************************)
OnlyMine ==
    [][\A x \in batch' \ batch :
          x.type = "jira_status_change" => assignee[x.issue] = Me]_vars
=============================================================================
