---------------------------- MODULE GitHubItems ----------------------------
(***************************************************************************)
(* What the GitHub fetcher (internal/adapter/github/fetcher.go) reports of *)
(* pull requests that change while it reads them.  A Fetch copies the      *)
(* teammates and the minimum review count, lists the open pull requests of *)
(* one space page by page, and reads of each the reviews, the checks of    *)
(* the head commit it was listed with, and the comments, each in a request *)
(* of its own.  The sync cycle then upserts all items at once, or none if  *)
(* a request failed.                                                       *)
(*                                                                         *)
(* `seen` is a history variable: it notes what held in the states a Fetch  *)
(* has come through, so that what it reports can be compared with it.      *)
(*                                                                         *)
(* Of comments it matters whether others wrote any after LastSyncedAt;     *)
(* SyncCycle follows that mark.  Lists other than that of pull requests    *)
(* fit on one page.                                                        *)
(***************************************************************************)
EXTENDS Integers, Sequences, FiniteSetsExt

CONSTANTS
    PRs,                \* pull request numbers, newer ones higher
    People, Me,         \* GitHub users; Me is the authenticated one
    Author,             \* who opened each pull request
    Spaces,             \* the enabled spaces are 1..Spaces, in this order
    Space,              \* the space of each pull request
    PageSize,           \* pull requests on a page
    TeammateLists,      \* what UpdateTeammates may be given
    MinReviewCounts,    \* what UpdateMinReviewCount may be given
    MaxChanges,         \* bound: changes on GitHub and of the settings
    MaxFailures         \* bound: requests that fail

ASSUME GitHubAssumption ==
    /\ PRs \subseteq Nat /\ IsFiniteSet(PRs) /\ Me \in People
    /\ Author \in [PRs -> People]
    /\ Spaces \in Nat \ {0} /\ Space \in [PRs -> 1..Spaces]
    /\ PageSize \in Nat \ {0}
    /\ TeammateLists \subseteq SUBSET People
    /\ MinReviewCounts \subseteq Nat
    /\ MaxChanges \in Nat /\ MaxFailures \in Nat

VARIABLES
    open,           \* the open pull requests
    reviews,        \* the reviews of each, oldest first
    head,           \* its head commit, counted from 1
    failing,        \* its commits with a failed check
    commented,      \* those others commented on after LastSyncedAt
    teammates, minReviewCount,      \* the fetcher's settings
    pc,             \* the request that comes next
    got,            \* what the Fetch under way has read
    batch,          \* the items it has gathered
    rows,           \* the items in the database
    seen,           \* history: what held during the Fetch under way
    changes, failures

github == <<open, reviews, head, failing, commented>>
settings == <<teammates, minReviewCount>>
vars == <<github, settings, pc, got, batch, rows, seen, changes, failures>>

Types == {"pr_review_needed", "pr_stale_review", "pr_changes_requested",
          "pr_ci_failing", "pr_new_comment", "pr_approved"}
Items == [pr : PRs, type : Types]
States == {"APPROVED", "CHANGES_REQUESTED", "COMMENTED", "DISMISSED"}
Commits == 1..(MaxChanges + 1)

-----------------------------------------------------------------------------
(* Classification                                                          *)

\* As collapseReviewsToLatest, keeping a reviewer's first state.
CollapseReviewsToFirst(list) ==
    [u \in {list[i].by : i \in DOMAIN list} |->
        list[Min({i \in DOMAIN list : list[i].by = u})].state]

\* The state of the last review of everybody who reviewed.
CollapseReviewsToLatest(list) ==
    [u \in {list[i].by : i \in DOMAIN list} |->
        list[Max({i \in DOMAIN list : list[i].by = u})].state]

CountApprovals(collapsed, excluded) ==
    Cardinality({u \in DOMAIN collapsed \ excluded : collapsed[u] = "APPROVED"})

HasChangesRequested(collapsed) == \E u \in DOMAIN collapsed : collapsed[u] = "CHANGES_REQUESTED"

HasDismissedReview(collapsed) == Me \in DOMAIN collapsed /\ collapsed[Me] = "DISMISSED"

\* processPR: the types of the items for p, from the settings and answers in g.
ProcessPR(p, g, newComments) ==
    LET collapsed == CollapseReviewsToLatest(g.reviews)
        isOwnPR == Author[p] = Me
        isTeammates == Author[p] \in g.teammates /\ ~isOwnPR
    IN  {t \in Types :
          \/ /\ t = "pr_review_needed" /\ isTeammates
             /\ Me \notin DOMAIN collapsed
             /\ CountApprovals(collapsed, {Me}) < g.minReviewCount
          \/ t = "pr_stale_review" /\ isTeammates /\ HasDismissedReview(collapsed)
          \/ t = "pr_changes_requested" /\ isOwnPR /\ HasChangesRequested(collapsed)
          \/ t = "pr_ci_failing" /\ isOwnPR /\ g.failing
          \/ t = "pr_new_comment" /\ isOwnPR /\ ~g.firstSync /\ newComments
          \/ /\ t = "pr_approved" /\ isOwnPR
             /\ ~HasChangesRequested(collapsed)
             /\ CountApprovals(collapsed, {}) >= g.minReviewCount}

-----------------------------------------------------------------------------
(* The conditions the items stand for, said of the present state           *)

\* The last review of u on p has state s.
Stands(p, u, s) ==
    \E i \in DOMAIN reviews[p] :
        /\ reviews[p][i] = [by |-> u, state |-> s]
        /\ \A j \in DOMAIN reviews[p] : j > i => reviews[p][j].by # u

Approvers(p) == {u \in People : Stands(p, u, "APPROVED")}

\* Item i is warranted under g's settings, one of `commits` being p's head.
Holds(i, g, commits) ==
    LET p == i.pr
        theirs == Author[p] # Me /\ Author[p] \in g.teammates
        mine == Author[p] = Me
        objection == \E u \in People : Stands(p, u, "CHANGES_REQUESTED")
    IN  \/ /\ i.type = "pr_review_needed" /\ theirs
           /\ Cardinality(Approvers(p) \ {Me}) < g.minReviewCount
           /\ \A r \in DOMAIN reviews[p] : reviews[p][r].by # Me
        \/ i.type = "pr_stale_review" /\ theirs /\ Stands(p, Me, "DISMISSED")
        \/ i.type = "pr_changes_requested" /\ mine /\ objection
        \/ i.type = "pr_ci_failing" /\ mine /\ commits \cap failing[p] # {}
        \/ i.type = "pr_new_comment" /\ mine /\ p \in commented /\ ~g.firstSync
        \/ /\ i.type = "pr_approved" /\ mine /\ ~objection
           /\ Cardinality(Approvers(p)) >= g.minReviewCount

-----------------------------------------------------------------------------

Nothing == [number |-> 0, head |-> 0, page |-> 0]
NotFetching == [teammates |-> {}, minReviewCount |-> 0, firstSync |-> FALSE,
                space |-> 1, page |-> 1, listed |-> {}, pr |-> Nothing,
                reviews |-> <<>>, failing |-> FALSE]
Unseen == [held |-> {}, always |-> Items, heads |-> [p \in PRs |-> {}],
           opened |-> {}, left |-> {}]

\* Every step of a Fetch, and every change during it, notes the state it
\* starts from.
Observe ==
    seen' = IF "idle" \in {pc, pc'} THEN Unseen
            ELSE LET heads == [p \in PRs |-> seen.heads[p] \union {head[p]}]
                 IN  [held |-> seen.held \union {i \in Items \ seen.held : Holds(i, got, heads[i.pr])},
                      always |-> {i \in seen.always : i.pr \in open /\ Holds(i, got, {head[i.pr]})},
                      heads |-> heads,
                      opened |-> seen.opened \union open,
                      left |-> seen.left \union
                                 {q \in seen.opened \ open : pc = "list" /\ Space[q] = got.space}]

Init ==
    /\ open \in SUBSET PRs
    /\ reviews = [p \in PRs |-> <<>>]
    /\ head = [p \in PRs |-> 1]
    /\ failing = [p \in PRs |-> {}]
    /\ commented = {}
    /\ teammates \in TeammateLists
    /\ minReviewCount \in MinReviewCounts
    /\ pc = "idle"
    /\ got = NotFetching
    /\ batch = {}
    /\ rows = {}
    /\ seen = Unseen
    /\ changes = 0 /\ failures = 0

-----------------------------------------------------------------------------
(* GitHub                                                                  *)

Change ==
    /\ changes < MaxChanges
    /\ changes' = changes + 1
    /\ UNCHANGED <<pc, got, batch, rows, failures>>

OpenPR(p) ==
    /\ Change
    /\ p \notin open /\ open' = open \union {p}
    /\ UNCHANGED <<reviews, head, failing, commented, settings>>

ClosePR(p) ==
    /\ Change
    /\ p \in open /\ open' = open \ {p}
    /\ UNCHANGED <<reviews, head, failing, commented, settings>>

\* Nobody approves, or requests changes of, their own pull request.
SubmitReview(p, u, s) ==
    /\ Change
    /\ s # "DISMISSED" /\ (u = Author[p] => s = "COMMENTED")
    /\ reviews' = [reviews EXCEPT ![p] = Append(@, [by |-> u, state |-> s])]
    /\ UNCHANGED <<open, head, failing, commented, settings>>

\* By hand, or by a push where stale approvals are dismissed.
DismissReview(p, i) ==
    /\ Change
    /\ reviews[p][i].state \in {"APPROVED", "CHANGES_REQUESTED"}
    /\ reviews' = [reviews EXCEPT ![p][i].state = "DISMISSED"]
    /\ UNCHANGED <<open, head, failing, commented, settings>>

Push(p) ==
    /\ Change
    /\ head' = [head EXCEPT ![p] = @ + 1]
    /\ UNCHANGED <<open, reviews, failing, commented, settings>>

\* A check of commit c fails, or succeeds when run again.
CheckCompletes(p, c) ==
    /\ Change
    /\ c <= head[p]
    /\ failing' = [failing EXCEPT ![p] = IF c \in @ THEN @ \ {c} ELSE @ \union {c}]
    /\ UNCHANGED <<open, reviews, head, commented, settings>>

Comment(p) ==
    /\ Change
    /\ p \notin commented /\ commented' = commented \union {p}
    /\ UNCHANGED <<open, reviews, head, failing, settings>>

GitHubChanges ==
    \E p \in PRs :
        \/ OpenPR(p) \/ ClosePR(p) \/ Push(p) \/ Comment(p)
        \/ \E u \in People, s \in States : SubmitReview(p, u, s)
        \/ \E i \in DOMAIN reviews[p] : DismissReview(p, i)
        \/ \E c \in Commits : CheckCompletes(p, c)

-----------------------------------------------------------------------------
(* The fetcher                                                             *)

UpdateTeammates(list) ==
    /\ Change
    /\ teammates' = list
    /\ UNCHANGED <<github, minReviewCount>>

UpdateMinReviewCount(n) ==
    /\ Change
    /\ minReviewCount' = n
    /\ UNCHANGED <<github, teammates>>

\* Fetch copies the settings in one critical section.
Begin ==
    /\ pc = "idle"
    /\ \E first \in BOOLEAN :
         got' = [NotFetching EXCEPT !.teammates = teammates, !.minReviewCount = minReviewCount,
                                    !.firstSync = first]
    /\ pc' = "list"
    /\ UNCHANGED <<github, settings, batch, rows, changes, failures>>

\* How many pull requests of its space GitHub lists before p.
Newer(p) == Cardinality({q \in open : Space[q] = Space[p] /\ q > p})

PageOf(space, page) ==
    {p \in open : Space[p] = space /\ Newer(p) \div PageSize = page - 1}

HasNextPage(space, page) == \E p \in open : Space[p] = space /\ Newer(p) >= page * PageSize

\* As Proceed, returning after the first space.
ProceedFirstSpace(g, listed) ==
    \/ \E l \in listed :
         /\ got' = [g EXCEPT !.listed = listed \ {l}, !.pr = l,
                             !.reviews = <<>>, !.failing = FALSE]
         /\ pc' = "reviews"
    \/ /\ listed = {}
       /\ got' = [g EXCEPT !.listed = {}, !.pr = Nothing, !.reviews = <<>>, !.failing = FALSE]
       /\ pc' = "upsert"

\* Where Fetch goes when a space is listed, or one of its pull requests done:
\* to the next pull request, the next space, or back to the sync cycle.
Proceed(g, listed) ==
    \/ \E l \in listed :
         /\ got' = [g EXCEPT !.listed = listed \ {l}, !.pr = l,
                             !.reviews = <<>>, !.failing = FALSE]
         /\ pc' = "reviews"
    \/ /\ listed = {} /\ g.space < Spaces
       /\ got' = [g EXCEPT !.listed = {}, !.space = @ + 1, !.page = 1, !.pr = Nothing,
                           !.reviews = <<>>, !.failing = FALSE]
       /\ pc' = "list"
    \/ /\ listed = {} /\ g.space = Spaces
       /\ got' = [g EXCEPT !.listed = {}, !.pr = Nothing, !.reviews = <<>>, !.failing = FALSE]
       /\ pc' = "upsert"

\* One page of ListPRsForRepo, newest first.
ListPRsForRepo ==
    /\ pc = "list"
    /\ LET listed == got.listed \union
                       {[number |-> p, head |-> head[p], page |-> got.page] :
                            p \in PageOf(got.space, got.page)}
       IN  \/ /\ HasNextPage(got.space, got.page)
              /\ got' = [got EXCEPT !.listed = listed, !.page = @ + 1]
              /\ pc' = pc
           \/ ~HasNextPage(got.space, got.page) /\ Proceed(got, listed)
    /\ UNCHANGED <<github, settings, batch, rows, changes, failures>>

ListPRReviews ==
    /\ pc = "reviews"
    /\ got' = [got EXCEPT !.reviews = reviews[got.pr.number]]
    /\ pc' = "checks"
    /\ UNCHANGED <<github, settings, batch, rows, changes, failures>>

\* The checks of the commit that was the head when the page was read.
ListCheckRuns ==
    /\ pc = "checks"
    /\ got' = [got EXCEPT !.failing = got.pr.head \in failing[got.pr.number]]
    /\ pc' = "comments"
    /\ UNCHANGED <<github, settings, batch, rows, changes, failures>>

\* The comments come last; with them processPR has what it needs.
ListPRComments ==
    /\ pc = "comments"
    /\ LET p == got.pr.number
       IN  batch' = batch \union [pr : {p}, type : ProcessPR(p, got, p \in commented)]
    /\ Proceed(got, got.listed)
    /\ UNCHANGED <<github, settings, rows, changes, failures>>

\* As Return, keeping the items for the next cycle.
ReturnKeepsBatch ==
    /\ pc' = "idle"
    /\ got' = NotFetching
    /\ batch' = batch

\* RunOnce is over; nothing of it is kept.
Return ==
    /\ pc' = "idle"
    /\ got' = NotFetching
    /\ batch' = {}

\* RunOnce upserts what Fetch returned.  No item says that it is deleted.
Upsert ==
    /\ pc = "upsert"
    /\ rows' = rows \union batch
    /\ Return
    /\ UNCHANGED <<github, settings, changes, failures>>

\* As Fails, going on to the next pull request.
FailsPR ==
    /\ pc \in {"list", "reviews", "checks", "comments", "upsert"}
    /\ failures < MaxFailures
    /\ failures' = failures + 1
    /\ \/ pc \in {"list", "upsert"} /\ Return
       \/ pc \notin {"list", "upsert"} /\ Proceed(got, got.listed) /\ UNCHANGED batch
    /\ UNCHANGED <<github, settings, rows, changes>>

\* Any request that fails ends the Fetch and the sync cycle.
Fails ==
    /\ pc \in {"list", "reviews", "checks", "comments", "upsert"}
    /\ failures < MaxFailures
    /\ failures' = failures + 1
    /\ Return
    /\ UNCHANGED <<github, settings, rows, changes>>

Sync ==
    \/ Begin \/ ListPRsForRepo \/ ListPRReviews \/ ListCheckRuns \/ ListPRComments
    \/ Upsert \/ Fails

Next ==
    /\ \/ GitHubChanges
       \/ \E list \in TeammateLists : UpdateTeammates(list)
       \/ \E n \in MinReviewCounts : UpdateMinReviewCount(n)
       \/ Sync
    /\ Observe

Spec == Init /\ [][Next]_vars

\* The poll loop runs one cycle after the other, and its requests return.
FairSpec == Spec /\ WF_vars(Sync /\ Observe)

-----------------------------------------------------------------------------
(* Properties                                                              *)

Review == [by : People, state : States]
Listed == [number : PRs, head : Commits, page : Nat]
Got == [teammates : SUBSET People, minReviewCount : Nat, firstSync : BOOLEAN,
        space : 1..Spaces, page : Nat \ {0}, listed : SUBSET Listed,
        pr : Listed \union {Nothing}, reviews : Seq(Review), failing : BOOLEAN]
Seen == [held : SUBSET Items, always : SUBSET Items, heads : [PRs -> SUBSET Commits],
         opened : SUBSET PRs, left : SUBSET PRs]

TypeOK ==
    /\ open \subseteq PRs
    /\ reviews \in [PRs -> Seq(Review)]
    /\ head \in [PRs -> Commits]
    /\ failing \in [PRs -> SUBSET Commits]
    /\ commented \subseteq PRs
    /\ teammates \in SUBSET People /\ minReviewCount \in Nat
    /\ pc \in {"idle", "list", "reviews", "checks", "comments", "upsert"}
    /\ got \in Got
    /\ pc = "idle" => got = NotFetching /\ batch = {}
    /\ (got.pr = Nothing) <=> (pc \in {"idle", "list", "upsert"})
    /\ batch \subseteq Items /\ rows \subseteq Items
    /\ seen \in Seen
    /\ changes \in 0..MaxChanges /\ failures \in 0..MaxFailures

(***************************************************************************)
(* What a Fetch reports was so: every item is about a pull request that    *)
(* was open, and its condition held, at some moment of the Fetch, under    *)
(* the settings it began with, although reviews, checks and comments are   *)
(* read at different moments.  Of a failed check this is said of a commit  *)
(* that was the head during the Fetch.                                     *)
(***************************************************************************)
ReportsWhatHeld == \A i \in batch : i \in seen.held /\ i.pr \in seen.opened

\* A newer pull request of p's space was closed while that space was listed,
\* which moves p to an earlier page.
Shifted(p) == \E q \in seen.left : Space[q] = Space[p] /\ q > p

(***************************************************************************)
(* What a Fetch does not report was not so all along: an item whose        *)
(* condition held throughout, on a pull request that stayed open, is       *)
(* upserted, unless the pull request slipped between two pages.  A failed  *)
(* request never gives part of a report.                                   *)
(***************************************************************************)
ReportsWhatLasts == pc = "upsert" => \A i \in seen.always : i \in batch \/ Shifted(i.pr)

\* The item's condition, under the fetcher's present settings.
Warranted(i) ==
    /\ i.pr \in open
    /\ Holds(i, [teammates |-> teammates, minReviewCount |-> minReviewCount, firstSync |-> FALSE],
             {head[i.pr]})

(***************************************************************************)
(* Once GitHub and the settings come to rest and requests stop failing,    *)
(* every pull request has the items that are warranted, from then on.      *)
(* (Items for comments are the subject of SyncCycle.)                      *)
(***************************************************************************)
Reported ==
    <>[] \A i \in [pr : PRs, type : Types \ {"pr_new_comment"}] :
            Warranted(i) => i \in rows
=============================================================================
