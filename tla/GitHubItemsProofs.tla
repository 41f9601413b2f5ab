------------------------- MODULE GitHubItemsProofs -------------------------
(***************************************************************************)
(* Proofs about GitHubItems for any number of pull requests, users,        *)
(* spaces, pages and changes: what a Fetch reports was so (IInv), and what *)
(* was so all along is reported (LInv).                                    *)
(***************************************************************************)
EXTENDS GitHubItems, FiniteSetTheorems, WellFoundedInduction, TLAPS

-----------------------------------------------------------------------------
(* Lemmas about the classification.                                        *)

(* Among finitely many positions of a list there is a last one.              *)
LEMMA LastExists ==
    ASSUME NEW n \in Nat, NEW S \in SUBSET (1..n), S # {}
    PROVE  /\ Max(S) \in S
           /\ \A i \in S : Max(S) >= i
<1> DEFINE distances == {n - i : i \in S}
<1>1. distances \subseteq Nat
  <2>1. \A i \in S : i \in Nat /\ n - i \in Nat
    OBVIOUS
  <2> QED BY <2>1
<1>2. distances # {}
  OBVIOUS
<1> HIDE DEF distances
<1>3. PICK d \in distances : \A e \in distances : ~(<<e, d>> \in OpToRel(<, Nat))
  BY <1>1, <1>2, NatLessThanWellFounded, WFMin
<1>4. \A e \in distances : d <= e
  <2> SUFFICES ASSUME NEW e \in distances, e < d PROVE FALSE
    BY <1>1
  <2>1. <<e, d>> \in Nat \X Nat /\ <<e, d>>[1] < <<e, d>>[2]
    BY <1>1
  <2>2. <<e, d>> \in OpToRel(<, Nat)
    BY <2>1 DEF OpToRel
  <2> QED BY <1>3, <2>2
<1>5. PICK i \in S : d = n - i
  BY DEF distances
<1>6. \A j \in S : n - j \in distances /\ j \in Nat
  BY DEF distances
<1>7. \A j \in S : i >= j
  BY <1>4, <1>5, <1>6
<1> QED BY <1>7 DEF Max

(* The collapsed reviews of p give everybody's last state.                   *)
LEMMA CollapsedIsLast ==
    ASSUME NEW p, reviews[p] \in Seq(Review)
    PROVE  /\ DOMAIN CollapseReviewsToLatest(reviews[p])
                 = {reviews[p][i].by : i \in DOMAIN reviews[p]}
           /\ DOMAIN CollapseReviewsToLatest(reviews[p]) \subseteq People
           /\ \A u, s : Stands(p, u, s) <=>
                 /\ u \in DOMAIN CollapseReviewsToLatest(reviews[p])
                 /\ CollapseReviewsToLatest(reviews[p])[u] = s
<1> DEFINE list == reviews[p]
           c == CollapseReviewsToLatest(list)
           by(u) == {i \in DOMAIN list : list[i].by = u}
<1>1. /\ DOMAIN list = 1..Len(list) /\ Len(list) \in Nat
      /\ \A i \in DOMAIN list : list[i] \in Review
  OBVIOUS
<1>2. DOMAIN c = {list[i].by : i \in DOMAIN list}
  BY DEF CollapseReviewsToLatest
<1>3. DOMAIN c \subseteq People
  BY <1>1, <1>2 DEF Review
<1>4. \A u \in DOMAIN c : c[u] = list[Max(by(u))].state
  BY DEF CollapseReviewsToLatest
<1>5. ASSUME NEW u \in DOMAIN c
      PROVE  /\ Max(by(u)) \in by(u)
             /\ \A i \in by(u) : Max(by(u)) >= i
  <2>1. by(u) # {} /\ by(u) \in SUBSET (1..Len(list))
    BY <1>1, <1>2
  <2> HIDE DEF by
  <2> QED BY <1>1, <2>1, LastExists
<1>6. ASSUME NEW u, NEW s, Stands(p, u, s)
      PROVE  u \in DOMAIN c /\ c[u] = s
  <2>1. PICK i \in DOMAIN list : /\ list[i] = [by |-> u, state |-> s]
                                 /\ \A j \in DOMAIN list : j > i => list[j].by # u
    BY <1>6 DEF Stands
  <2>2. i \in by(u) /\ u \in DOMAIN c
    BY <1>2, <2>1
  <2> DEFINE last == Max(by(u))
  <2>3. last \in DOMAIN list /\ list[last].by = u /\ last >= i
    BY <1>5, <2>2
  <2>4. c[u] = list[last].state
    BY <1>4, <2>2
  <2> HIDE DEF last, list, c
  <2>5. last = i
    BY <1>1, <2>1, <2>3
  <2>6. list[i].state = s
    BY <2>1
  <2> QED BY <2>2, <2>4, <2>5, <2>6
<1>7. ASSUME NEW u \in DOMAIN c
      PROVE  Stands(p, u, c[u])
  <2> DEFINE i == Max(by(u))
  <2>1. i \in DOMAIN list /\ list[i].by = u /\ list[i].state = c[u]
    BY <1>4, <1>5
  <2>2. list[i] = [by |-> u, state |-> c[u]]
    BY <1>1, <2>1 DEF Review
  <2>3. \A j \in DOMAIN list : list[j].by = u => i >= j
    BY <1>5
  <2> HIDE DEF i
  <2>4. \A j \in DOMAIN list : j > i => list[j].by # u
    BY <1>1, <2>1, <2>3
  <2> QED BY <2>1, <2>2, <2>4 DEF Stands
<1> HIDE DEF c
<1> QED BY <1>2, <1>3, <1>6, <1>7 DEF c

(* What processPR makes of the reviews is so in the state they were read in. *)
LEMMA ReviewsClassified ==
    ASSUME NEW p, reviews[p] \in Seq(Review), NEW g, g.reviews = reviews[p],
           NEW t \in ProcessPR(p, g, FALSE), t # "pr_ci_failing", NEW commits
    PROVE  Holds([pr |-> p, type |-> t], g, commits)
<1> DEFINE c == CollapseReviewsToLatest(reviews[p])
<1>1. /\ DOMAIN c = {reviews[p][i].by : i \in DOMAIN reviews[p]}
      /\ DOMAIN c \subseteq People
      /\ \A u, s : Stands(p, u, s) <=> u \in DOMAIN c /\ c[u] = s
  BY CollapsedIsLast
<1> HIDE DEF c
<1>2. /\ CountApprovals(c, {}) = Cardinality(Approvers(p))
      /\ CountApprovals(c, {Me}) = Cardinality(Approvers(p) \ {Me})
  <2>1. {u \in DOMAIN c \ {} : c[u] = "APPROVED"} = Approvers(p)
    BY <1>1 DEF Approvers
  <2>2. {u \in DOMAIN c \ {Me} : c[u] = "APPROVED"} = Approvers(p) \ {Me}
    BY <1>1 DEF Approvers
  <2> QED BY <2>1, <2>2 DEF CountApprovals
<1>3. HasChangesRequested(c) <=> \E u \in People : Stands(p, u, "CHANGES_REQUESTED")
  BY <1>1 DEF HasChangesRequested
<1>4. HasDismissedReview(c) => Stands(p, Me, "DISMISSED")
  BY <1>1 DEF HasDismissedReview
<1>5. Me \notin DOMAIN c => \A r \in DOMAIN reviews[p] : reviews[p][r].by # Me
  BY <1>1
<1>6. \/ /\ t = "pr_review_needed" /\ Author[p] \in g.teammates /\ Author[p] # Me
         /\ Me \notin DOMAIN c
         /\ CountApprovals(c, {Me}) < g.minReviewCount
      \/ /\ t = "pr_stale_review" /\ Author[p] \in g.teammates /\ Author[p] # Me
         /\ HasDismissedReview(c)
      \/ t = "pr_changes_requested" /\ Author[p] = Me /\ HasChangesRequested(c)
      \/ /\ t = "pr_approved" /\ Author[p] = Me
         /\ ~HasChangesRequested(c)
         /\ CountApprovals(c, {}) >= g.minReviewCount
  BY DEF ProcessPR, c, Types
<1> QED BY <1>2, <1>3, <1>4, <1>5, <1>6 DEF Holds

(* A failed check and new comments add at most their own items.              *)
LEMMA ChecksAndCommentsClassified ==
    ASSUME NEW p, NEW g, NEW h, NEW t, NEW newComments,
           t \in ProcessPR(p, h, newComments), t \notin ProcessPR(p, g, FALSE),
           h.teammates = g.teammates, h.minReviewCount = g.minReviewCount,
           h.firstSync = g.firstSync, h.reviews = g.reviews
    PROVE  /\ Author[p] = Me
           /\ \/ t = "pr_ci_failing" /\ h.failing
              \/ t = "pr_new_comment" /\ newComments /\ ~h.firstSync
  BY DEF ProcessPR

(* Only the settings of what a Fetch has read enter the conditions.          *)
LEMMA HoldsOfSettings ==
    ASSUME NEW i, NEW g, NEW h, NEW commits, Holds(i, g, commits),
           h.teammates = g.teammates, h.minReviewCount = g.minReviewCount,
           h.firstSync = g.firstSync
    PROVE  Holds(i, h, commits)
  BY DEF Holds

-----------------------------------------------------------------------------
(* Types.  A pull request has at most one commit per change.               *)

TypeInv == TypeOK /\ \A p \in PRs : head[p] <= changes + 1

\* got' may differ from g in where the Fetch is, not in its settings.
SameSettings(g) ==
    /\ got'.teammates = g.teammates
    /\ got'.minReviewCount = g.minReviewCount
    /\ got'.firstSync = g.firstSync

(* Nothing is no listed pull request, whose commits count from 1.            *)
LEMMA NothingNotListed == Nothing \notin Listed
  BY GitHubAssumption DEF Nothing, Listed, Commits

LEMMA NotFetchingType == NotFetching \in Got
<1>1. <<>> \in Seq(Review)
  OBVIOUS
<1> QED BY <1>1, GitHubAssumption DEF NotFetching, Got

LEMMA UnseenType == Unseen \in Seen
<1>1. [p \in PRs |-> {}] \in [PRs -> SUBSET Commits]
  OBVIOUS
<1> QED BY <1>1 DEF Unseen, Seen

\* A Fetch with what it has in g goes on with those listed.
Proceeded(g, listed) ==
    /\ got' \in Got /\ pc' \in {"reviews", "list", "upsert"}
    /\ (got'.pr = Nothing) <=> (pc' \in {"list", "upsert"})
    /\ got'.listed \subseteq listed /\ got'.pr \in listed \union {Nothing}
    /\ ~got'.failing
    /\ SameSettings(g)

(* Where a Fetch proceeds to.                                                *)
LEMMA ProceedStep ==
    ASSUME NEW g \in Got, NEW listed \in SUBSET Listed, Proceed(g, listed)
    PROVE  Proceeded(g, listed)
<1>1. <<>> \in Seq(Review)
  OBVIOUS
<1>2. ASSUME NEW l \in listed,
             got' = [g EXCEPT !.listed = listed \ {l}, !.pr = l,
                              !.reviews = <<>>, !.failing = FALSE],
             pc' = "reviews"
      PROVE  Proceeded(g, listed)
  BY <1>1, <1>2, NothingNotListed DEF Got, SameSettings, Proceeded
<1>3. ASSUME listed = {}, g.space < Spaces,
             got' = [g EXCEPT !.listed = {}, !.space = @ + 1, !.page = 1, !.pr = Nothing,
                              !.reviews = <<>>, !.failing = FALSE],
             pc' = "list"
      PROVE  Proceeded(g, listed)
  <2>1. g.space + 1 \in 1..Spaces
    BY <1>3, GitHubAssumption DEF Got
  <2>2. got' \in Got
    <3> DEFINE done == [g EXCEPT !.listed = {}, !.pr = Nothing, !.reviews = <<>>, !.failing = FALSE]
    <3>1. done \in Got /\ done.space = g.space
      BY <1>1 DEF Got
    <3>2. got' = [done EXCEPT !.space = g.space + 1, !.page = 1]
      BY <1>3 DEF Got
    <3>3. 1 \in Nat \ {0}
      OBVIOUS
    <3> HIDE DEF done
    <3> QED BY <2>1, <3>1, <3>2, <3>3 DEF Got
  <2>3. /\ got'.pr = Nothing /\ got'.listed = {} /\ got'.failing = FALSE
        /\ SameSettings(g)
    BY <1>3 DEF Got, SameSettings
  <2> QED BY <1>3, <2>2, <2>3 DEF Proceeded
<1>4. ASSUME listed = {}, pc' = "upsert",
             got' = [g EXCEPT !.listed = {}, !.pr = Nothing, !.reviews = <<>>, !.failing = FALSE]
      PROVE  Proceeded(g, listed)
  BY <1>1, <1>4 DEF Got, SameSettings, Proceeded
<1> QED BY <1>2, <1>3, <1>4 DEF Proceed

LEMMA ObserveType ==
    ASSUME TypeOK, Observe
    PROVE  seen' \in Seen
<1>1. CASE "idle" \in {pc, pc'}
  BY <1>1, UnseenType DEF Observe
<1>2. CASE "idle" \notin {pc, pc'}
  <2> DEFINE heads == [p \in PRs |-> seen.heads[p] \union {head[p]}]
             held == seen.held \union {i \in Items : Holds(i, got, heads[i.pr])}
             always == {i \in seen.always : i.pr \in open /\ Holds(i, got, {head[i.pr]})}
             left == seen.left \union
                       {q \in seen.opened \ open : pc = "list" /\ Space[q] = got.space}
  <2>1. heads \in [PRs -> SUBSET Commits]
    BY DEF TypeOK, Seen
  <2>2. held \in SUBSET Items /\ always \in SUBSET Items
    BY DEF TypeOK, Seen
  <2>3. seen.opened \union open \in SUBSET PRs /\ left \in SUBSET PRs
    BY DEF TypeOK, Seen
  <2>4. seen' = [held |-> held, always |-> always, heads |-> heads,
                 opened |-> seen.opened \union open, left |-> left]
    BY <1>2 DEF Observe
  <2> HIDE DEF held, always, heads, left
  <2> QED BY <2>1, <2>2, <2>3, <2>4 DEF Seen
<1> QED BY <1>1, <1>2

\* The types of what the world and the settings forms change.
WorldType ==
    /\ open \subseteq PRs /\ commented \subseteq PRs
    /\ reviews \in [PRs -> Seq(Review)]
    /\ head \in [PRs -> Commits] /\ failing \in [PRs -> SUBSET Commits]
    /\ \A p \in PRs : head[p] <= changes + 1
    /\ teammates \in SUBSET People /\ minReviewCount \in Nat
    /\ changes \in 0..MaxChanges

\* Steps outside the sync cycle.
World ==
    \/ GitHubChanges
    \/ \E list \in TeammateLists : UpdateTeammates(list)
    \/ \E n \in MinReviewCounts : UpdateMinReviewCount(n)

LEMMA WorldStep ==
    ASSUME TypeInv, World
    PROVE  WorldType' /\ UNCHANGED <<pc, got, batch, rows, failures>>
<1>1. WorldType
  BY DEF TypeInv, TypeOK, WorldType
<1>2. ASSUME Change PROVE /\ changes' = changes + 1 /\ changes' \in 0..MaxChanges
                          /\ \A p \in PRs : head[p] <= changes' + 1
                          /\ UNCHANGED <<pc, got, batch, rows, failures>>
  <2>1. changes' = changes + 1 /\ changes < MaxChanges /\ changes \in 0..MaxChanges
    BY <1>1, <1>2 DEF Change, WorldType
  <2>2. \A p \in PRs : head[p] \in Int /\ head[p] <= changes + 1
    BY <1>1 DEF WorldType, Commits
  <2> QED BY <1>2, <2>1, <2>2, GitHubAssumption DEF Change
<1>3. ASSUME NEW p \in PRs, OpenPR(p) PROVE WorldType' /\ Change
  BY <1>1, <1>2, <1>3 DEF OpenPR, WorldType, settings
<1>4. ASSUME NEW p \in PRs, ClosePR(p) PROVE WorldType' /\ Change
  BY <1>1, <1>2, <1>4 DEF ClosePR, WorldType, settings
<1>5. ASSUME NEW p \in PRs, Push(p) PROVE WorldType' /\ Change
  <2>1. Change /\ head' = [head EXCEPT ![p] = @ + 1]
    BY <1>5 DEF Push
  <2>2. head[p] + 1 <= changes + 2 /\ head[p] \in Nat /\ head[p] + 1 \in Commits
    BY <1>1, <1>2, <2>1, GitHubAssumption DEF WorldType, Commits
  <2>3. \A q \in PRs : head'[q] <= changes' + 1
    BY <1>1, <1>2, <2>1, <2>2 DEF WorldType
  <2>4. head' \in [PRs -> Commits]
    BY <1>1, <2>1, <2>2 DEF WorldType
  <2> QED BY <1>1, <1>2, <1>5, <2>3, <2>4 DEF Push, WorldType, settings
<1>6. ASSUME NEW p \in PRs, Comment(p) PROVE WorldType' /\ Change
  BY <1>1, <1>2, <1>6 DEF Comment, WorldType, settings
<1>7. ASSUME NEW p \in PRs, NEW u \in People, NEW s \in States, SubmitReview(p, u, s)
      PROVE  WorldType' /\ Change
  <2>1. [by |-> u, state |-> s] \in Review
    BY DEF Review
  <2>2. Append(reviews[p], [by |-> u, state |-> s]) \in Seq(Review)
    BY <1>1, <2>1 DEF WorldType
  <2>3. reviews' \in [PRs -> Seq(Review)]
    BY <1>1, <1>7, <2>2 DEF SubmitReview, WorldType
  <2> QED BY <1>1, <1>2, <1>7, <2>3 DEF SubmitReview, WorldType, settings
<1>8. ASSUME NEW p \in PRs, NEW i \in DOMAIN reviews[p], DismissReview(p, i)
      PROVE  WorldType' /\ Change
  <2> DEFINE list == reviews[p]
             dismissed == [list[i] EXCEPT !.state = "DISMISSED"]
             new == [list EXCEPT ![i] = dismissed]
  <2>1. list \in Seq(Review) /\ i \in DOMAIN list
    BY <1>1 DEF WorldType
  <2>2. list[i] \in Review
    BY <2>1
  <2>3. dismissed \in Review
    BY <2>2 DEF Review, States
  <2> HIDE DEF dismissed
  <2>4. new \in Seq(Review)
    BY <2>1, <2>3
  <2>5. reviews' = [reviews EXCEPT ![p] = new]
    BY <1>8 DEF DismissReview, dismissed
  <2> HIDE DEF new
  <2>6. reviews' \in [PRs -> Seq(Review)]
    BY <1>1, <2>4, <2>5 DEF WorldType
  <2> QED BY <1>1, <1>2, <1>8, <2>6 DEF DismissReview, WorldType, settings
<1>9. ASSUME NEW p \in PRs, NEW c \in Commits, CheckCompletes(p, c)
      PROVE  WorldType' /\ Change
  <2>1. failing' \in [PRs -> SUBSET Commits]
    BY <1>1, <1>9 DEF CheckCompletes, WorldType
  <2> QED BY <1>1, <1>2, <1>9, <2>1 DEF CheckCompletes, WorldType, settings
<1>10. ASSUME NEW list \in TeammateLists, UpdateTeammates(list) PROVE WorldType' /\ Change
  BY <1>1, <1>2, <1>10, GitHubAssumption DEF UpdateTeammates, WorldType, github
<1>11. ASSUME NEW n \in MinReviewCounts, UpdateMinReviewCount(n) PROVE WorldType' /\ Change
  BY <1>1, <1>2, <1>11, GitHubAssumption DEF UpdateMinReviewCount, WorldType, github
<1>12. WorldType' /\ Change
  BY <1>3, <1>4, <1>5, <1>6, <1>7, <1>8, <1>9, <1>10, <1>11 DEF World, GitHubChanges
<1> QED BY <1>2, <1>12

\* The types of what a sync cycle changes.
CycleType ==
    /\ pc \in {"idle", "list", "reviews", "checks", "comments", "upsert"}
    /\ got \in Got
    /\ pc = "idle" => got = NotFetching /\ batch = {}
    /\ (got.pr = Nothing) <=> (pc \in {"idle", "list", "upsert"})
    /\ batch \subseteq Items /\ rows \subseteq Items
    /\ failures \in 0..MaxFailures

LEMMA ReturnStep ==
    ASSUME Return, rows' \subseteq Items, failures' \in 0..MaxFailures
    PROVE  CycleType'
<1>1. NotFetching.pr = Nothing
  BY DEF NotFetching
<1> QED BY <1>1, NotFetchingType DEF Return, CycleType

(* The items of a pull request are items.                                    *)
LEMMA ProcessedItems ==
    ASSUME NEW p \in PRs, NEW g, NEW newComments
    PROVE  [pr : {p}, type : ProcessPR(p, g, newComments)] \subseteq Items
<1>1. ProcessPR(p, g, newComments) \subseteq Types
  BY DEF ProcessPR
<1> HIDE DEF Types
<1> QED BY <1>1 DEF Items

(* The pull requests on a page, with the commits they have just now.         *)
LEMMA PageListed ==
    ASSUME TypeOK
    PROVE  \A p \in PageOf(got.space, got.page) :
              /\ p \in open
              /\ [number |-> p, head |-> head[p], page |-> got.page] \in Listed
  BY DEF TypeOK, PageOf, Got, Listed

LEMMA SyncStep ==
    ASSUME TypeInv, Sync
    PROVE  CycleType' /\ UNCHANGED <<github, settings, changes>>
<1>1. TypeOK /\ CycleType
  BY DEF TypeInv, TypeOK, CycleType
<1>2. UNCHANGED <<github, settings, changes>>
  BY DEF Sync, Begin, ListPRsForRepo, ListPRReviews, ListCheckRuns, ListPRComments, Upsert, Fails
<1>3. ASSUME Begin PROVE CycleType'
  <2>1. PICK first \in BOOLEAN :
          got' = [NotFetching EXCEPT !.teammates = teammates, !.minReviewCount = minReviewCount,
                                     !.firstSync = first]
    BY <1>3 DEF Begin
  <2>2. got' \in Got /\ got'.pr = Nothing
    BY <1>1, <2>1, NotFetchingType DEF TypeOK, Got, NotFetching
  <2> QED BY <1>1, <1>3, <2>2 DEF Begin, CycleType
<1>4. ASSUME ListPRsForRepo PROVE CycleType'
  <2> DEFINE listed == got.listed \union
                       {[number |-> p, head |-> head[p], page |-> got.page] :
                            p \in PageOf(got.space, got.page)}
  <2>1. listed \in SUBSET Listed
    BY <1>1, PageListed DEF CycleType, Got
  <2>2. \/ /\ got' = [got EXCEPT !.listed = listed, !.page = @ + 1]
           /\ pc' = pc
        \/ Proceed(got, listed)
    BY <1>4 DEF ListPRsForRepo
  <2> HIDE DEF listed
  <2>3. CASE got' = [got EXCEPT !.listed = listed, !.page = @ + 1] /\ pc' = pc
    <3> DEFINE next == got.page + 1
    <3>1. next \in Nat \ {0} /\ got' = [got EXCEPT !.listed = listed, !.page = next]
      BY <1>1, <2>3 DEF CycleType, Got
    <3> HIDE DEF next
    <3>2. got' \in Got /\ got'.pr = got.pr
      BY <1>1, <2>1, <3>1 DEF CycleType, Got
    <3> QED BY <1>1, <1>4, <2>3, <3>2 DEF ListPRsForRepo, CycleType
  <2>4. CASE Proceed(got, listed)
    BY <1>1, <1>4, <2>1, <2>4, ProceedStep DEF ListPRsForRepo, CycleType, Proceeded
  <2> QED BY <2>2, <2>3, <2>4
<1>5. ASSUME ListPRReviews PROVE CycleType'
  <2>1. got.pr \in Listed
    BY <1>1, <1>5 DEF ListPRReviews, CycleType, Got
  <2>2. reviews[got.pr.number] \in Seq(Review)
    BY <1>1, <2>1 DEF TypeOK, Listed
  <2>3. got' \in Got /\ got'.pr = got.pr
    BY <1>1, <1>5, <2>2 DEF ListPRReviews, CycleType, Got
  <2> QED BY <1>1, <1>5, <2>3 DEF ListPRReviews, CycleType
<1>6. ASSUME ListCheckRuns PROVE CycleType'
  <2> DEFINE failed == got.pr.head \in failing[got.pr.number]
  <2>1. failed \in BOOLEAN
    OBVIOUS
  <2>2. got' = [got EXCEPT !.failing = failed]
    BY <1>6, Zenon DEF ListCheckRuns
  <2> HIDE DEF failed
  <2>3. got' \in Got /\ got'.pr = got.pr
    BY <1>1, <2>1, <2>2 DEF CycleType, Got
  <2> QED BY <1>1, <1>6, <2>3 DEF ListCheckRuns, CycleType
<1>7. ASSUME ListPRComments PROVE CycleType'
  <2>1. got \in Got /\ got.listed \in SUBSET Listed /\ got.pr.number \in PRs
    BY <1>1, <1>7 DEF ListPRComments, CycleType, Got, Listed
  <2>2. batch' \subseteq Items
    BY <1>1, <1>7, <2>1, ProcessedItems DEF ListPRComments, CycleType
  <2>3. Proceeded(got, got.listed)
    BY <1>7, <2>1, ProceedStep DEF ListPRComments
  <2> QED BY <1>1, <1>7, <2>2, <2>3 DEF ListPRComments, CycleType, Proceeded
<1>8. ASSUME Upsert PROVE CycleType'
  BY <1>1, <1>8, ReturnStep DEF Upsert, CycleType
<1>9. ASSUME Fails PROVE CycleType'
  <2>1. failures' \in 0..MaxFailures
    BY <1>1, <1>9, GitHubAssumption DEF Fails, CycleType
  <2> QED BY <1>1, <1>9, <2>1, ReturnStep DEF Fails, CycleType
<1> QED BY <1>2, <1>3, <1>4, <1>5, <1>6, <1>7, <1>8, <1>9 DEF Sync

(***************************************************************************)
(* GitHubItems is type-correct.                                            *)
(***************************************************************************)
LEMMA TypeInit == Init => TypeInv
<1> SUFFICES ASSUME Init PROVE TypeInv
  OBVIOUS
<1>1. <<>> \in Seq(Review) /\ 1 \in Commits
  BY GitHubAssumption DEF Commits
<1>2. NotFetching.pr = Nothing
  BY DEF NotFetching
<1>3. \A p \in PRs : head[p] <= changes + 1
  BY DEF Init
<1> QED BY <1>1, <1>2, <1>3, NotFetchingType, UnseenType, GitHubAssumption
        DEF Init, TypeInv, TypeOK

LEMMA TypeNext == TypeInv /\ [Next]_vars => TypeInv'
<1> SUFFICES ASSUME TypeInv, [Next]_vars PROVE TypeInv'
  OBVIOUS
<1>1. WorldType /\ CycleType /\ TypeOK
  BY DEF TypeInv, TypeOK, WorldType, CycleType
<1>2. CASE UNCHANGED vars
  BY <1>2 DEF vars, github, settings, TypeInv, TypeOK
<1>3. CASE World /\ Observe
  BY <1>1, <1>3, WorldStep, ObserveType DEF WorldType, CycleType, TypeInv, TypeOK
<1>4. CASE Sync /\ Observe
  BY <1>1, <1>4, SyncStep, ObserveType DEF WorldType, CycleType, TypeInv, TypeOK, github, settings
<1> QED BY <1>2, <1>3, <1>4 DEF Next, World

THEOREM TypeCorrect == Spec => []TypeOK
<1>1. TypeInv => TypeOK
  BY DEF TypeInv
<1> QED BY <1>1, TypeInit, TypeNext, PTL DEF Spec

-----------------------------------------------------------------------------
(* What a Fetch has read was so in some state since it began: the inductive *)
(* invariant for ReportsWhatHeld.                                          *)

\* The pull request was open, and had this head, when its page was read.
WasListed(l) == l.number \in seen.opened /\ l.head \in seen.heads[l.number]

ReadHeld ==
    /\ \A l \in got.listed : WasListed(l)
    /\ got.pr # Nothing => WasListed(got.pr)
    /\ pc = "reviews" => ~got.failing
    /\ pc = "checks" => ~got.failing
    /\ pc \in {"checks", "comments"} =>
          \A t \in ProcessPR(got.pr.number, got, FALSE) :
              [pr |-> got.pr.number, type |-> t] \in seen.held

IInv == TypeInv /\ ReportsWhatHeld /\ ReadHeld

(* What one step of a Fetch notes.                                           *)
LEMMA ObserveStep ==
    ASSUME TypeOK, Observe, pc # "idle", pc' # "idle"
    PROVE  /\ seen.held \subseteq seen'.held
           /\ seen.opened \subseteq seen'.opened /\ open \subseteq seen'.opened
           /\ \A p \in PRs : /\ seen.heads[p] \subseteq seen'.heads[p]
                             /\ head[p] \in seen'.heads[p]
           /\ \A i \in Items : Holds(i, got, seen'.heads[i.pr]) => i \in seen'.held
<1> DEFINE heads == [p \in PRs |-> seen.heads[p] \union {head[p]}]
           held == seen.held \union {i \in Items : Holds(i, got, heads[i.pr])}
<1>1. seen'.heads = heads /\ seen'.held = held /\ seen'.opened = seen.opened \union open
  BY DEF Observe
<1>2. \A p \in PRs : seen'.heads[p] = seen.heads[p] \union {head[p]}
  BY <1>1
<1>3. seen'.held = seen.held \union {i \in Items : Holds(i, got, seen'.heads[i.pr])}
  BY <1>1
<1> HIDE DEF heads, held
<1> QED BY <1>1, <1>2, <1>3

(* When no cycle is under way there is nothing to say.                       *)
LEMMA IdleHeld ==
    ASSUME CycleType', pc' = "idle"
    PROVE  ReportsWhatHeld' /\ ReadHeld'
  BY DEF CycleType, ReportsWhatHeld, ReadHeld, NotFetching

(* What was noted stays noted.                                               *)
LEMMA WasListedStays ==
    ASSUME TypeOK, Observe, pc # "idle", pc' # "idle", NEW l \in Listed, WasListed(l)
    PROVE  WasListed(l)'
<1>1. l.number \in PRs
  BY DEF Listed
<1> QED BY <1>1, ObserveStep DEF WasListed

LEMMA ReportsStay ==
    ASSUME TypeOK, Observe, pc # "idle", pc' # "idle", ReportsWhatHeld, batch' = batch
    PROVE  ReportsWhatHeld'
  BY ObserveStep DEF ReportsWhatHeld

(* A change of the world during a Fetch.                                     *)
LEMMA HeldWorld ==
    ASSUME IInv, World, Observe, pc # "idle"
    PROVE  ReportsWhatHeld' /\ ReadHeld'
<1>1. TypeOK /\ UNCHANGED <<pc, got, batch>>
  BY WorldStep DEF IInv, TypeInv
<1>2. ReportsWhatHeld'
  BY <1>1, ReportsStay DEF IInv
<1>3. got.listed \subseteq Listed /\ (got.pr # Nothing => got.pr \in Listed)
  BY <1>1 DEF TypeOK, Got
<1>4. /\ \A l \in got.listed : WasListed(l)'
      /\ got.pr # Nothing => WasListed(got.pr)'
  BY <1>1, <1>3, WasListedStays DEF IInv, ReadHeld
<1>5. seen.held \subseteq seen'.held
  BY <1>1, ObserveStep
<1>6. ReadHeld'
  BY <1>1, <1>4, <1>5 DEF IInv, ReadHeld, WasListed
<1> QED BY <1>2, <1>6

(* The list of pull requests, and where the Fetch proceeds from there.       *)
LEMMA HeldProceeded ==
    ASSUME IInv, Observe, pc # "idle", NEW g \in Got, NEW listed \in SUBSET Listed,
           Proceeded(g, listed), \A l \in listed : WasListed(l)'
    PROVE  ReadHeld'
<1>1. pc' \in {"reviews", "list", "upsert"} /\ ~got'.failing
  BY DEF Proceeded
<1>2. \A l \in got'.listed : WasListed(l)'
  BY DEF Proceeded
<1>3. got'.pr # Nothing => WasListed(got.pr)'
  BY DEF Proceeded, WasListed
<1> QED BY <1>1, <1>2, <1>3 DEF ReadHeld, WasListed

LEMMA HeldListPRs ==
    ASSUME IInv, Observe, ListPRsForRepo, TypeInv'
    PROVE  ReportsWhatHeld' /\ ReadHeld'
<1> DEFINE listed == got.listed \union
                     {[number |-> p, head |-> head[p], page |-> got.page] :
                          p \in PageOf(got.space, got.page)}
<1>1. TypeOK /\ got \in Got /\ pc = "list" /\ batch' = batch
  BY DEF IInv, TypeInv, TypeOK, ListPRsForRepo
<1>2. listed \in SUBSET Listed
  BY <1>1, PageListed DEF Got
<1>3. \/ /\ got' = [got EXCEPT !.listed = listed, !.page = @ + 1]
         /\ pc' = pc
      \/ Proceed(got, listed)
  BY DEF ListPRsForRepo
<1>4. pc' # "idle"
  BY <1>1, <1>2, <1>3, ProceedStep DEF Proceeded
<1>5. ReportsWhatHeld'
  BY <1>1, <1>4, ReportsStay DEF IInv
<1>6. ASSUME NEW p \in PageOf(got.space, got.page), NEW l \in Listed,
             l = [number |-> p, head |-> head[p], page |-> got.page]
      PROVE  WasListed(l)'
  <2>1. p \in PRs /\ p \in open /\ l.number = p /\ l.head = head[p]
    BY <1>1, <1>6, PageListed DEF TypeOK
  <2>2. p \in seen'.opened /\ head[p] \in seen'.heads[p]
    BY <1>1, <1>4, <2>1, ObserveStep
  <2> QED BY <2>1, <2>2 DEF WasListed
<1>7. ASSUME NEW l \in listed
      PROVE  WasListed(l)'
  <2>1. CASE l \in got.listed
    BY <1>1, <1>2, <1>4, <2>1, WasListedStays DEF IInv, ReadHeld
  <2>2. CASE l \notin got.listed
    <3>1. PICK p \in PageOf(got.space, got.page) :
            l = [number |-> p, head |-> head[p], page |-> got.page]
      BY <2>2
    <3>2. l \in Listed
      BY <1>2
    <3> QED BY <1>6, <3>1, <3>2
  <2> QED BY <2>1, <2>2
<1> HIDE DEF listed
<1>8. CASE got' = [got EXCEPT !.listed = listed, !.page = @ + 1] /\ pc' = pc
  <2>1. got'.listed = listed /\ got'.pr = Nothing
    BY <1>1, <1>8 DEF TypeOK, Got
  <2> QED BY <1>1, <1>5, <1>7, <1>8, <2>1 DEF ReadHeld, WasListed
<1>9. CASE Proceed(got, listed)
  BY <1>1, <1>2, <1>5, <1>7, <1>9, ProceedStep, HeldProceeded
<1> QED BY <1>3, <1>8, <1>9

LEMMA HeldReviews ==
    ASSUME IInv, Observe, ListPRReviews
    PROVE  ReportsWhatHeld' /\ ReadHeld'
<1> DEFINE p == got.pr.number
<1>1. /\ TypeOK /\ got \in Got /\ pc = "reviews" /\ pc' = "checks" /\ batch' = batch
      /\ got.pr \in Listed /\ p \in PRs
  BY DEF IInv, TypeInv, TypeOK, ListPRReviews, Got, Listed
<1>2. ReportsWhatHeld'
  BY <1>1, ReportsStay DEF IInv
<1>3. /\ got'.listed = got.listed /\ got'.pr = got.pr /\ got'.failing = got.failing
      /\ got'.reviews = reviews[p] /\ SameSettings(got)
  BY <1>1 DEF ListPRReviews, Got, SameSettings
<1>4. ~got'.failing
  BY <1>1, <1>3 DEF IInv, ReadHeld
<1>5. ASSUME NEW t \in ProcessPR(p, got', FALSE)
      PROVE  [pr |-> p, type |-> t] \in seen'.held
  <2>1. t # "pr_ci_failing" /\ t \in Types
    BY <1>4, <1>5 DEF ProcessPR
  <2>2. reviews[p] \in Seq(Review)
    BY <1>1 DEF TypeOK
  <2>3. Holds([pr |-> p, type |-> t], got', seen'.heads[p])
    BY <1>3, <1>5, <2>1, <2>2, ReviewsClassified
  <2>4. Holds([pr |-> p, type |-> t], got, seen'.heads[p])
    BY <1>3, <2>3, HoldsOfSettings DEF SameSettings
  <2>5. [pr |-> p, type |-> t] \in Items
    BY <1>1, <2>1 DEF Items
  <2> QED BY <1>1, <2>4, <2>5, ObserveStep
<1>6. \A l \in got.listed : WasListed(l)'
  BY <1>1, WasListedStays DEF IInv, ReadHeld, Got
<1>7. WasListed(got.pr)'
  <2>1. WasListed(got.pr)
    BY <1>1, NothingNotListed DEF IInv, ReadHeld
  <2> QED BY <1>1, <1>3, <2>1, WasListedStays DEF WasListed
<1> QED BY <1>1, <1>2, <1>3, <1>4, <1>5, <1>6, <1>7 DEF ReadHeld, WasListed

LEMMA HeldChecks ==
    ASSUME IInv, Observe, ListCheckRuns
    PROVE  ReportsWhatHeld' /\ ReadHeld'
<1> DEFINE p == got.pr.number
           failed == got.pr.head \in failing[p]
<1>1. /\ TypeOK /\ got \in Got /\ pc = "checks" /\ pc' = "comments" /\ batch' = batch
      /\ got.pr \in Listed /\ p \in PRs /\ got.pr.head \in Commits
  BY DEF IInv, TypeInv, TypeOK, ListCheckRuns, Got, Listed
<1>2. ReportsWhatHeld'
  BY <1>1, ReportsStay DEF IInv
<1>3. got' = [got EXCEPT !.failing = failed]
  BY Zenon DEF ListCheckRuns
<1>4. /\ got'.listed = got.listed /\ got'.pr = got.pr
      /\ got'.reviews = got.reviews /\ SameSettings(got)
  <2> HIDE DEF failed
  <2> QED BY <1>1, <1>3 DEF Got, SameSettings
<1>5. got'.failing = failed
  <2> HIDE DEF failed
  <2> QED BY <1>1, <1>3, Zenon DEF Got
<1>6. WasListed(got.pr)
  BY <1>1, NothingNotListed DEF IInv, ReadHeld
<1>7. WasListed(got.pr)'
  BY <1>1, <1>4, <1>6, WasListedStays DEF WasListed
<1>8. ASSUME NEW t \in ProcessPR(p, got', FALSE)
      PROVE  [pr |-> p, type |-> t] \in seen'.held
  <2>1. CASE t \in ProcessPR(p, got, FALSE)
    BY <1>1, <2>1, ObserveStep DEF IInv, ReadHeld
  <2>2. CASE t \notin ProcessPR(p, got, FALSE)
    <3>1. Author[p] = Me /\ t = "pr_ci_failing" /\ got'.failing
      BY <1>4, <1>8, <2>2, ChecksAndCommentsClassified DEF SameSettings
    <3>2. got.pr.head \in seen'.heads[p] \cap failing[p]
      BY <1>1, <1>5, <1>6, <3>1, ObserveStep DEF WasListed
    <3>3. Holds([pr |-> p, type |-> t], got, seen'.heads[p])
      BY <3>1, <3>2 DEF Holds
    <3>4. [pr |-> p, type |-> t] \in Items
      BY <1>1, <3>1 DEF Items, Types
    <3> QED BY <1>1, <3>3, <3>4, ObserveStep
  <2> QED BY <2>1, <2>2
<1>9. \A l \in got.listed : WasListed(l)'
  BY <1>1, WasListedStays DEF IInv, ReadHeld, Got
<1> QED BY <1>1, <1>2, <1>4, <1>7, <1>8, <1>9 DEF ReadHeld, WasListed

LEMMA HeldComments ==
    ASSUME IInv, Observe, ListPRComments
    PROVE  ReportsWhatHeld' /\ ReadHeld'
<1> DEFINE p == got.pr.number
           new == p \in commented
           types == ProcessPR(p, got, new)
<1>1. /\ TypeOK /\ got \in Got /\ pc = "comments"
      /\ got.pr \in Listed /\ p \in PRs /\ got.listed \in SUBSET Listed
  BY DEF IInv, TypeInv, TypeOK, ListPRComments, Got, Listed
<1>2. batch' = batch \union [pr : {p}, type : types] /\ Proceed(got, got.listed)
  BY DEF ListPRComments
<1>3. Proceeded(got, got.listed)
  BY <1>1, <1>2, ProceedStep
<1>4. pc' # "idle"
  BY <1>3 DEF Proceeded
<1>5. \A l \in got.listed : WasListed(l)'
  BY <1>1, <1>4, WasListedStays DEF IInv, ReadHeld
<1>6. ReadHeld'
  BY <1>1, <1>3, <1>5, HeldProceeded
<1>7. ASSUME NEW t \in types
      PROVE  [pr |-> p, type |-> t] \in seen'.held
  <2>1. CASE t \in ProcessPR(p, got, FALSE)
    BY <1>1, <1>4, <2>1, ObserveStep DEF IInv, ReadHeld
  <2>2. CASE t \notin ProcessPR(p, got, FALSE)
    <3>1. /\ Author[p] = Me
          /\ \/ t = "pr_ci_failing" /\ got.failing
             \/ t = "pr_new_comment" /\ new /\ ~got.firstSync
      BY <1>7, <2>2, ChecksAndCommentsClassified
    <3>2. t # "pr_ci_failing"
      BY <2>2, <3>1 DEF ProcessPR, Types
    <3>3. Holds([pr |-> p, type |-> t], got, seen'.heads[p])
      BY <3>1, <3>2 DEF Holds
    <3>4. [pr |-> p, type |-> t] \in Items
      BY <1>1, <3>1 DEF Items, Types
    <3> QED BY <1>1, <1>4, <3>3, <3>4, ObserveStep
  <2> QED BY <2>1, <2>2
<1>8. p \in seen'.opened
  <2>1. WasListed(got.pr)
    BY <1>1, NothingNotListed DEF IInv, ReadHeld
  <2> QED BY <1>1, <1>4, <2>1, ObserveStep DEF WasListed
<1>9. ReportsWhatHeld'
  <2>1. \A i \in batch : i \in seen'.held /\ i.pr \in seen'.opened
    BY <1>1, <1>4, ObserveStep DEF IInv, ReportsWhatHeld
  <2>2. \A i \in [pr : {p}, type : types] : i.pr = p /\ i.type \in types /\ i = [pr |-> i.pr, type |-> i.type]
    <3> HIDE DEF types
    <3> QED OBVIOUS
  <2>3. \A i \in [pr : {p}, type : types] : i \in seen'.held /\ i.pr \in seen'.opened
    BY <1>7, <1>8, <2>2
  <2> HIDE DEF types, p
  <2> QED BY <1>2, <2>1, <2>3 DEF ReportsWhatHeld
<1> QED BY <1>6, <1>9

LEMMA HeldInit == Init => IInv
<1> SUFFICES ASSUME Init PROVE IInv
  OBVIOUS
<1>1. TypeInv
  BY TypeInit
<1> QED BY <1>1 DEF Init, IInv, ReportsWhatHeld, ReadHeld, NotFetching

LEMMA HeldNext == IInv /\ [Next]_vars => IInv'
<1> SUFFICES ASSUME IInv, [Next]_vars PROVE IInv'
  OBVIOUS
<1>1. TypeInv /\ TypeInv' /\ CycleType'
  BY TypeNext DEF IInv, TypeInv, TypeOK, CycleType
<1>2. CASE UNCHANGED vars
  BY <1>1, <1>2 DEF vars, IInv, ReportsWhatHeld, ReadHeld, WasListed
<1>3. CASE World /\ Observe
  <2>1. pc' = pc
    BY <1>1, <1>3, WorldStep
  <2> QED BY <1>1, <1>3, <2>1, IdleHeld, HeldWorld DEF IInv
<1>4. CASE Sync /\ Observe
  <2>1. CASE Begin
    <3>1. /\ pc = "idle" /\ pc' = "list" /\ batch' = {}
          /\ got'.listed = {} /\ got'.pr = Nothing
      BY <1>1, <2>1 DEF Begin, NotFetching, TypeInv, TypeOK
    <3> QED BY <1>1, <3>1 DEF IInv, ReportsWhatHeld, ReadHeld
  <2>2. CASE Upsert \/ Fails
    BY <1>1, <2>2, IdleHeld DEF Upsert, Fails, Return, IInv
  <2> QED BY <1>1, <1>4, <2>1, <2>2, HeldListPRs, HeldReviews, HeldChecks, HeldComments
          DEF Sync, IInv
<1> QED BY <1>2, <1>3, <1>4 DEF Next, World

(***************************************************************************)
(* Every item a Fetch reports was warranted in some state of that Fetch,   *)
(* on a pull request that was then among the open ones.                    *)
(***************************************************************************)
THEOREM ReportsWereTrue == Spec => []ReportsWhatHeld
<1>1. IInv => ReportsWhatHeld
  BY DEF IInv
<1> QED BY <1>1, HeldInit, HeldNext, PTL DEF Spec
-----------------------------------------------------------------------------
(* What lasts is on its way to the report: the inductive invariant for     *)
(* ReportsWhatLasts.  It follows an item whose condition has held since    *)
(* the Fetch began from the space to be listed to the batch.               *)

\* The pull requests listed before p that were open at some time.
NewerSeen(p) == {q \in seen.opened : Space[q] = Space[p] /\ q > p}

\* p is listed and still to be read, or being read.
Pending(p) ==
    \/ \E l \in got.listed : l.number = p
    \/ got.pr # Nothing /\ got.pr.number = p

\* The Fetch has yet to come to p: the pages read so far hold newer ones only.
Ahead(p) ==
    \/ Space[p] > got.space
    \/ /\ Space[p] = got.space
       /\ \/ pc # "upsert" /\ Pending(p)
          \/ pc = "list" /\ (got.page - 1) * PageSize <= Cardinality(NewerSeen(p))

\* What has held all along is gathered, ahead, or shifted out of the pages.
Coming ==
    pc # "idle" => \A i \in seen.always : i \in batch \/ Ahead(i.pr) \/ Shifted(i.pr)

\* Only existing commits have checks: a push makes a head without any.
ChecksOfCommits == \A p \in PRs : failing[p] \subseteq 1..head[p]

\* A head that has failed since the Fetch began is the one p is listed with.
HeadsListed ==
    \A i \in seen.always :
        i.type = "pr_ci_failing" /\ head[i.pr] \in failing[i.pr] =>
            \A l \in got.listed \union ({got.pr} \ {Nothing}) :
                l.number = i.pr => l.head = head[i.pr]

\* What has held all along shows in the answers read so far.
ReadLasts ==
    pc \in {"checks", "comments"} =>
        \A i \in seen.always : i.pr = got.pr.number =>
            \/ i.type \in ProcessPR(i.pr, got, FALSE)
            \/ i.type = "pr_ci_failing" /\ pc = "checks"
            \/ i.type = "pr_new_comment"

Lasting ==
    /\ Coming /\ HeadsListed /\ ReadLasts
    /\ pc = "upsert" => got.space = Spaces

LInv == IInv /\ ChecksOfCommits /\ Lasting

(* The numbers among the constants, and of sets of pull requests.            *)
LEMMA Numbers ==
    /\ PageSize \in Nat \ {0} /\ Spaces \in Nat \ {0}
    /\ PRs \subseteq Nat /\ Space \in [PRs -> 1..Spaces]
    /\ \A S \in SUBSET PRs : IsFiniteSet(S) /\ Cardinality(S) \in Nat
<1>1. /\ PageSize \in Nat \ {0} /\ Spaces \in Nat \ {0}
      /\ PRs \subseteq Nat /\ Space \in [PRs -> 1..Spaces]
  BY Zenon, GitHubAssumption
<1>2. IsFiniteSet(PRs)
  BY Zenon, GitHubAssumption
<1>3. ASSUME NEW S \in SUBSET PRs
      PROVE  IsFiniteSet(S) /\ Cardinality(S) \in Nat
  BY <1>2, FS_Subset, FS_CardinalityType
<1> QED BY <1>1, <1>3

(* Rank n is on page k, when it is on no earlier and no later one.           *)
LEMMA OnPage ==
    ASSUME NEW n \in Nat, NEW d \in Nat \ {0}, NEW k \in Nat \ {0},
           (k - 1) * d <= n, n < k * d
    PROVE  n \div d = k - 1
<1> DEFINE m == n \div d
<1>1. m \in Int /\ n = d * m + (n % d) /\ n % d \in 0..(d - 1)
  OBVIOUS
<1> HIDE DEF m
<1>2. d * m <= n /\ n < d * m + d
  BY <1>1
<1>3. (k - 1) * d < (m + 1) * d
  BY <1>1, <1>2
<1>4. m * d < k * d
  BY <1>1, <1>2
<1>5. k - 1 < m + 1 /\ m < k
  BY <1>1, <1>3, <1>4
<1> QED BY <1>1, <1>5 DEF m

(* What the reviews warrant when they are read, processPR makes of them.     *)
LEMMA ReviewsReported ==
    ASSUME NEW p, reviews[p] \in Seq(Review), NEW g, g.reviews = reviews[p],
           NEW t \in Types \ {"pr_ci_failing", "pr_new_comment"}, NEW commits,
           Holds([pr |-> p, type |-> t], g, commits)
    PROVE  t \in ProcessPR(p, g, FALSE)
<1> DEFINE c == CollapseReviewsToLatest(reviews[p])
<1>1. /\ DOMAIN c = {reviews[p][i].by : i \in DOMAIN reviews[p]}
      /\ DOMAIN c \subseteq People
      /\ \A u, s : Stands(p, u, s) <=> u \in DOMAIN c /\ c[u] = s
  BY CollapsedIsLast
<1> HIDE DEF c
<1>2. /\ CountApprovals(c, {}) = Cardinality(Approvers(p))
      /\ CountApprovals(c, {Me}) = Cardinality(Approvers(p) \ {Me})
  <2>1. {u \in DOMAIN c \ {} : c[u] = "APPROVED"} = Approvers(p)
    BY <1>1 DEF Approvers
  <2>2. {u \in DOMAIN c \ {Me} : c[u] = "APPROVED"} = Approvers(p) \ {Me}
    BY <1>1 DEF Approvers
  <2> QED BY <2>1, <2>2 DEF CountApprovals
<1>3. HasChangesRequested(c) <=> \E u \in People : Stands(p, u, "CHANGES_REQUESTED")
  BY <1>1 DEF HasChangesRequested
<1>4. Stands(p, Me, "DISMISSED") => HasDismissedReview(c)
  BY <1>1 DEF HasDismissedReview
<1>5. (\A r \in DOMAIN reviews[p] : reviews[p][r].by # Me) => Me \notin DOMAIN c
  BY <1>1
<1>6. \/ /\ t = "pr_review_needed" /\ Author[p] # Me /\ Author[p] \in g.teammates
         /\ Cardinality(Approvers(p) \ {Me}) < g.minReviewCount
         /\ \A r \in DOMAIN reviews[p] : reviews[p][r].by # Me
      \/ /\ t = "pr_stale_review" /\ Author[p] # Me /\ Author[p] \in g.teammates
         /\ Stands(p, Me, "DISMISSED")
      \/ /\ t = "pr_changes_requested" /\ Author[p] = Me
         /\ \E u \in People : Stands(p, u, "CHANGES_REQUESTED")
      \/ /\ t = "pr_approved" /\ Author[p] = Me
         /\ ~\E u \in People : Stands(p, u, "CHANGES_REQUESTED")
         /\ Cardinality(Approvers(p)) >= g.minReviewCount
  BY DEF Holds
<1> QED BY <1>1, <1>2, <1>3, <1>4, <1>5, <1>6 DEF ProcessPR, c

(* What is so of the reviews stays so when checks and comments are read.     *)
LEMMA ReviewsStand ==
    ASSUME NEW p, NEW g, NEW h, NEW t \in ProcessPR(p, g, FALSE), t # "pr_ci_failing",
           h.teammates = g.teammates, h.minReviewCount = g.minReviewCount,
           h.firstSync = g.firstSync, h.reviews = g.reviews, NEW newComments
    PROVE  t \in ProcessPR(p, h, newComments)
  BY DEF ProcessPR

(* What one step of a Fetch notes of what lasts.                             *)
LEMMA ObserveLasting ==
    ASSUME TypeOK, Observe, pc # "idle", pc' # "idle"
    PROVE  /\ seen'.opened = seen.opened \union open
           /\ seen'.left = seen.left \union
                             {q \in seen.opened \ open : pc = "list" /\ Space[q] = got.space}
           /\ \A i \in seen'.always : /\ i \in seen.always /\ i \in Items
                                      /\ i.pr \in open /\ i.pr \in PRs /\ i.type \in Types
                                      /\ Holds(i, got, {head[i.pr]})
<1>1. /\ seen'.opened = seen.opened \union open
      /\ seen'.left = seen.left \union
                        {q \in seen.opened \ open : pc = "list" /\ Space[q] = got.space}
      /\ seen'.always = {i \in seen.always : i.pr \in open /\ Holds(i, got, {head[i.pr]})}
  BY DEF Observe
<1>2. seen.always \subseteq Items
  BY DEF TypeOK, Seen
<1>3. \A i \in Items : i.pr \in PRs /\ i.type \in Types
  BY DEF Items
<1> QED BY <1>1, <1>2, <1>3

(* What has lasted until now had lasted before, and as many are before it.   *)
LEMMA LastedBefore ==
    ASSUME TypeOK, Observe, pc # "idle", pc' # "idle", NEW p \in PRs, ~Shifted(p)'
    PROVE  /\ ~Shifted(p)
           /\ Cardinality(NewerSeen(p)) \in Nat /\ Cardinality(NewerSeen(p))' \in Nat
           /\ Cardinality(NewerSeen(p)) <= Cardinality(NewerSeen(p))'
<1>1. ~Shifted(p)
  BY ObserveLasting DEF Shifted
<1>2. NewerSeen(p) \subseteq NewerSeen(p)' /\ NewerSeen(p)' \subseteq PRs
  BY ObserveLasting DEF NewerSeen, TypeOK, Seen
<1>3. IsFiniteSet(NewerSeen(p)')
  BY <1>2, Numbers
<1> QED BY <1>1, <1>2, <1>3, FS_Subset, Numbers

(* When p's space is listed and p not shifted, the newer ones seen so far    *)
(* are those that are open.                                                  *)
LEMMA NewerAreOpen ==
    ASSUME TypeOK, Observe, pc = "list", pc' # "idle", NEW p \in PRs,
           Space[p] = got.space, ~Shifted(p)'
    PROVE  Newer(p) = Cardinality(NewerSeen(p))'
<1>1. /\ seen'.opened = seen.opened \union open
      /\ \A q \in seen.opened \ open : Space[q] = got.space => q \in seen'.left
  BY ObserveLasting
<1>2. NewerSeen(p)' = {q \in open : Space[q] = Space[p] /\ q > p}
  BY <1>1 DEF NewerSeen, Shifted
<1> QED BY <1>2 DEF Newer

(* Where a Fetch goes, and what it has listed then.                          *)
LEMMA ProceedTo ==
    ASSUME NEW g \in Got, NEW listed \in SUBSET Listed, Proceed(g, listed)
    PROVE  \/ \E l \in listed : /\ pc' = "reviews" /\ got'.space = g.space
                                /\ got'.listed = listed \ {l} /\ got'.pr = l
           \/ /\ listed = {} /\ pc' = "list" /\ g.space < Spaces
              /\ got'.space = g.space + 1 /\ got'.page = 1
           \/ listed = {} /\ pc' = "upsert" /\ got'.space = g.space /\ g.space = Spaces
<1>1. ASSUME NEW l \in listed, pc' = "reviews",
             got' = [g EXCEPT !.listed = listed \ {l}, !.pr = l,
                              !.reviews = <<>>, !.failing = FALSE]
      PROVE  got'.space = g.space /\ got'.listed = listed \ {l} /\ got'.pr = l
  BY <1>1 DEF Got
<1>2. ASSUME listed = {}, g.space < Spaces, pc' = "list",
             got' = [g EXCEPT !.listed = {}, !.space = @ + 1, !.page = 1, !.pr = Nothing,
                              !.reviews = <<>>, !.failing = FALSE]
      PROVE  got'.space = g.space + 1 /\ got'.page = 1
  BY <1>2 DEF Got
<1>3. ASSUME listed = {}, g.space = Spaces, pc' = "upsert",
             got' = [g EXCEPT !.listed = {}, !.pr = Nothing, !.reviews = <<>>, !.failing = FALSE]
      PROVE  got'.space = g.space
  BY <1>3 DEF Got
<1> QED BY <1>1, <1>2, <1>3 DEF Proceed

(* What is in the batch, in a later space or on the list does not get lost   *)
(* where the Fetch goes on.                                                  *)
LEMMA LastingProceeds ==
    ASSUME TypeOK, Observe, pc # "idle", NEW g \in Got, NEW listed \in SUBSET Listed,
           Proceed(g, listed),
           \A i \in seen'.always :
              \/ i \in batch' \/ Shifted(i.pr)' \/ Space[i.pr] > g.space
              \/ Space[i.pr] = g.space /\ \E l \in listed : l.number = i.pr,
           \A i \in seen'.always :
              i.type = "pr_ci_failing" /\ head'[i.pr] \in failing'[i.pr] =>
                  \A l \in listed : l.number = i.pr => l.head = head'[i.pr]
    PROVE  Lasting'
<1>1. Proceeded(g, listed) /\ pc' \in {"reviews", "list", "upsert"}
  BY ProceedStep DEF Proceeded
<1>2. pc' = "upsert" => got'.space = Spaces
  BY ProceedTo
<1>3. HeadsListed'
  <2>1. got'.listed \union ({got'.pr} \ {Nothing}) \subseteq listed
    BY <1>1 DEF Proceeded
  <2> QED BY <2>1 DEF HeadsListed
<1>4. ReadLasts'
  BY <1>1 DEF ReadLasts
<1>5. ASSUME NEW i \in seen'.always, i \notin batch', ~Shifted(i.pr)'
      PROVE  Ahead(i.pr)'
  <2>1. i.pr \in PRs /\ Space[i.pr] \in 1..Spaces
    BY <1>1, ObserveLasting, Numbers
  <2>2. \/ Space[i.pr] > g.space
        \/ Space[i.pr] = g.space /\ \E l \in listed : l.number = i.pr
    BY <1>5
  <2>3. CASE \E l \in listed : /\ pc' = "reviews" /\ got'.space = g.space
                               /\ got'.listed = listed \ {l} /\ got'.pr = l
    <3>1. PICK l \in listed : /\ pc' = "reviews" /\ got'.space = g.space
                              /\ got'.listed = listed \ {l} /\ got'.pr = l
      BY <2>3
    <3>2. l # Nothing
      BY NothingNotListed
    <3>3. (\E m \in listed : m.number = i.pr) => Pending(i.pr)'
      BY <3>1, <3>2 DEF Pending
    <3> QED BY <2>2, <3>1, <3>3 DEF Ahead
  <2>4. CASE listed = {} /\ pc' = "list" /\ got'.space = g.space + 1 /\ got'.page = 1
    <3>1. g.space \in 1..Spaces
      BY DEF Got
    <3>2. Cardinality(NewerSeen(i.pr))' \in Nat
      <4>1. NewerSeen(i.pr)' \subseteq PRs
        BY <1>1, ObserveType DEF NewerSeen, Seen
      <4> QED BY <4>1, Numbers
    <3>3. (1 - 1) * PageSize = 0
      BY Numbers
    <3>4. Space[i.pr] > got'.space \/ Space[i.pr] = got'.space
      BY <2>1, <2>2, <2>4, <3>1, Numbers
    <3> QED BY <2>4, <3>2, <3>3, <3>4 DEF Ahead
  <2>5. CASE listed = {} /\ pc' = "upsert" /\ got'.space = g.space /\ g.space = Spaces
    BY <2>1, <2>2, <2>5, Numbers
  <2> QED BY <2>3, <2>4, <2>5, ProceedTo
<1>6. Coming'
  BY <1>5 DEF Coming
<1> QED BY <1>2, <1>3, <1>4, <1>6 DEF Lasting

(* When no cycle is under way there is nothing to come.                      *)
LEMMA IdleLasting ==
    ASSUME CycleType', pc' = "idle"
    PROVE  Lasting'
<1>1. got'.listed = {} /\ got'.pr = Nothing
  BY DEF CycleType, NotFetching
<1> QED BY <1>1 DEF Lasting, Coming, HeadsListed, ReadLasts

LEMMA LastingBegin ==
    ASSUME TypeOK, Observe, Begin
    PROVE  Lasting'
<1>1. /\ pc = "idle" /\ pc' = "list" /\ got'.listed = {} /\ got'.pr = Nothing
      /\ got'.space = 1 /\ got'.page = 1
  BY DEF Begin, NotFetching
<1>2. seen' = Unseen
  BY <1>1 DEF Observe
<1>3. ASSUME NEW i \in Items
      PROVE  Ahead(i.pr)'
  <2>1. i.pr \in PRs /\ Space[i.pr] \in 1..Spaces
    BY Numbers DEF Items
  <2>2. NewerSeen(i.pr)' = {}
    BY <1>2 DEF NewerSeen, Unseen
  <2>3. Cardinality(NewerSeen(i.pr)') = 0
    BY <2>2, FS_EmptySet
  <2>4. (1 - 1) * PageSize = 0
    BY Numbers
  <2> QED BY <1>1, <2>1, <2>3, <2>4, Numbers DEF Ahead
<1>4. seen'.always = Items
  BY <1>2 DEF Unseen
<1> QED BY <1>1, <1>3, <1>4 DEF Lasting, Coming, HeadsListed, ReadLasts

(* A failed head was no new one: a push gives p a head without checks.       *)
LEMMA PushedNotFailing ==
    ASSUME TypeInv, ChecksOfCommits, World
    PROVE  /\ ChecksOfCommits'
           /\ \A p \in PRs : head'[p] \in failing'[p] => head'[p] = head[p]
<1>1. /\ head \in [PRs -> Commits] /\ failing \in [PRs -> SUBSET Commits]
      /\ \A p \in PRs : head[p] \in Nat /\ failing[p] \subseteq 1..head[p]
  BY GitHubAssumption DEF TypeInv, TypeOK, Commits, ChecksOfCommits
<1>2. CASE UNCHANGED <<head, failing>>
  BY <1>2 DEF ChecksOfCommits
<1>3. ASSUME NEW p \in PRs, Push(p)
      PROVE  /\ ChecksOfCommits'
             /\ \A q \in PRs : head'[q] \in failing'[q] => head'[q] = head[q]
  <2>1. head' = [head EXCEPT ![p] = @ + 1] /\ failing' = failing
    BY <1>3 DEF Push
  <2>2. \A q \in PRs : /\ head'[q] = IF q = p THEN head[q] + 1 ELSE head[q]
                       /\ failing'[q] \subseteq 1..head[q]
    BY <1>1, <2>1
  <2> QED BY <1>1, <2>2 DEF ChecksOfCommits
<1>4. ASSUME NEW p \in PRs, NEW c \in Commits, CheckCompletes(p, c)
      PROVE  /\ ChecksOfCommits'
             /\ \A q \in PRs : head'[q] \in failing'[q] => head'[q] = head[q]
  <2>1. /\ head' = head /\ c <= head[p]
        /\ failing' = [failing EXCEPT ![p] = IF c \in @ THEN @ \ {c} ELSE @ \union {c}]
    BY <1>4 DEF CheckCompletes
  <2>2. c \in 1..head[p]
    BY <1>1, <2>1, GitHubAssumption DEF Commits
  <2>3. \A q \in PRs : failing'[q] \subseteq failing[q] \union (IF q = p THEN {c} ELSE {})
    BY <1>1, <2>1
  <2> QED BY <1>1, <2>1, <2>2, <2>3 DEF ChecksOfCommits
<1>5. \/ UNCHANGED <<head, failing>>
      \/ \E p \in PRs : Push(p) \/ \E c \in Commits : CheckCompletes(p, c)
  BY DEF World, GitHubChanges, OpenPR, ClosePR, Comment, SubmitReview, DismissReview,
         UpdateTeammates, UpdateMinReviewCount, github
<1> QED BY <1>2, <1>3, <1>4, <1>5

(* What holds under the settings of the Fetch did so with a failed head.     *)
LEMMA FailedHead ==
    ASSUME NEW i, i.type = "pr_ci_failing", Holds(i, got, {head[i.pr]})
    PROVE  Author[i.pr] = Me /\ head[i.pr] \in failing[i.pr]
  BY DEF Holds

(* A change of the world during a Fetch.                                     *)
LEMMA LastingWorld ==
    ASSUME LInv, World, Observe, pc # "idle"
    PROVE  Lasting'
<1>1. TypeOK /\ UNCHANGED <<pc, got, batch>> /\ pc' # "idle" /\ got \in Got
  BY WorldStep DEF LInv, IInv, TypeInv, TypeOK
<1>2. ASSUME NEW i \in seen'.always, i \notin batch', ~Shifted(i.pr)'
      PROVE  Ahead(i.pr)'
  <2>1. i \in seen.always /\ i.pr \in PRs
    BY <1>1, ObserveLasting
  <2>2. /\ ~Shifted(i.pr)
        /\ Cardinality(NewerSeen(i.pr)) \in Nat /\ Cardinality(NewerSeen(i.pr))' \in Nat
        /\ Cardinality(NewerSeen(i.pr)) <= Cardinality(NewerSeen(i.pr))'
    BY <1>1, <1>2, <2>1, LastedBefore
  <2>3. Ahead(i.pr)
    BY <1>1, <1>2, <2>1, <2>2 DEF LInv, Lasting, Coming
  <2>4. Pending(i.pr) => Pending(i.pr)'
    BY <1>1 DEF Pending
  <2>5. PICK c \in Int : c = (got.page - 1) * PageSize
    BY <1>1, Numbers DEF Got
  <2>6. Cardinality(NewerSeen(i.pr))' = Cardinality(NewerSeen(i.pr)')
    OBVIOUS
  <2> QED BY <1>1, <2>2, <2>3, <2>4, <2>5, <2>6 DEF Ahead
<1>3. HeadsListed'
  <2> SUFFICES ASSUME NEW i \in seen'.always, i.type = "pr_ci_failing",
                      head'[i.pr] \in failing'[i.pr],
                      NEW l \in got'.listed \union ({got'.pr} \ {Nothing}), l.number = i.pr
               PROVE  l.head = head'[i.pr]
    BY DEF HeadsListed
  <2>1. i \in seen.always /\ i.pr \in PRs /\ head[i.pr] \in failing[i.pr]
    BY <1>1, ObserveLasting, FailedHead
  <2>2. l.head = head[i.pr]
    BY <1>1, <2>1 DEF LInv, Lasting, HeadsListed
  <2>3. head'[i.pr] = head[i.pr]
    BY <2>1, PushedNotFailing DEF LInv, IInv
  <2> QED BY <2>2, <2>3
<1>4. ReadLasts'
  BY <1>1, ObserveLasting DEF LInv, Lasting, ReadLasts
<1>5. Coming'
  BY <1>2 DEF Coming
<1> QED BY <1>1, <1>3, <1>4, <1>5 DEF LInv, Lasting

(* A page of the list: what lasts is on it, or on a later one, unless newer  *)
(* ones were closed since the first page.                                    *)
LEMMA LastingListPRs ==
    ASSUME LInv, Observe, ListPRsForRepo
    PROVE  Lasting'
<1> DEFINE listed == got.listed \union
                     {[number |-> p, head |-> head[p], page |-> got.page] :
                          p \in PageOf(got.space, got.page)}
<1>1. /\ TypeOK /\ got \in Got /\ pc = "list" /\ batch' = batch /\ got.pr = Nothing
      /\ head' = head /\ failing' = failing /\ got.listed \in SUBSET Listed
      /\ got.page \in Nat \ {0}
  BY DEF LInv, IInv, TypeInv, TypeOK, ListPRsForRepo, Got, github
<1>2. listed \in SUBSET Listed
  BY <1>1, PageListed
<1>3. \/ /\ HasNextPage(got.space, got.page)
         /\ got' = [got EXCEPT !.listed = listed, !.page = @ + 1]
         /\ pc' = pc
      \/ ~HasNextPage(got.space, got.page) /\ Proceed(got, listed)
  BY DEF ListPRsForRepo
<1>4. pc' # "idle"
  BY <1>1, <1>2, <1>3, ProceedStep DEF Proceeded
<1>5. ASSUME NEW i \in seen'.always, i.type = "pr_ci_failing",
             head[i.pr] \in failing[i.pr], NEW l \in listed, l.number = i.pr
      PROVE  l.head = head[i.pr]
  <2>1. CASE l \in got.listed
    BY <1>1, <1>4, <1>5, <2>1, ObserveLasting DEF LInv, Lasting, HeadsListed
  <2>2. CASE l \notin got.listed
    <3>1. PICK p \in PageOf(got.space, got.page) :
            l = [number |-> p, head |-> head[p], page |-> got.page]
      BY <2>2
    <3> QED BY <1>5, <3>1
  <2> QED BY <2>1, <2>2
<1>6. \A l \in got.listed : l \in listed
  OBVIOUS
<1>7. \A p \in PageOf(got.space, got.page) : \E l \in listed : l.number = p
  <2> TAKE p \in PageOf(got.space, got.page)
  <2>1. [number |-> p, head |-> head[p], page |-> got.page] \in listed
    OBVIOUS
  <2> HIDE DEF listed
  <2> QED BY <2>1
<1> HIDE DEF listed
<1>8. ASSUME NEW i \in seen'.always, i \notin batch', ~Shifted(i.pr)', Space[i.pr] = got.space
      PROVE  \/ \E l \in listed : l.number = i.pr
             \/ /\ HasNextPage(got.space, got.page)
                /\ got.page * PageSize <= Cardinality(NewerSeen(i.pr))'
  <2>1. i \in seen.always /\ i.pr \in PRs /\ i.pr \in open
    BY <1>1, <1>4, ObserveLasting
  <2>2. /\ ~Shifted(i.pr)
        /\ Cardinality(NewerSeen(i.pr)) \in Nat /\ Cardinality(NewerSeen(i.pr))' \in Nat
        /\ Cardinality(NewerSeen(i.pr)) <= Cardinality(NewerSeen(i.pr))'
    BY <1>1, <1>4, <1>8, <2>1, LastedBefore
  <2>3. Newer(i.pr) = Cardinality(NewerSeen(i.pr))'
    BY <1>1, <1>4, <1>8, <2>1, NewerAreOpen
  <2>4. Ahead(i.pr)
    BY <1>1, <1>8, <2>1, <2>2 DEF LInv, Lasting, Coming
  <2>5. CASE Pending(i.pr)
    BY <1>1, <1>6, <2>5 DEF Pending
  <2>6. CASE ~Pending(i.pr)
    <3>1. PICK n \in Nat : n = Newer(i.pr)
      BY <2>2, <2>3
    <3>2. Space[i.pr] \in 1..Spaces /\ got.space \in 1..Spaces
      BY <1>1, <2>1, Numbers DEF Got
    <3>3. (got.page - 1) * PageSize <= Cardinality(NewerSeen(i.pr))
      BY <1>8, <2>4, <2>6, <3>2 DEF Ahead
    <3>4. PICK c \in Int : c = (got.page - 1) * PageSize
      BY <1>1, Numbers
    <3>5. (got.page - 1) * PageSize <= n
      BY <2>2, <2>3, <3>1, <3>3, <3>4
    <3>6. CASE n < got.page * PageSize
      <4>1. n \div PageSize = got.page - 1
        BY <1>1, <3>5, <3>6, Numbers, OnPage
      <4>2. i.pr \in PageOf(got.space, got.page)
        BY <1>8, <2>1, <3>1, <4>1 DEF PageOf
      <4> QED BY <1>7, <4>2
    <3>7. CASE ~(n < got.page * PageSize)
      <4>1. PICK d \in Int : d = got.page * PageSize
        BY <1>1, Numbers
      <4>2. Newer(i.pr) >= got.page * PageSize
        BY <3>1, <3>7, <4>1
      <4>3. HasNextPage(got.space, got.page)
        BY <1>8, <2>1, <4>2 DEF HasNextPage
      <4>4. got.page * PageSize <= Cardinality(NewerSeen(i.pr))'
        BY <2>3, <3>1, <3>7, <4>1
      <4> QED BY <4>3, <4>4
    <3> QED BY <3>6, <3>7
  <2> QED BY <2>5, <2>6
<1>9. ASSUME NEW i \in seen'.always, i \notin batch', ~Shifted(i.pr)'
      PROVE  Space[i.pr] > got.space \/ Space[i.pr] = got.space
  <2>1. i \in seen.always /\ i.pr \in PRs
    BY <1>1, <1>4, ObserveLasting
  <2>2. ~Shifted(i.pr)
    BY <1>1, <1>4, <1>9, <2>1, LastedBefore
  <2> QED BY <1>1, <1>9, <2>1, <2>2 DEF LInv, Lasting, Coming, Ahead
<1>10. CASE ~HasNextPage(got.space, got.page) /\ Proceed(got, listed)
  <2>1. \A i \in seen'.always :
          \/ i \in batch' \/ Shifted(i.pr)' \/ Space[i.pr] > got.space
          \/ Space[i.pr] = got.space /\ \E l \in listed : l.number = i.pr
    BY <1>8, <1>9, <1>10
  <2> QED BY <1>1, <1>2, <1>5, <1>10, <2>1, LastingProceeds
<1>11. CASE /\ HasNextPage(got.space, got.page)
            /\ got' = [got EXCEPT !.listed = listed, !.page = @ + 1]
            /\ pc' = pc
  <2>1. /\ got'.space = got.space /\ got'.listed = listed /\ got'.pr = Nothing
        /\ got'.page = got.page + 1
    BY <1>1, <1>11 DEF Got
  <2>2. HeadsListed'
    BY <1>1, <1>5, <2>1 DEF HeadsListed
  <2>3. ASSUME NEW i \in seen'.always, i \notin batch', ~Shifted(i.pr)'
        PROVE  Ahead(i.pr)'
    <3>1. CASE Space[i.pr] > got.space
      BY <2>1, <3>1 DEF Ahead
    <3>2. CASE Space[i.pr] = got.space
      <4>1. \/ \E l \in listed : l.number = i.pr
            \/ got.page * PageSize <= Cardinality(NewerSeen(i.pr))'
        BY <1>8, <2>3, <3>2
      <4>2. got'.page - 1 = got.page
        BY <1>1, <2>1
      <4>3. (\E l \in listed : l.number = i.pr) => Pending(i.pr)'
        BY <2>1 DEF Pending
      <4> QED BY <1>1, <1>11, <2>1, <3>2, <4>1, <4>2, <4>3 DEF Ahead
    <3> QED BY <1>9, <2>3, <3>1, <3>2
  <2>4. Coming'
    BY <2>3 DEF Coming
  <2> QED BY <1>1, <1>11, <2>2, <2>4 DEF Lasting, ReadLasts
<1> QED BY <1>3, <1>10, <1>11

(* Between the requests about one pull request all others are where they     *)
(* were.                                                                     *)
LEMMA LastingReads ==
    ASSUME LInv, Observe, pc \in {"reviews", "checks"}, pc' \in {"checks", "comments"},
           batch' = batch, head' = head, failing' = failing,
           got'.listed = got.listed, got'.pr = got.pr, got'.space = got.space
    PROVE  Coming' /\ HeadsListed'
<1>1. TypeOK /\ got.space \in 1..Spaces
  BY DEF LInv, IInv, TypeInv, TypeOK, Got
<1>2. ASSUME NEW i \in seen'.always, i \notin batch', ~Shifted(i.pr)'
      PROVE  Ahead(i.pr)'
  <2>1. i \in seen.always /\ i.pr \in PRs
    BY <1>1, ObserveLasting
  <2>2. ~Shifted(i.pr)
    BY <1>1, <1>2, <2>1, LastedBefore
  <2>3. Ahead(i.pr)
    BY <1>2, <2>1, <2>2 DEF LInv, Lasting, Coming
  <2>4. Pending(i.pr) => Pending(i.pr)'
    BY DEF Pending
  <2> QED BY <2>3, <2>4 DEF Ahead
<1>3. \A i \in seen'.always : i \in seen.always
  BY <1>1, ObserveLasting
<1> QED BY <1>2, <1>3 DEF Coming, HeadsListed, LInv, Lasting

LEMMA LastingReviews ==
    ASSUME LInv, Observe, ListPRReviews
    PROVE  Lasting'
<1> DEFINE p == got.pr.number
<1>1. /\ TypeOK /\ got \in Got /\ pc = "reviews" /\ pc' = "checks" /\ batch' = batch
      /\ got.pr \in Listed /\ p \in PRs /\ reviews[p] \in Seq(Review)
      /\ head' = head /\ failing' = failing
  BY DEF LInv, IInv, TypeInv, TypeOK, ListPRReviews, Got, Listed, github
<1>2. /\ got'.listed = got.listed /\ got'.pr = got.pr /\ got'.space = got.space
      /\ got'.reviews = reviews[p] /\ SameSettings(got)
  BY <1>1 DEF ListPRReviews, Got, SameSettings
<1>3. ASSUME NEW i \in seen'.always, i.pr = p, i.type # "pr_ci_failing", i.type # "pr_new_comment"
      PROVE  i.type \in ProcessPR(p, got', FALSE)
  <2>1. i \in Items /\ i.type \in Types /\ Holds(i, got, {head[i.pr]})
    BY <1>1, ObserveLasting
  <2>2. i = [pr |-> p, type |-> i.type]
    BY <1>3, <2>1 DEF Items
  <2>3. Holds([pr |-> p, type |-> i.type], got, {head[p]})
    BY <1>3, <2>1, <2>2
  <2>4. Holds([pr |-> p, type |-> i.type], got', {head[p]})
    BY <1>2, <2>3, HoldsOfSettings DEF SameSettings
  <2> QED BY <1>1, <1>2, <1>3, <2>1, <2>4, ReviewsReported
<1>4. ReadLasts'
  BY <1>1, <1>2, <1>3 DEF ReadLasts
<1> QED BY <1>1, <1>2, <1>4, LastingReads DEF Lasting

LEMMA LastingChecks ==
    ASSUME LInv, Observe, ListCheckRuns
    PROVE  Lasting'
<1> DEFINE p == got.pr.number
           failed == got.pr.head \in failing[p]
<1>1. /\ TypeOK /\ got \in Got /\ pc = "checks" /\ pc' = "comments" /\ batch' = batch
      /\ got.pr \in Listed /\ p \in PRs
      /\ head' = head /\ failing' = failing
  BY DEF LInv, IInv, TypeInv, TypeOK, ListCheckRuns, Got, Listed, github
<1>2. got' = [got EXCEPT !.failing = failed]
  BY Zenon DEF ListCheckRuns
<1>3. /\ got'.listed = got.listed /\ got'.pr = got.pr /\ got'.space = got.space
      /\ got'.reviews = got.reviews /\ SameSettings(got)
  <2> HIDE DEF failed
  <2> QED BY <1>1, <1>2 DEF Got, SameSettings
<1>4. got'.failing = failed
  <2> HIDE DEF failed
  <2> QED BY <1>1, <1>2, Zenon DEF Got
<1>5. ASSUME NEW i \in seen'.always, i.pr = p, i.type # "pr_new_comment"
      PROVE  i.type \in ProcessPR(p, got', FALSE)
  <2>1. i \in seen.always /\ i.type \in Types /\ Holds(i, got, {head[i.pr]})
    BY <1>1, ObserveLasting
  <2>2. CASE i.type = "pr_ci_failing"
    <3>1. Author[p] = Me /\ head[p] \in failing[p]
      BY <1>5, <2>1, <2>2, FailedHead
    <3>2. got.pr \in got.listed \union ({got.pr} \ {Nothing})
      BY <1>1, NothingNotListed
    <3>3. got.pr.head = head[p]
      BY <1>5, <2>1, <2>2, <3>1, <3>2 DEF LInv, Lasting, HeadsListed
    <3>4. got'.failing
      BY <1>4, <3>1, <3>3
    <3> QED BY <2>1, <2>2, <3>1, <3>4 DEF ProcessPR
  <2>3. CASE i.type # "pr_ci_failing"
    <3>1. i.type \in ProcessPR(p, got, FALSE)
      BY <1>1, <1>5, <2>1, <2>3 DEF LInv, Lasting, ReadLasts
    <3> QED BY <1>3, <2>3, <3>1, ReviewsStand DEF SameSettings
  <2> QED BY <2>2, <2>3
<1>6. ReadLasts'
  BY <1>1, <1>3, <1>5 DEF ReadLasts
<1> QED BY <1>1, <1>3, <1>6, LastingReads DEF Lasting

(* With the comments all answers are there: what lasts is gathered.          *)
LEMMA LastingComments ==
    ASSUME LInv, Observe, ListPRComments
    PROVE  Lasting'
<1> DEFINE p == got.pr.number
           new == p \in commented
           types == ProcessPR(p, got, new)
<1>1. /\ TypeOK /\ got \in Got /\ pc = "comments"
      /\ got.pr \in Listed /\ p \in PRs /\ got.listed \in SUBSET Listed
      /\ head' = head /\ failing' = failing
  BY DEF LInv, IInv, TypeInv, TypeOK, ListPRComments, Got, Listed, github
<1>2. batch' = batch \union [pr : {p}, type : types] /\ Proceed(got, got.listed)
  BY DEF ListPRComments
<1>3. pc' # "idle"
  BY <1>1, <1>2, ProceedStep DEF Proceeded
<1>4. ASSUME NEW i \in seen'.always, i.pr = p
      PROVE  i \in batch'
  <2>1. i \in seen.always /\ i \in Items /\ i.type \in Types /\ Holds(i, got, {head[i.pr]})
    BY <1>1, <1>3, ObserveLasting
  <2>2. CASE i.type = "pr_new_comment"
    <3>1. Author[p] = Me /\ p \in commented /\ ~got.firstSync
      BY <1>4, <2>1, <2>2 DEF Holds
    <3> QED BY <1>2, <1>4, <2>1, <2>2, <3>1 DEF ProcessPR, Items
  <2>3. CASE i.type # "pr_new_comment"
    <3>1. i.type \in ProcessPR(p, got, FALSE)
      BY <1>1, <1>4, <2>1, <2>3 DEF LInv, Lasting, ReadLasts
    <3>2. i.type \in types
      BY <3>1 DEF ProcessPR
    <3> HIDE DEF types
    <3> QED BY <1>2, <1>4, <2>1, <3>2 DEF Items
  <2> QED BY <2>2, <2>3
<1>5. ASSUME NEW i \in seen'.always, i \notin batch', ~Shifted(i.pr)'
      PROVE  \/ Space[i.pr] > got.space
             \/ Space[i.pr] = got.space /\ \E l \in got.listed : l.number = i.pr
  <2>1. i \in seen.always /\ i.pr \in PRs /\ i.pr # p
    BY <1>1, <1>3, <1>4, <1>5, ObserveLasting
  <2>2. ~Shifted(i.pr) /\ i \notin batch
    BY <1>1, <1>2, <1>3, <1>5, <2>1, LastedBefore
  <2>3. Ahead(i.pr)
    BY <1>1, <2>1, <2>2 DEF LInv, Lasting, Coming
  <2> QED BY <1>1, <2>1, <2>3 DEF Ahead, Pending
<1>6. \A i \in seen'.always :
        i.type = "pr_ci_failing" /\ head'[i.pr] \in failing'[i.pr] =>
            \A l \in got.listed : l.number = i.pr => l.head = head'[i.pr]
  BY <1>1, <1>3, ObserveLasting DEF LInv, Lasting, HeadsListed
<1> HIDE DEF types, p
<1> QED BY <1>1, <1>2, <1>5, <1>6, LastingProceeds

LEMMA LastingInit == Init => LInv
<1> SUFFICES ASSUME Init PROVE LInv
  OBVIOUS
<1>1. IInv
  BY HeldInit
<1>2. pc = "idle" /\ failing = [p \in PRs |-> {}] /\ got = NotFetching
  BY Zenon DEF Init
<1> QED BY <1>1, <1>2
        DEF LInv, ChecksOfCommits, Lasting, Coming, HeadsListed, ReadLasts, NotFetching

LEMMA LastingNext == LInv /\ [Next]_vars => LInv'
<1> SUFFICES ASSUME LInv, [Next]_vars PROVE LInv'
  OBVIOUS
<1>1. IInv /\ IInv' /\ TypeInv /\ TypeOK /\ CycleType'
  BY HeldNext DEF LInv, IInv, TypeInv, TypeOK, CycleType
<1>2. CASE UNCHANGED vars
  BY <1>1, <1>2 DEF vars, github, settings, LInv, ChecksOfCommits, Lasting, Coming, HeadsListed,
                    ReadLasts, Ahead, Pending, Shifted, NewerSeen
<1>3. CASE World /\ Observe
  <2>1. pc' = pc
    BY <1>1, <1>3, WorldStep
  <2>2. ChecksOfCommits'
    BY <1>1, <1>3, PushedNotFailing DEF LInv
  <2>3. Lasting'
    BY <1>1, <1>3, <2>1, IdleLasting, LastingWorld
  <2> QED BY <1>1, <2>2, <2>3 DEF LInv
<1>4. CASE Sync /\ Observe
  <2>1. ChecksOfCommits'
    BY <1>1, <1>4, SyncStep DEF LInv, ChecksOfCommits, github
  <2>2. CASE Upsert \/ Fails
    BY <1>1, <2>1, <2>2, IdleLasting DEF Upsert, Fails, Return, LInv
  <2> QED BY <1>1, <1>4, <2>1, <2>2, LastingBegin, LastingListPRs, LastingReviews,
             LastingChecks, LastingComments DEF Sync, LInv
<1> QED BY <1>2, <1>3, <1>4 DEF Next, World

(***************************************************************************)
(* A Fetch that gets to its end has an item for every condition that held  *)
(* throughout, unless a newer pull request of the space was closed between *)
(* two pages: for any number of spaces, pages and pull requests.           *)
(***************************************************************************)
THEOREM ReportsLast == Spec => []ReportsWhatLasts
<1>1. LInv => ReportsWhatLasts
  <2> SUFFICES ASSUME LInv, pc = "upsert", NEW i \in seen.always, ~Shifted(i.pr)
               PROVE  i \in batch
    BY DEF ReportsWhatLasts
  <2>1. got.space = Spaces /\ i.pr \in PRs
    BY DEF LInv, Lasting, IInv, TypeInv, TypeOK, Seen, Items
  <2>2. ~(Space[i.pr] > got.space)
    <3>1. Space[i.pr] \in 1..Spaces /\ Spaces \in Nat
      BY <2>1, Numbers
    <3> QED BY <2>1, <3>1
  <2>3. pc # "list"
    OBVIOUS
  <2>4. ~Ahead(i.pr)
    BY <2>2, <2>3, Zenon DEF Ahead
  <2> QED BY <2>4 DEF LInv, Lasting, Coming
<1> QED BY <1>1, LastingInit, LastingNext, PTL DEF Spec
=============================================================================
