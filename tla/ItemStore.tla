----------------------------- MODULE ItemStore -----------------------------
(***************************************************************************)
(* The items table of churndesk and everybody who writes it: the upserts   *)
(* and deletes of the sync cycles, the user's Dismiss and Seen, and the    *)
(* two callers of RescoreAll, which are the Scorer goroutine (every 60 s)  *)
(* and the Rescore handler of the settings page.                           *)
(*                                                                         *)
(* A rescore reads the settings, the weights, the prerequisites of each    *)
(* integration and the rows in separate queries, and only then writes all  *)
(* rows in one transaction: what it writes may be stale by then.           *)
(*                                                                         *)
(* Of a row's metadata only the reviewers with an APPROVED review matter.  *)
(* Scores are integers and ages whole hours, which is what the code takes  *)
(* of an age.                                                              *)
(***************************************************************************)
EXTENDS Integers, FiniteSets

CONSTANTS
    Items,          \* item IDs, e.g. github:approved:owner/repo:7
    PRItems,        \* those whose type starts with pr_
    TypeOf,         \* the item type of each: what its weight goes by
    PageOf,         \* the PR or issue page each belongs to
    Reviewers,      \* GitHub users
    Integrations,   \* the rows prerequisites belong to
    Weights,        \* the category weights that are tried
    AgeSettings,    \* the settings tried: [mult |-> age_multiplier, max |-> max_age_boost]
    Scorer,         \* the Scorer goroutine
    Rescorers,      \* Rescore requests that may run at the same time
    None,
    MaxHours,       \* bound: the clock, in hours
    MaxChanges,     \* bound: syncs and settings saved
    MaxFailures     \* bound: queries of a rescore that fail

Types == {TypeOf[i] : i \in Items}
Pages == {PageOf[i] : i \in Items}
Scorings == Rescorers \union {Scorer}

ASSUME ItemAssumption ==
    /\ PRItems \subseteq Items
    /\ Weights \subseteq Nat /\ Weights # {}
    /\ \A a \in AgeSettings : a.mult \in Int /\ a.max \in Int
    /\ Scorer \notin Rescorers
    /\ MaxHours \in Nat /\ MaxChanges \in Nat /\ MaxFailures \in Nat

VARIABLES
    rows,       \* the items table
    weight,     \* category_weights
    age,        \* settings age_multiplier and max_age_boost
    need,       \* review_prerequisites of each integration
    hours,      \* the clock
    pc,         \* where each rescore is
    got,        \* what each has read: age, weights, prerequisites, rows, time
    left,       \* the integrations whose prerequisites it has still to read
    changes, failures

vars == <<rows, weight, age, need, hours, pc, got, left, changes, failures>>

\* The columns RescoreAll computes, and those of a whole row that matter.
Score == [base : Nat, met : {0, 1}, boost : Int, total : Int]
Row == [approved : SUBSET Reviewers, created : 0..MaxHours, score : Score,
        dismissed : BOOLEAN, seen : BOOLEAN]

HasRow(i) == rows[i] # None
Lowest(a, b) == IF a <= b THEN a ELSE b
Highest(a, b) == IF a <= b THEN b ELSE a

-----------------------------------------------------------------------------
(* The score.                                                              *)

\* computePrerequisitesMet, and 1 for what is not a pull request.
PrerequisitesMet(i, approved, needed) ==
    IF i \in PRItems /\ ~(needed \subseteq approved) THEN 0 ELSE 1

\* floor(hours)*ageMultiplier, at most maxAgeBoost, and never negative.
AgeBoost(met, h, a) ==
    IF met = 1 THEN Highest(0, Lowest(h * a.mult, a.max)) ELSE 0

\* What RescoreAll computes from the metadata and the age of a row.
ScoreOf(i, row, weights, a, needed, h) ==
    LET base == weights[TypeOf[i]]
        met == PrerequisitesMet(i, row.approved, needed)
        boost == AgeBoost(met, h - row.created, a)
    IN [base |-> base, met |-> met, boost |-> boost, total |-> base + boost]

Nothing == [age |-> None, weights |-> None, needed |-> {}, scores |-> None]

Init ==
    /\ rows = [i \in Items |-> None]
    /\ weight \in [Types -> Weights]
    /\ age \in AgeSettings
    /\ need \in [Integrations -> {{}}]
    /\ hours = 0
    /\ pc = [s \in Scorings |-> "idle"]
    /\ got = [s \in Scorings |-> Nothing]
    /\ left = [s \in Scorings |-> {}]
    /\ changes = 0 /\ failures = 0

-----------------------------------------------------------------------------
(* The writers other than a rescore.                                       *)

\* One more sync or saved setting.
Change ==
    /\ changes < MaxChanges
    /\ changes' = changes + 1
    /\ UNCHANGED <<hours, pc, got, left, failures>>

\* What the fetchers put into the score columns: they leave all of them zero.
Unscored == [base |-> 0, met |-> 0, boost |-> 0, total |-> 0]

\* The row an upsert inserts.
NewRow(approved, created) ==
    [approved |-> approved, created |-> created, score |-> Unscored,
     dismissed |-> FALSE, seen |-> FALSE]

\* As Upserted, leaving total_score out of the ON CONFLICT clause.
UpsertedKeepsTotal(i, approved, created) ==
    IF HasRow(i)
    THEN [rows[i] EXCEPT !.approved = approved, !.score = [Unscored EXCEPT !.total = rows[i].score.total]]
    ELSE NewRow(approved, created)

\* As Upserted, replacing the whole row (INSERT OR REPLACE).
UpsertedReplaces(i, approved, created) == NewRow(approved, created)

\* ON CONFLICT keeps created_at, dismissed and seen, and resets the scores.
Upserted(i, approved, created) ==
    IF HasRow(i)
    THEN [rows[i] EXCEPT !.approved = approved, !.score = Unscored]
    ELSE NewRow(approved, created)

\* ItemStore.Upsert: the items a sync has fetched, in one transaction.
Upsert ==
    /\ Change
    /\ \E batch \in SUBSET Items \ {{}}, approved \in SUBSET Reviewers,
          created \in 0..MaxHours :
          rows' = [i \in Items |-> IF i \in batch THEN Upserted(i, approved, created)
                                   ELSE rows[i]]
    /\ UNCHANGED <<weight, age, need>>

\* ItemStore.Delete, for an item that its fetcher flags as deleted: RunOnce does
\* this for any fetcher, and neither of the two there are flags one yet.
Delete(i) ==
    /\ HasRow(i)
    /\ Change
    /\ rows' = [rows EXCEPT ![i] = None]
    /\ UNCHANGED <<weight, age, need>>

\* The settings handlers.
SetCategoryWeight(t) ==
    /\ Change
    /\ \E w \in Weights : weight' = [weight EXCEPT ![t] = w]
    /\ UNCHANGED <<rows, age, need>>

SetAge ==
    /\ Change
    /\ age' \in AgeSettings
    /\ UNCHANGED <<rows, weight, need>>

ReplacePrerequisites(g) ==
    /\ Change
    /\ \E set \in SUBSET Reviewers : need' = [need EXCEPT ![g] = set]
    /\ UNCHANGED <<rows, weight, age>>

\* The dismiss button of an item.
Dismiss(i) ==
    /\ HasRow(i)
    /\ rows' = [rows EXCEPT ![i].dismissed = TRUE]
    /\ UNCHANGED <<weight, age, need, hours, pc, got, left, changes, failures>>

\* MarkSeen, and MarkSeenByPR or MarkSeenByJiraKey for all items of a page.
Seen(set) ==
    /\ rows' = [i \in Items |-> IF i \in set /\ HasRow(i) THEN [rows[i] EXCEPT !.seen = TRUE]
                                ELSE rows[i]]
    /\ UNCHANGED <<weight, age, need, hours, pc, got, left, changes, failures>>

MarkSeen(i) == Seen({i})
MarkSeenByPage(p) == Seen({i \in Items : PageOf[i] = p})

HourPasses ==
    /\ hours < MaxHours
    /\ hours' = hours + 1
    /\ UNCHANGED <<rows, weight, age, need, pc, got, left, changes, failures>>

-----------------------------------------------------------------------------
(* A rescore: Scorer.RunOnce or the Rescore handler, up to RescoreAll.     *)

Reads == UNCHANGED <<rows, weight, age, need, hours, changes, failures>>

ReadSettings(s) ==
    /\ pc[s] = "idle"
    /\ pc' = [pc EXCEPT ![s] = "weights"]
    /\ got' = [got EXCEPT ![s].age = age]
    /\ Reads /\ UNCHANGED left

ReadWeights(s) ==
    /\ pc[s] = "weights"
    /\ pc' = [pc EXCEPT ![s] = "prerequisites"]
    /\ got' = [got EXCEPT ![s].weights = weight]
    /\ left' = [left EXCEPT ![s] = Integrations]
    /\ Reads

\* As ReadPrerequisites, keeping only the last integration's.
ReadPrerequisitesLast(s, g) ==
    /\ pc[s] = "prerequisites"
    /\ g \in left[s]
    /\ got' = [got EXCEPT ![s].needed = need[g]]
    /\ left' = [left EXCEPT ![s] = @ \ {g}]
    /\ Reads /\ UNCHANGED pc

\* The prerequisites of one integration after the other.
ReadPrerequisites(s, g) ==
    /\ pc[s] = "prerequisites"
    /\ g \in left[s]
    /\ got' = [got EXCEPT ![s].needed = @ \union need[g]]
    /\ left' = [left EXCEPT ![s] = @ \ {g}]
    /\ Reads /\ UNCHANGED pc

\* RescoreAll reads all rows, then the time, and computes their scores.
ReadRows(s) ==
    /\ pc[s] = "prerequisites"
    /\ left[s] = {}
    /\ pc' = [pc EXCEPT ![s] = "write"]
    /\ got' = [got EXCEPT ![s] = [Nothing EXCEPT !.scores =
          [i \in Items |-> IF HasRow(i)
                           THEN ScoreOf(i, rows[i], got[s].weights, got[s].age,
                                        got[s].needed, hours)
                           ELSE None]]]
    /\ Reads /\ UNCHANGED left

\* As WriteScores, inserting the rows that are gone (INSERT OR REPLACE).
WriteScoresInserts(s) ==
    /\ pc[s] = "write"
    /\ rows' = [i \in Items |->
          IF got[s].scores[i] = None THEN rows[i]
          ELSE IF HasRow(i) THEN [rows[i] EXCEPT !.score = got[s].scores[i]]
          ELSE [NewRow({}, hours) EXCEPT !.score = got[s].scores[i]]]
    /\ pc' = [pc EXCEPT ![s] = "idle"]
    /\ got' = [got EXCEPT ![s] = Nothing]
    /\ UNCHANGED <<weight, age, need, hours, left, changes, failures>>

\* The transaction of UPDATEs: score columns only, of the rows still there.
WriteScores(s) ==
    /\ pc[s] = "write"
    /\ rows' = [i \in Items |->
          IF HasRow(i) /\ got[s].scores[i] # None
          THEN [rows[i] EXCEPT !.score = got[s].scores[i]]
          ELSE rows[i]]
    /\ pc' = [pc EXCEPT ![s] = "idle"]
    /\ got' = [got EXCEPT ![s] = Nothing]
    /\ UNCHANGED <<weight, age, need, hours, left, changes, failures>>

\* As RescoreFails, when an error ends the goroutine.
RescoreFailsForGood(s) ==
    /\ failures < MaxFailures
    /\ failures' = failures + 1
    /\ pc' = [pc EXCEPT ![s] = "gone"]
    /\ got' = [got EXCEPT ![s] = Nothing]
    /\ left' = [left EXCEPT ![s] = {}]
    /\ UNCHANGED <<rows, weight, age, need, hours, changes>>

\* Some query fails: nothing is written, and the Scorer tries again next time.
RescoreFails(s) ==
    /\ failures < MaxFailures
    /\ failures' = failures + 1
    /\ pc' = [pc EXCEPT ![s] = "idle"]
    /\ got' = [got EXCEPT ![s] = Nothing]
    /\ left' = [left EXCEPT ![s] = {}]
    /\ UNCHANGED <<rows, weight, age, need, hours, changes>>

RescoreStep(s) ==
    \/ ReadSettings(s) \/ ReadWeights(s) \/ ReadRows(s) \/ WriteScores(s)
    \/ RescoreFails(s)
    \/ \E g \in Integrations : ReadPrerequisites(s, g)

Next ==
    \/ Upsert \/ SetAge \/ HourPasses
    \/ \E i \in Items : Delete(i) \/ Dismiss(i) \/ MarkSeen(i)
    \/ \E p \in Pages : MarkSeenByPage(p)
    \/ \E t \in Types : SetCategoryWeight(t)
    \/ \E g \in Integrations : ReplacePrerequisites(g)
    \/ \E s \in Scorings : RescoreStep(s)

Spec == Init /\ [][Next]_vars

(***************************************************************************)
(* The Scorer's ticker fires for ever and its queries return; a request    *)
(* that has begun is finished.                                             *)
(***************************************************************************)
FairSpec ==
    /\ Spec
    /\ WF_vars(RescoreStep(Scorer))
    /\ \A s \in Rescorers : WF_vars(pc[s] # "idle" /\ RescoreStep(s))

-----------------------------------------------------------------------------
(* Properties                                                              *)

TypeOK ==
    /\ rows \in [Items -> Row \union {None}]
    /\ weight \in [Types -> Weights]
    /\ age \in AgeSettings
    /\ need \in [Integrations -> SUBSET Reviewers]
    /\ hours \in 0..MaxHours
    /\ pc \in [Scorings -> {"idle", "weights", "prerequisites", "write"}]
    /\ got \in [Scorings -> [age : AgeSettings \union {None},
                             weights : [Types -> Weights] \union {None},
                             needed : SUBSET Reviewers,
                             scores : [Items -> Score \union {None}] \union {None}]]
    /\ \A s \in Scorings :
          /\ pc[s] \in {"weights", "prerequisites"} => got[s].age \in AgeSettings
          /\ pc[s] = "prerequisites" => got[s].weights \in [Types -> Weights]
          /\ pc[s] = "write" => got[s].scores \in [Items -> Score \union {None}]
    /\ left \in [Scorings -> SUBSET Integrations]
    /\ changes \in 0..MaxChanges /\ failures \in 0..MaxFailures

\* Score columns that belong together.
Consistent(score) ==
    /\ score.total = score.base + score.boost
    /\ score.boost >= 0
    /\ score.met = 0 => score.boost = 0

(***************************************************************************)
(* The score columns of a row always belong together, although upserts and *)
(* stale rescores overwrite each other: the total is the sum of the parts, *)
(* and an item that waits for a required reviewer does not age.            *)
(***************************************************************************)
ScoresConsistent == \A i \in Items : HasRow(i) => Consistent(rows[i].score)

(***************************************************************************)
(* What the user did to an item lasts: no sync brings a dismissed item     *)
(* back, none makes a seen one new, and no rescore that read the rows      *)
(* before undoes either.  Only deleting the row ends it.                   *)
(***************************************************************************)
UserMarksLast ==
    [][\A i \in Items : HasRow(i) /\ rows'[i] # None =>
          /\ rows[i].dismissed => rows'[i].dismissed
          /\ rows[i].seen => rows'[i].seen]_rows

(***************************************************************************)
(* A rescore that read a row before it was deleted does not bring it back: *)
(* rows come into being by an upsert only, and unscored.                   *)
(***************************************************************************)
OnlyUpsertCreates ==
    [][\A i \in Items : ~HasRow(i) /\ rows'[i] # None =>
          changes' # changes /\ rows'[i].score = Unscored]_rows

(***************************************************************************)
(* Once syncs and saves pause, every score is soon the one the current     *)
(* settings, prerequisites and metadata give, and stays so: a stale        *)
(* rescore, torn reads and failed runs are made good by a later tick.      *)
(***************************************************************************)
AllFresh ==
    \A i \in Items : HasRow(i) =>
        rows[i].score = ScoreOf(i, rows[i], weight, age, UNION {need[g] : g \in Integrations}, hours)

EventuallyFresh == <>[]AllFresh
=============================================================================
