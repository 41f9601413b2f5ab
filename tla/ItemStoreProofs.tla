-------------------------- MODULE ItemStoreProofs --------------------------
(***************************************************************************)
(* Proofs about ItemStore for every set of items, reviewers, integrations, *)
(* weights and rescorers.                                                  *)
(***************************************************************************)
EXTENDS ItemStore, TLAPS

-----------------------------------------------------------------------------
(* Lemmas about the score.                                                 *)

(***************************************************************************)
(* What RescoreAll computes for a row has the type of the score columns,   *)
(* and its columns belong together whatever the settings and ages are.     *)
(***************************************************************************)
LEMMA ScoreOfConsistent ==
    ASSUME NEW i \in Items, NEW row \in Row, NEW ws \in [Types -> Weights],
           NEW a \in AgeSettings, NEW needed, NEW h \in Nat
    PROVE  /\ ScoreOf(i, row, ws, a, needed, h) \in Score
           /\ Consistent(ScoreOf(i, row, ws, a, needed, h))
<1> DEFINE base == ws[TypeOf[i]]
           met == PrerequisitesMet(i, row.approved, needed)
           boost == AgeBoost(met, h - row.created, a)
<1>1. base \in Nat
  BY ItemAssumption DEF Types
<1>2. met \in {0, 1}
  BY DEF PrerequisitesMet
<1>3. boost \in Int /\ boost >= 0 /\ (met = 0 => boost = 0)
  <2>1. h - row.created \in Int
    BY ItemAssumption DEF Row
  <2>2. (h - row.created) * a.mult \in Int /\ a.max \in Int
    BY <2>1, ItemAssumption
  <2> HIDE DEF met
  <2> QED BY <1>2, <2>2 DEF AgeBoost, Highest, Lowest
<1>4. ScoreOf(i, row, ws, a, needed, h)
        = [base |-> base, met |-> met, boost |-> boost, total |-> base + boost]
  BY DEF ScoreOf
<1> HIDE DEF base, met, boost
<1> QED BY <1>1, <1>2, <1>3, <1>4 DEF Score, Consistent

(* What an upsert leaves of a row is a row, unscored and hence consistent.   *)
LEMMA UpsertedIsRow ==
    ASSUME TypeOK, NEW i \in Items, NEW approved \in SUBSET Reviewers,
           NEW created \in 0..MaxHours
    PROVE  /\ Upserted(i, approved, created) \in Row
           /\ Upserted(i, approved, created).score = Unscored
           /\ HasRow(i) =>
                 /\ Upserted(i, approved, created).dismissed = rows[i].dismissed
                 /\ Upserted(i, approved, created).seen = rows[i].seen
<1>1. Unscored \in Score
  BY DEF Unscored, Score
<1>2. rows[i] \in Row \union {None}
  BY DEF TypeOK
<1>3. CASE HasRow(i)
  <2>1. rows[i] \in Row
    BY <1>2, <1>3 DEF HasRow
  <2> DEFINE renewed == [rows[i] EXCEPT !.approved = approved]
             new == [renewed EXCEPT !.score = Unscored]
  <2>2. Upserted(i, approved, created) = new
    BY <1>3 DEF Upserted
  <2>3. /\ renewed \in Row
        /\ renewed.dismissed = rows[i].dismissed /\ renewed.seen = rows[i].seen
    BY <2>1 DEF Row
  <2> HIDE DEF renewed
  <2>4. /\ new \in Row /\ new.score = Unscored
        /\ new.dismissed = renewed.dismissed /\ new.seen = renewed.seen
    BY <1>1, <2>3 DEF Row
  <2> HIDE DEF new
  <2> QED BY <2>2, <2>3, <2>4
<1>4. CASE ~HasRow(i)
  <2>1. Upserted(i, approved, created) = NewRow(approved, created)
    BY <1>4 DEF Upserted
  <2>2. NewRow(approved, created) \in Row
    BY <1>1, Zenon DEF Row, NewRow
  <2>3. NewRow(approved, created).score = Unscored
    BY DEF NewRow
  <2> QED BY <1>4, <2>1, <2>2, <2>3
<1> QED BY <1>3, <1>4

(* Unscored columns belong together.                                         *)
LEMMA UnscoredConsistent == Consistent(Unscored)
  BY DEF Consistent, Unscored

(* Dismissing a row changes nothing else of it.                              *)
LEMMA DismissedRow ==
    ASSUME NEW row \in Row, NEW new, new = [row EXCEPT !.dismissed = TRUE]
    PROVE  new \in Row /\ new.score = row.score /\ new.dismissed /\ new.seen = row.seen
  BY DEF Row

(* Marking a row seen changes nothing else of it.                            *)
LEMMA SeenRow ==
    ASSUME NEW row \in Row, NEW new, new = [row EXCEPT !.seen = TRUE]
    PROVE  new \in Row /\ new.score = row.score /\ new.seen /\ new.dismissed = row.dismissed
  BY DEF Row

(* Scoring a row changes nothing else of it.                                 *)
LEMMA ScoredRow ==
    ASSUME NEW row \in Row, NEW score \in Score, NEW new, new = [row EXCEPT !.score = score]
    PROVE  /\ new \in Row /\ new.score = score
           /\ new.dismissed = row.dismissed /\ new.seen = row.seen
  BY DEF Row

-----------------------------------------------------------------------------
(* The inductive invariant: the scores that a rescore is about to write    *)
(* belong together, as those of the rows do.                               *)

PendingConsistent ==
    \A s \in Scorings : pc[s] = "write" =>
        \A i \in Items : got[s].scores[i] # None => Consistent(got[s].scores[i])

IInv == TypeOK /\ ScoresConsistent /\ PendingConsistent

\* What any step may do to the row of an item.
RowStep(i) ==
    /\ rows'[i] \in Row \union {None}
    /\ rows'[i] # None =>
          \/ Consistent(rows'[i].score)
          \/ HasRow(i) /\ rows'[i].score = rows[i].score
    /\ HasRow(i) /\ rows'[i] # None =>
          /\ rows[i].dismissed => rows'[i].dismissed
          /\ rows[i].seen => rows'[i].seen
    /\ ~HasRow(i) /\ rows'[i] # None => changes' # changes /\ rows'[i].score = Unscored

\* The steps that change rows.
RowWriter ==
    \/ Upsert
    \/ \E i \in Items : Delete(i) \/ Dismiss(i) \/ MarkSeen(i)
    \/ \E p \in Pages : MarkSeenByPage(p)
    \/ \E s \in Scorings : WriteScores(s)

(***************************************************************************)
(* Every writer of the table keeps to RowStep on every row.                *)
(***************************************************************************)
LEMMA RowsStep ==
    ASSUME TypeOK, PendingConsistent, RowWriter \/ UNCHANGED rows
    PROVE  rows' \in [Items -> Row \union {None}] /\ \A i \in Items : RowStep(i)
<1>0. /\ rows \in [Items -> Row \union {None}]
      /\ \A i \in Items : HasRow(i) => rows[i] \in Row
  BY DEF TypeOK, HasRow
<1>1. CASE Upsert
  <2>1. PICK batch \in SUBSET Items, approved \in SUBSET Reviewers, created \in 0..MaxHours :
          rows' = [i \in Items |-> IF i \in batch THEN Upserted(i, approved, created)
                                   ELSE rows[i]]
    BY <1>1 DEF Upsert
  <2>2. changes' # changes
    BY <1>1 DEF Upsert, Change, TypeOK
  <2>3. \A i \in Items : RowStep(i)
    BY <1>0, <2>1, <2>2, UpsertedIsRow, UnscoredConsistent DEF RowStep, HasRow
  <2> QED BY <2>1, <2>3 DEF RowStep
<1>2. ASSUME NEW j \in Items, Delete(j) PROVE \A i \in Items : RowStep(i)
  BY <1>0, <1>2 DEF Delete, RowStep, HasRow
<1>3. ASSUME NEW j \in Items, Dismiss(j) PROVE \A i \in Items : RowStep(i)
  <2>1. rows' = [rows EXCEPT ![j] = [rows[j] EXCEPT !.dismissed = TRUE]]
    BY <1>3 DEF Dismiss
  <2>2. rows'[j] = [rows[j] EXCEPT !.dismissed = TRUE] /\ HasRow(j) /\ rows[j] \in Row
    BY <1>0, <1>3, <2>1 DEF Dismiss
  <2>3. RowStep(j)
    <3>1. /\ rows'[j] \in Row /\ rows'[j].score = rows[j].score
          /\ rows'[j].dismissed /\ rows'[j].seen = rows[j].seen
      BY <2>2, DismissedRow
    <3> QED BY <2>2, <3>1 DEF RowStep
  <2>4. ASSUME NEW i \in Items, i # j PROVE RowStep(i)
    BY <1>0, <2>1, <2>4 DEF RowStep, HasRow
  <2> QED BY <2>3, <2>4
<1>4. ASSUME NEW set, Seen(set) PROVE \A i \in Items : RowStep(i)
  <2>1. ASSUME NEW i \in Items PROVE RowStep(i)
    <3>1. CASE i \in set /\ HasRow(i)
      <4>1. rows'[i] = [rows[i] EXCEPT !.seen = TRUE]
        BY <1>4, <3>1 DEF Seen
      <4>2. /\ rows'[i] \in Row /\ rows'[i].score = rows[i].score
            /\ rows'[i].seen /\ rows'[i].dismissed = rows[i].dismissed
        BY <1>0, <3>1, <4>1, SeenRow
      <4> QED BY <3>1, <4>2 DEF RowStep
    <3>2. CASE ~(i \in set /\ HasRow(i))
      BY <1>0, <1>4, <3>2 DEF Seen, RowStep, HasRow
    <3> QED BY <3>1, <3>2
  <2> QED BY <2>1
<1>5. ASSUME NEW s \in Scorings, WriteScores(s) PROVE \A i \in Items : RowStep(i)
  <2>1. /\ pc[s] = "write"
        /\ got[s].scores \in [Items -> Score \union {None}]
    BY <1>5 DEF WriteScores, TypeOK
  <2>2. ASSUME NEW i \in Items PROVE RowStep(i)
    <3>1. CASE HasRow(i) /\ got[s].scores[i] # None
      <4>1. got[s].scores[i] \in Score /\ Consistent(got[s].scores[i])
        BY <2>1, <3>1 DEF PendingConsistent
      <4>2. rows'[i] = [rows[i] EXCEPT !.score = got[s].scores[i]]
        BY <1>5, <3>1 DEF WriteScores
      <4>3. /\ rows'[i] \in Row /\ rows'[i].score = got[s].scores[i]
            /\ rows'[i].dismissed = rows[i].dismissed /\ rows'[i].seen = rows[i].seen
        BY <1>0, <3>1, <4>1, <4>2, ScoredRow
      <4> QED BY <3>1, <4>1, <4>3 DEF RowStep
    <3>2. CASE ~(HasRow(i) /\ got[s].scores[i] # None)
      BY <1>0, <1>5, <3>2 DEF WriteScores, RowStep, HasRow
    <3> QED BY <3>1, <3>2
  <2> QED BY <2>2
<1>6. CASE UNCHANGED rows
  BY <1>0, <1>6 DEF RowStep, HasRow
<1>7. \A i \in Items : RowStep(i)
  BY <1>1, <1>2, <1>3, <1>4, <1>5, <1>6 DEF RowWriter, MarkSeen, MarkSeenByPage
<1>8. \/ \E f : rows' = [i \in Items |-> f[i]]
      \/ \E new : \E i \in Items : rows' = [rows EXCEPT ![i] = new]
      \/ rows' = rows
  BY Zenon DEF RowWriter, Upsert, Delete, Dismiss, Seen, MarkSeen, MarkSeenByPage, WriteScores
<1> QED BY <1>0, <1>7, <1>8 DEF RowStep

-----------------------------------------------------------------------------
(* Type correctness.                                                       *)

LEMMA InitType == Init => TypeOK
<1> SUFFICES ASSUME Init PROVE TypeOK
  OBVIOUS
<1>1. got \in [Scorings -> [age : AgeSettings \union {None},
                             weights : [Types -> Weights] \union {None},
                             needed : SUBSET Reviewers,
                             scores : [Items -> Score \union {None}] \union {None}]]
  BY DEF Init, Nothing
<1> QED BY <1>1, ItemAssumption DEF Init, TypeOK

\* The records in which a rescore keeps what it has read.
Got == [age : AgeSettings \union {None}, weights : [Types -> Weights] \union {None},
        needed : SUBSET Reviewers, scores : [Items -> Score \union {None}] \union {None}]

\* What TypeOK says of the rescores.
RescoresTyped ==
    /\ pc \in [Scorings -> {"idle", "weights", "prerequisites", "write"}]
    /\ got \in [Scorings -> Got]
    /\ \A s \in Scorings :
          /\ pc[s] \in {"weights", "prerequisites"} => got[s].age \in AgeSettings
          /\ pc[s] = "prerequisites" => got[s].weights \in [Types -> Weights]
          /\ pc[s] = "write" => got[s].scores \in [Items -> Score \union {None}]
    /\ left \in [Scorings -> SUBSET Integrations]

(***************************************************************************)
(* A step of one rescore keeps what it has read typed, and the scores it   *)
(* is about to write consistent.                                           *)
(***************************************************************************)
LEMMA RescoreKeeps ==
    ASSUME IInv, NEW s \in Scorings, RescoreStep(s)
    PROVE  RescoresTyped' /\ PendingConsistent'
<1>0. RescoresTyped /\ PendingConsistent
  BY DEF IInv, TypeOK, RescoresTyped, Got
<1>1. Nothing \in Got
  BY DEF Nothing, Got
<1>2. ASSUME NEW where \in {"idle", "weights", "prerequisites", "write"}, NEW new \in Got,
             NEW rest \in SUBSET Integrations,
             pc' = [pc EXCEPT ![s] = where],
             got' = [got EXCEPT ![s] = new],
             left' = [left EXCEPT ![s] = rest],
             where \in {"weights", "prerequisites"} => new.age \in AgeSettings,
             where = "prerequisites" => new.weights \in [Types -> Weights],
             where = "write" =>
                /\ new.scores \in [Items -> Score \union {None}]
                /\ \A i \in Items : new.scores[i] # None => Consistent(new.scores[i])
      PROVE  RescoresTyped' /\ PendingConsistent'
  BY <1>0, <1>2 DEF RescoresTyped, PendingConsistent
<1>3. CASE ReadSettings(s)
  <2> DEFINE new == [got[s] EXCEPT !.age = age]
  <2>1. new \in Got /\ new.age \in AgeSettings
    BY <1>0 DEF RescoresTyped, Got, IInv, TypeOK
  <2>2. /\ pc' = [pc EXCEPT ![s] = "weights"]
        /\ got' = [got EXCEPT ![s] = new]
        /\ left' = [left EXCEPT ![s] = left[s]] /\ left[s] \in SUBSET Integrations
    BY <1>0, <1>3 DEF ReadSettings, RescoresTyped
  <2> HIDE DEF new
  <2> QED BY <1>2, <2>1, <2>2
<1>4. CASE ReadWeights(s)
  <2> DEFINE new == [got[s] EXCEPT !.weights = weight]
  <2>1. /\ new \in Got /\ new.weights \in [Types -> Weights] /\ new.age = got[s].age
    BY <1>0 DEF RescoresTyped, Got, IInv, TypeOK
  <2>2. /\ pc' = [pc EXCEPT ![s] = "prerequisites"]
        /\ got' = [got EXCEPT ![s] = new]
        /\ left' = [left EXCEPT ![s] = Integrations]
        /\ got[s].age \in AgeSettings
    BY <1>0, <1>4 DEF ReadWeights, RescoresTyped
  <2> HIDE DEF new
  <2> QED BY <1>2, <2>1, <2>2
<1>5. ASSUME NEW g \in Integrations, ReadPrerequisites(s, g)
      PROVE  RescoresTyped' /\ PendingConsistent'
  <2> DEFINE new == [got[s] EXCEPT !.needed = got[s].needed \union need[g]]
  <2>1. /\ new \in Got /\ new.weights = got[s].weights /\ new.age = got[s].age
    BY <1>0 DEF RescoresTyped, Got, IInv, TypeOK
  <2>2. /\ pc[s] = "prerequisites"
        /\ got' = [got EXCEPT ![s] = new]
        /\ left' = [left EXCEPT ![s] = left[s] \ {g}]
        /\ left[s] \ {g} \in SUBSET Integrations
        /\ pc' = [pc EXCEPT ![s] = "prerequisites"]
        /\ got[s].age \in AgeSettings /\ got[s].weights \in [Types -> Weights]
    BY <1>0, <1>5 DEF ReadPrerequisites, Reads, RescoresTyped
  <2> HIDE DEF new
  <2> QED BY <1>2, <2>1, <2>2
<1>6. CASE ReadRows(s)
  <2> DEFINE scores == [i \in Items |-> IF HasRow(i)
                           THEN ScoreOf(i, rows[i], got[s].weights, got[s].age,
                                        got[s].needed, hours)
                           ELSE None]
             new == [Nothing EXCEPT !.scores = scores]
  <2>1. /\ got[s].age \in AgeSettings /\ got[s].weights \in [Types -> Weights]
        /\ hours \in Nat
        /\ \A i \in Items : HasRow(i) => rows[i] \in Row
    BY <1>0, <1>6, ItemAssumption DEF ReadRows, RescoresTyped, IInv, TypeOK, HasRow
  <2>2. \A i \in Items : HasRow(i) => scores[i] \in Score /\ Consistent(scores[i])
    BY <2>1, ScoreOfConsistent
  <2>3. \A i \in Items : ~HasRow(i) => scores[i] = None
    OBVIOUS
  <2>4. scores = [i \in Items |-> scores[i]]
    OBVIOUS
  <2>5. /\ pc' = [pc EXCEPT ![s] = "write"]
        /\ got' = [got EXCEPT ![s] = new]
        /\ left' = [left EXCEPT ![s] = left[s]] /\ left[s] \in SUBSET Integrations
    BY <1>0, <1>6 DEF ReadRows, RescoresTyped
  <2> HIDE DEF scores
  <2>6. /\ scores \in [Items -> Score \union {None}]
        /\ \A i \in Items : scores[i] # None => Consistent(scores[i])
    BY <2>2, <2>3, <2>4
  <2>7. new \in Got /\ new.scores = scores
    BY <1>1, <2>6 DEF Got, Nothing
  <2> HIDE DEF new
  <2> QED BY <1>2, <2>5, <2>6, <2>7
<1>7. CASE WriteScores(s)
  <2>1. /\ pc' = [pc EXCEPT ![s] = "idle"] /\ got' = [got EXCEPT ![s] = Nothing]
        /\ left' = [left EXCEPT ![s] = left[s]] /\ left[s] \in SUBSET Integrations
    BY <1>0, <1>7 DEF WriteScores, RescoresTyped
  <2> QED BY <1>1, <1>2, <2>1
<1>8. CASE RescoreFails(s)
  <2>1. /\ pc' = [pc EXCEPT ![s] = "idle"] /\ got' = [got EXCEPT ![s] = Nothing]
        /\ left' = [left EXCEPT ![s] = {}] /\ {} \in SUBSET Integrations
    BY <1>8 DEF RescoreFails
  <2> QED BY <1>1, <1>2, <2>1
<1> QED BY <1>3, <1>4, <1>5, <1>6, <1>7, <1>8 DEF RescoreStep

\* What TypeOK says of everything else but the rows.
SettingsTyped ==
    /\ weight \in [Types -> Weights]
    /\ age \in AgeSettings
    /\ need \in [Integrations -> SUBSET Reviewers]
    /\ hours \in 0..MaxHours
    /\ changes \in 0..MaxChanges /\ failures \in 0..MaxFailures

LEMMA SettingsKeepType == TypeOK /\ [Next]_vars => SettingsTyped'
<1> SUFFICES ASSUME TypeOK, [Next]_vars PROVE SettingsTyped'
  OBVIOUS
<1>0. SettingsTyped
  BY DEF TypeOK, SettingsTyped
<1> USE <1>0, ItemAssumption DEF SettingsTyped
<1>1. CASE Upsert
  BY <1>1 DEF Upsert, Change
<1>2. CASE SetAge
  BY <1>2 DEF SetAge, Change
<1>3. CASE HourPasses
  BY <1>3 DEF HourPasses
<1>4. ASSUME NEW i \in Items, Delete(i) \/ Dismiss(i) \/ MarkSeen(i) PROVE SettingsTyped'
  BY <1>4 DEF Delete, Dismiss, MarkSeen, Seen, Change
<1>5. ASSUME NEW p \in Pages, MarkSeenByPage(p) PROVE SettingsTyped'
  BY <1>5 DEF MarkSeenByPage, Seen
<1>6. ASSUME NEW t \in Types, SetCategoryWeight(t) PROVE SettingsTyped'
  BY <1>6 DEF SetCategoryWeight, Change
<1>7. ASSUME NEW g \in Integrations, ReplacePrerequisites(g) PROVE SettingsTyped'
  BY <1>7 DEF ReplacePrerequisites, Change
<1>8. ASSUME NEW s \in Scorings, RescoreStep(s) PROVE SettingsTyped'
  BY <1>8 DEF RescoreStep, ReadSettings, ReadWeights, ReadPrerequisites, ReadRows, Reads,
              WriteScores, RescoreFails
<1>9. CASE UNCHANGED vars
  BY <1>9 DEF vars
<1> QED BY <1>1, <1>2, <1>3, <1>4, <1>5, <1>6, <1>7, <1>8, <1>9 DEF Next

(* A step either changes no rows or is one of the writers'.                  *)
LEMMA WhoWritesRows == [Next]_vars => RowWriter \/ UNCHANGED rows
  BY DEF Next, vars, RowWriter, SetAge, SetCategoryWeight, ReplacePrerequisites, HourPasses,
         RescoreStep, ReadSettings, ReadWeights, ReadPrerequisites, ReadRows, Reads, RescoreFails

(* A step is one of a rescore, or leaves every rescore where it is.          *)
LEMMA WhoRescores ==
    [Next]_vars => (\E s \in Scorings : RescoreStep(s)) \/ UNCHANGED <<pc, got, left>>
  BY DEF Next, vars, Upsert, Delete, Dismiss, MarkSeen, MarkSeenByPage, Seen, SetAge,
         SetCategoryWeight, ReplacePrerequisites, HourPasses, Change

(* The invariant holds at first, when there are no rows and no rescore.      *)
LEMMA InitIInv == Init => IInv
  BY InitType DEF Init, IInv, ScoresConsistent, PendingConsistent, HasRow

(* Every step keeps the invariant.                                           *)
LEMMA NextIInv == IInv /\ [Next]_vars => IInv'
<1> SUFFICES ASSUME IInv, [Next]_vars PROVE IInv'
  OBVIOUS
<1>1. RescoresTyped' /\ PendingConsistent'
  <2>1. ASSUME UNCHANGED <<pc, got, left>> PROVE RescoresTyped' /\ PendingConsistent'
    <3>1. RescoresTyped /\ PendingConsistent
      BY DEF IInv, TypeOK, RescoresTyped, Got
    <3> QED BY <2>1, <3>1 DEF RescoresTyped, PendingConsistent
  <2> QED BY <2>1, WhoRescores, RescoreKeeps
<1>2. rows' \in [Items -> Row \union {None}] /\ \A i \in Items : RowStep(i)
  BY WhoWritesRows, RowsStep DEF IInv
<1>3. ScoresConsistent'
  <2>1. ScoresConsistent
    BY DEF IInv
  <2>2. ASSUME NEW i \in Items, rows'[i] # None PROVE Consistent(rows'[i].score)
    <3>1. CASE HasRow(i) /\ rows'[i].score = rows[i].score
      BY <2>1, <3>1 DEF ScoresConsistent
    <3> QED BY <1>2, <2>2, <3>1 DEF RowStep
  <2> QED BY <2>2 DEF ScoresConsistent, HasRow
<1>4. SettingsTyped'
  BY SettingsKeepType DEF IInv
<1>5. TypeOK'
  BY <1>1, <1>2, <1>4 DEF TypeOK, RescoresTyped, SettingsTyped, Got
<1> QED BY <1>1, <1>3, <1>5 DEF IInv

-----------------------------------------------------------------------------
(* Theorems                                                                *)

(* The inductive invariant of Spec.                                          *)
THEOREM Invariance == Spec => []IInv
<1> QED BY InitIInv, NextIInv, PTL DEF Spec

(***************************************************************************)
(* The table, the settings and what the rescores have read keep their      *)
(* types: no rescore computes with settings it has not read.               *)
(***************************************************************************)
THEOREM TypeCorrect == Spec => []TypeOK
<1>1. IInv => TypeOK
  BY DEF IInv
<1> QED BY <1>1, Invariance, PTL

(***************************************************************************)
(* For any rows, settings and number of rescores at once: the score        *)
(* columns of a row belong together, whoever wrote them last (ItemStore's  *)
(* Upsert and RescoreAll).                                                 *)
(***************************************************************************)
THEOREM ScoresBelongTogether == Spec => []ScoresConsistent
<1>1. IInv => ScoresConsistent
  BY DEF IInv
<1> QED BY <1>1, Invariance, PTL

(***************************************************************************)
(* No sync and no rescore undoes a Dismiss or a Seen of the user.          *)
(***************************************************************************)
THEOREM MarksLast == Spec => UserMarksLast
<1>1. IInv /\ [Next]_vars =>
        [\A i \in Items : HasRow(i) /\ rows'[i] # None =>
            /\ rows[i].dismissed => rows'[i].dismissed
            /\ rows[i].seen => rows'[i].seen]_rows
  BY WhoWritesRows, RowsStep DEF IInv, RowStep
<1> QED BY <1>1, Invariance, PTL DEF Spec, UserMarksLast

(***************************************************************************)
(* No rescore brings back a row deleted since it read it: only Upsert      *)
(* creates rows, and those are unscored.                                   *)
(***************************************************************************)
THEOREM RescoresCreateNothing == Spec => OnlyUpsertCreates
<1>1. IInv /\ [Next]_vars =>
        [\A i \in Items : ~HasRow(i) /\ rows'[i] # None =>
            changes' # changes /\ rows'[i].score = Unscored]_rows
  BY WhoWritesRows, RowsStep DEF IInv, RowStep
<1> QED BY <1>1, Invariance, PTL DEF Spec, OnlyUpsertCreates
=============================================================================
