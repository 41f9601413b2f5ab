-------------------------- MODULE JiraItemsProofs --------------------------
(***************************************************************************)
(* Proofs about JiraItems for any number of issues, spaces, sprints, pages *)
(* and changes.  IInv adds to the types what a Fetch knows of the lists it *)
(* is reading: which were live, and who was in them; LInv, what is still   *)
(* ahead of what has lasted so far.                                        *)
(***************************************************************************)
EXTENDS JiraItems, FiniteSetTheorems, WellFoundedInduction, TLAPS

\* x was so at some moment of the Fetch.
WasSo(x) ==
    /\ x \in seen.held
    /\ \E k \in 1..Sprints : <<x.issue, k>> \in seen.listed /\ <<Space[x.issue], k>> \in seen.ran

\* The sprints g has still to read, and the one it reads, were active.
Ran(g) == \A k \in g.sprints \union {g.sprint} : <<g.space, k>> \in seen.ran

\* What a Fetch knows where it is.
Reading ==
    /\ \A x \in batch : WasSo(x)
    /\ pc \in {"sprints", "keys", "issue"} => boardType[got.space] = "scrum"
    /\ pc = "search" => boardType[got.space] = "kanban"
    /\ pc \in {"keys", "issue"} => Ran(got)
    /\ \A i \in got.keys : Space[i] = got.space /\ <<i, got.sprint>> \in seen.listed

\* The types of what a Fetch changes.
CycleType ==
    /\ pc \in {"idle", "sprints", "keys", "issue", "search", "upsert"}
    /\ got \in Got
    /\ pc = "idle" => got = NotFetching /\ batch = {}
    /\ (got.keys # {}) <=> (pc = "issue")
    /\ batch \subseteq Items

\* The types of the rest.
WorldType ==
    /\ sprint \in [Issues -> 0..Sprints]
    /\ active \subseteq Lists
    /\ assignee \in [Issues -> People]
    /\ comments \in [Issues -> SUBSET [by : People, new : BOOLEAN]]
    /\ boardType \in BoardTypes /\ accountID \in AccountIDs
    /\ firstSync \in BOOLEAN /\ marked \in BOOLEAN
    /\ rows \subseteq Items
    /\ changes \in 0..MaxChanges /\ failures \in 0..MaxFailures

IInv == WorldType /\ CycleType /\ seen \in Seen /\ Reading

-----------------------------------------------------------------------------
(* Values                                                                  *)

\* Among some issues, or sprints, there is a first.
LEMMA FirstExists ==
    ASSUME NEW S \in SUBSET Nat, S # {}
    PROVE  Min(S) \in S
<1>1. PICK n \in S : \A m \in S : ~(<<m, n>> \in OpToRel(<, Nat))
  BY NatLessThanWellFounded, WFMin
<1>2. \A m \in S : n <= m
  <2>. SUFFICES ASSUME NEW m \in S, m < n PROVE FALSE
    OBVIOUS
  <2>1. <<m, n>> \in Nat \X Nat /\ <<m, n>>[1] < <<m, n>>[2]
    OBVIOUS
  <2>2. <<m, n>> \in OpToRel(<, Nat)
    BY <2>1 DEF OpToRel
  <2>. QED
    BY <1>1, <2>2
<1>. QED
  BY <1>2 DEF Min

\* The numbers among the constants.
LEMMA Numbers ==
    /\ Spaces \in Nat /\ Spaces >= 1 /\ Sprints \in Nat /\ Sprints >= 1
    /\ PageSize \in Nat /\ MaxChanges \in Nat /\ MaxFailures \in Nat
    /\ Issues \subseteq Nat /\ Space \in [Issues -> 1..Spaces]
<1>1. /\ Spaces \in Nat \ {0} /\ Sprints \in Nat \ {0} /\ PageSize \in Nat \ {0}
      /\ MaxChanges \in Nat /\ MaxFailures \in Nat
      /\ Issues \subseteq Nat /\ Space \in [Issues -> 1..Spaces]
  BY Zenon, JiraAssumption
<1>. QED
  BY <1>1

LEMMA NotFetchingType == NotFetching \in Got /\ NotFetching.keys = {}
BY Numbers DEF NotFetching, Got

LEMMA UnseenType == Unseen \in Seen
BY DEF Unseen, Seen, Lists

-----------------------------------------------------------------------------
(* Where a Fetch goes                                                      *)

\* To the first or the next space.
LEMMA SpaceStarts ==
    ASSUME WorldType, UNCHANGED stored, NEW s \in Nat \ {0}, NEW gathered \in SUBSET Items,
           StartSpace(s, gathered), pc' # "idle" => \A x \in gathered : WasSo(x)'
    PROVE  CycleType' /\ Reading'
<1>1. boardType' = boardType
  BY DEF stored
<1>2. ASSUME s <= Spaces
      PROVE  [NotFetching EXCEPT !.space = s] \in Got /\ [NotFetching EXCEPT !.space = s].keys = {}
             /\ [NotFetching EXCEPT !.space = s].space = s
  <2>1. s \in 1..Spaces
    BY <1>2, Numbers
  <2>. QED
    BY <2>1, NotFetchingType DEF Got
<1>3. CASE s <= Spaces /\ boardType[s] = "scrum" /\ got' = [NotFetching EXCEPT !.space = s]
           /\ pc' = "sprints" /\ batch' = gathered
  BY <1>1, <1>2, <1>3 DEF CycleType, Reading
<1>4. CASE s <= Spaces /\ boardType[s] = "kanban" /\ got' = [NotFetching EXCEPT !.space = s]
           /\ pc' = "search" /\ batch' = gathered
  BY <1>1, <1>2, <1>4 DEF CycleType, Reading
<1>5. CASE Return
  BY <1>5, NotFetchingType DEF Return, CycleType, Reading
<1>6. CASE s > Spaces /\ got' = NotFetching /\ pc' = "upsert" /\ batch' = gathered
  BY <1>6, NotFetchingType DEF CycleType, Reading
<1>. QED
  BY <1>3, <1>4, <1>5, <1>6 DEF StartSpace

\* To the next sprint, or space.
LEMMA SprintFollows ==
    ASSUME WorldType, UNCHANGED stored, NEW g \in Got, boardType[g.space] = "scrum",
           NEW gathered \in SUBSET Items, NextSprint(g, gathered),
           pc' # "idle" => /\ \A x \in gathered : WasSo(x)'
                           /\ \A k \in g.sprints : <<g.space, k>> \in seen'.ran
    PROVE  CycleType' /\ Reading'
<1>1. CASE g.sprints = {} /\ StartSpace(g.space + 1, gathered)
  <2>1. g.space + 1 \in Nat \ {0}
    BY Numbers DEF Got
  <2>. QED
    BY <1>1, <2>1, SpaceStarts
<1>2. ASSUME g.sprints # {}, pc' = "keys", batch' = gathered,
             got' = [g EXCEPT !.sprint = Min(g.sprints), !.sprints = g.sprints \ {Min(g.sprints)},
                              !.offset = 0, !.keys = {}, !.more = FALSE]
      PROVE  CycleType' /\ Reading'
  <2>1. PICK k \in 1..Sprints : k = Min(g.sprints) /\ k \in g.sprints
    <3>1. g.sprints \in SUBSET Nat /\ g.sprints \subseteq 1..Sprints
      BY DEF Got
    <3>2. Min(g.sprints) \in g.sprints
      BY <1>2, <3>1, FirstExists
    <3>. QED
      BY <3>1, <3>2
  <2>2. PICK rest \in SUBSET (1..Sprints) : rest = g.sprints \ {k}
    BY DEF Got
  <2>3. got' = [g EXCEPT !.sprint = k, !.sprints = rest, !.offset = 0, !.keys = {}, !.more = FALSE]
    BY <1>2, <2>1, <2>2
  <2>4. /\ got' \in Got /\ got'.space = g.space /\ got'.sprint = k /\ got'.sprints = rest
        /\ got'.keys = {}
    BY <2>3 DEF Got
  <2>5. CycleType'
    BY <1>2, <2>4 DEF CycleType
  <2>6. Ran(got)'
    BY <1>2, <2>1, <2>2, <2>4 DEF Ran
  <2>. QED
    BY <1>2, <2>4, <2>5, <2>6 DEF Reading, stored
<1>. QED
  BY <1>1, <1>2 DEF NextSprint

\* To the next page, sprint or space.
LEMMA PageTurns ==
    ASSUME WorldType, UNCHANGED stored, NEW g \in Got, boardType[g.space] = "scrum",
           NEW gathered \in SUBSET Items, TurnPage(g, gathered),
           pc' # "idle" => (\A x \in gathered : WasSo(x)') /\ Ran(g)'
    PROVE  CycleType' /\ Reading'
<1>1. CASE ~g.more /\ NextSprint(g, gathered)
  <2>1. pc' # "idle" => /\ \A x \in gathered : WasSo(x)'
                        /\ \A k \in g.sprints : <<g.space, k>> \in seen'.ran
    BY DEF Ran
  <2>. QED
    BY <1>1, <2>1, SprintFollows
<1>2. ASSUME g.more, got' = [g EXCEPT !.offset = @ + PageSize, !.keys = {}, !.more = FALSE],
             pc' = "keys", batch' = gathered
      PROVE  CycleType' /\ Reading'
  <2>1. PICK offset \in Nat : offset = g.offset + PageSize
    BY Numbers DEF Got
  <2>2. got' = [g EXCEPT !.offset = offset, !.keys = {}, !.more = FALSE]
    BY <1>2, <2>1
  <2>3. /\ got' \in Got /\ got'.space = g.space /\ got'.sprint = g.sprint
        /\ got'.sprints = g.sprints /\ got'.keys = {}
    BY <2>2 DEF Got
  <2>4. Ran(got)'
    BY <1>2, <2>3 DEF Ran
  <2>5. CycleType'
    BY <1>2, <2>3 DEF CycleType
  <2>. QED
    BY <1>2, <2>3, <2>4, <2>5 DEF Reading, stored
<1>. QED
  BY <1>1, <1>2 DEF TurnPage

-----------------------------------------------------------------------------
(* The history                                                             *)

\* The history keeps its type, and during a Fetch it grows by what is so.
LEMMA Observed ==
    ASSUME IInv, Observe
    PROVE  /\ seen' \in Seen
           /\ pc # "idle" /\ pc' # "idle" =>
                /\ \A x \in Items : HoldsFor(x, accountID) => x \in seen'.held
                /\ \A i \in Issues : <<i, sprint[i]>> \in seen'.listed
                /\ \A s \in 1..Spaces, k \in 1..Sprints : Live(s, k) => <<s, k>> \in seen'.ran
                /\ seen.held \subseteq seen'.held /\ seen.listed \subseteq seen'.listed
                /\ seen.ran \subseteq seen'.ran
<1>1. CASE "idle" \in {pc, pc'}
  BY <1>1, UnseenType DEF Observe
<1>2. CASE "idle" \notin {pc, pc'}
  <2>. DEFINE holding == {x \in Items : HoldsFor(x, accountID)}
              live == {l \in Lists : Live(l[1], l[2])}
              lists == {<<i, sprint[i]>> : i \in Issues}
              left == {l \in seen.listed : sprint[l[1]] # l[2] /\ Reads(Space[l[1]], l[2])}
  <2>1. seen' = [held |-> seen.held \union holding,
                 always |-> seen.always \intersect holding,
                 listed |-> seen.listed \union lists,
                 ran |-> seen.ran \union live,
                 left |-> seen.left \union left,
                 kept |-> seen.kept \intersect live]
    BY <1>2 DEF Observe
  <2>2. holding \in SUBSET Items /\ live \in SUBSET Lists
    OBVIOUS
  <2>3. \A i \in Issues : sprint[i] \in 0..Sprints /\ <<i, sprint[i]>> \in lists
    BY DEF IInv, WorldType
  <2>4. lists \in SUBSET (Issues \X (0..Sprints))
    BY <2>3
  <2>5. left \subseteq seen.listed
    OBVIOUS
  <2>6. \A x \in Items : HoldsFor(x, accountID) => x \in holding
    OBVIOUS
  <2>7. \A s \in 1..Spaces, k \in 1..Sprints : Live(s, k) => <<s, k>> \in live
    BY DEF Lists
  <2>. HIDE DEF holding, live, lists, left
  <2>8. /\ seen'.held = seen.held \union holding /\ seen'.listed = seen.listed \union lists
        /\ seen'.ran = seen.ran \union live
    BY <2>1
  <2>9. seen' \in Seen
    BY <2>1, <2>2, <2>4, <2>5 DEF Seen, IInv
  <2>. QED
    BY <2>3, <2>6, <2>7, <2>8, <2>9
<1>. QED
  BY <1>1, <1>2

\* What was so stays so.
LEMMA StaysSo ==
    ASSUME IInv, Observe, pc # "idle", pc' # "idle"
    PROVE  /\ \A x : WasSo(x) => WasSo(x)'
           /\ \A g : Ran(g) => \A k \in g.sprints \union {g.sprint} : <<g.space, k>> \in seen'.ran
BY Observed DEF WasSo, Ran

-----------------------------------------------------------------------------
(* The steps                                                               *)

\* Changes in Jira, and a Reload.
LEMMA WorldStep ==
    ASSUME IInv, Observe, JiraChanges \/ Relaunch
    PROVE  IInv'
<1>1. WorldType' /\ UNCHANGED <<boardType, pc, got, batch>>
  <2>1. WorldType
    BY DEF IInv
  <2>2. ASSUME Change
        PROVE  /\ changes' \in 0..MaxChanges /\ UNCHANGED <<pc, got, batch, rows, failures>>
               /\ UNCHANGED <<boardType, accountID, firstSync, marked>>
    <3>1. changes \in 0..MaxChanges /\ changes < MaxChanges /\ changes' = changes + 1
      BY <2>1, <2>2 DEF WorldType, Change
    <3>2. changes' \in 0..MaxChanges
      BY <3>1, Numbers
    <3>. QED
      BY <2>2, <3>2 DEF Change, stored, sync
  <2>3. ASSUME NEW i \in Issues, NEW k \in 0..Sprints, MoveIssue(i, k)
        PROVE  WorldType' /\ UNCHANGED <<boardType, pc, got, batch>>
    BY <2>1, <2>2, <2>3 DEF MoveIssue, WorldType
  <2>4. ASSUME NEW i \in Issues, NEW name \in People, Assign(i, name)
        PROVE  WorldType' /\ UNCHANGED <<boardType, pc, got, batch>>
    BY <2>1, <2>2, <2>4 DEF Assign, WorldType
  <2>5. ASSUME NEW i \in Issues, NEW name \in People, Comment(i, name)
        PROVE  WorldType' /\ UNCHANGED <<boardType, pc, got, batch>>
    <3>1. PICK c \in [by : People, new : BOOLEAN] : c = [by |-> name, new |-> TRUE]
      OBVIOUS
    <3>2. comments' = [comments EXCEPT ![i] = @ \union {c}]
      BY <2>5, <3>1 DEF Comment
    <3>3. comments' \in [Issues -> SUBSET [by : People, new : BOOLEAN]]
      <4>. DEFINE All == [by : People, new : BOOLEAN]
      <4>. HIDE DEF All
      <4>1. comments \in [Issues -> SUBSET All] /\ c \in All
        BY <2>1, <3>1 DEF WorldType, All
      <4>2. comments' \in [Issues -> SUBSET All]
        BY <3>2, <4>1
      <4>. QED
        BY <4>2 DEF All
    <3>. QED
      BY <2>1, <2>2, <2>5, <3>3 DEF Comment, WorldType
  <2>6. ASSUME NEW s \in 1..Spaces, NEW k \in 1..Sprints, ToggleSprint(s, k)
        PROVE  WorldType' /\ UNCHANGED <<boardType, pc, got, batch>>
    <3>1. <<s, k>> \in Lists
      BY DEF Lists
    <3>2. active' \subseteq Lists
      BY <2>1, <2>6, <3>1 DEF ToggleSprint, WorldType
    <3>. QED
      BY <2>1, <2>2, <2>6, <3>2 DEF ToggleSprint, WorldType
  <2>7. CASE Relaunch
    BY <2>1, <2>7 DEF Relaunch, WorldType, jira, stored
  <2>. QED
    BY <2>3, <2>4, <2>5, <2>6, <2>7 DEF JiraChanges
<1>2. CycleType'
  BY <1>1 DEF IInv, CycleType
<1>3. Reading'
  <2>1. CASE pc = "idle"
    BY <1>1, <2>1, NotFetchingType DEF IInv, CycleType, Reading
  <2>2. CASE pc # "idle"
    <3>1. pc' # "idle"
      BY <1>1, <2>2
    <3>2. \A x \in batch' : WasSo(x)'
      BY <1>1, <2>2, <3>1, StaysSo DEF IInv, Reading
    <3>3. pc' \in {"keys", "issue"} => Ran(got)'
      BY <1>1, <2>2, <3>1, StaysSo DEF IInv, Reading, Ran
    <3>4. \A i \in got'.keys : Space[i] = got'.space /\ <<i, got'.sprint>> \in seen'.listed
      BY <1>1, <2>2, <3>1, Observed DEF IInv, Reading
    <3>. QED
      BY <1>1, <3>2, <3>3, <3>4 DEF IInv, Reading
  <2>. QED
    BY <2>1, <2>2
<1>. QED
  BY <1>1, <1>2, <1>3, Observed DEF IInv

\* What processIssue makes of an issue is so when it is read.
LEMMA Classified ==
    ASSUME NEW i \in Issues, NEW t \in ProcessIssue(i)
    PROVE  /\ [issue |-> i, type |-> t] \in Items
           /\ HoldsFor([issue |-> i, type |-> t], accountID)
<1>1. [issue |-> i, type |-> t] \in Items
  BY DEF ProcessIssue, Items
<1>. QED
  BY <1>1 DEF ProcessIssue, HoldsFor, IHaveCommented, NewCommentFrom

\* The items of an issue that is read in a live list were so.
LEMMA ReadAndSo ==
    ASSUME IInv, Observe, pc # "idle", pc' # "idle", NEW i \in Issues,
           NEW k \in 1..Sprints, <<i, k>> \in seen'.listed, <<Space[i], k>> \in seen'.ran,
           NEW x \in [issue : {i}, type : ProcessIssue(i)]
    PROVE  x \in Items /\ WasSo(x)'
<1>1. x = [issue |-> i, type |-> x.type] /\ x.type \in ProcessIssue(i) /\ x.issue = i
  OBVIOUS
<1>2. x \in Items /\ HoldsFor(x, accountID)
  BY <1>1, Classified
<1>3. x \in seen'.held
  BY <1>2, Observed
<1>. QED
  BY <1>1, <1>2, <1>3 DEF WasSo

\* Every step of the sync cycle leaves Jira alone.
LEMMA SyncStep ==
    ASSUME IInv, Observe, Sync
    PROVE  IInv'
<1>1. WorldType' /\ UNCHANGED stored
  <2>1. CASE Begin \/ ListSprints \/ SprintIssues \/ GetIssue \/ SearchIssues
    BY <2>1 DEF Begin, ListSprints, SprintIssues, GetIssue, SearchIssues, IInv, WorldType,
                jira, stored, sync
  <2>2. CASE Upsert
    BY <2>2 DEF Upsert, IInv, WorldType, CycleType, jira, stored
  <2>3. CASE Fails
    <3>1. failures \in 0..MaxFailures /\ failures < MaxFailures /\ failures' = failures + 1
      BY <2>3 DEF Fails, IInv, WorldType
    <3>2. failures' \in 0..MaxFailures
      BY <3>1, Numbers
    <3>. QED
      BY <2>3, <3>2 DEF Fails, IInv, WorldType, jira, stored, sync
  <2>. QED
    BY <2>1, <2>2, <2>3 DEF Sync
<1>2. WorldType /\ got \in Got /\ batch \in SUBSET Items /\ Reading
  BY DEF IInv, CycleType
<1>3. CASE Begin
  <2>1. StartSpace(1, {})
    BY <1>3 DEF Begin
  <2>. QED
    BY <1>1, <1>2, <2>1, SpaceStarts, Observed DEF IInv
<1>4. CASE ListSprints
  <2>1. PICK found \in SUBSET (1..Sprints) : found = {k \in 1..Sprints : <<got.space, k>> \in active}
    OBVIOUS
  <2>2. PICK g : g = [got EXCEPT !.sprints = found]
    OBVIOUS
  <2>3. g \in Got /\ g.space = got.space /\ g.sprints = found
    BY <1>2, <2>2 DEF Got
  <2>4. pc = "sprints" /\ NextSprint(g, batch) /\ boardType[got.space] = "scrum"
    BY <1>2, <1>4, <2>1, <2>2 DEF ListSprints, Reading
  <2>5. got.space \in 1..Spaces
    BY <1>2 DEF Got
  <2>6. pc' # "idle" => \A x \in batch : WasSo(x)'
    BY <1>2, <2>4, StaysSo DEF Reading
  <2>7. pc' # "idle" => \A k \in found : <<got.space, k>> \in seen'.ran
    BY <2>1, <2>4, <2>5, Observed DEF Live
  <2>. QED
    BY <1>1, <1>2, <2>3, <2>4, <2>6, <2>7, SprintFollows, Observed DEF IInv
<1>5. CASE SprintIssues
  <2>0. PICK keys \in SUBSET Issues : keys = Page(got.space, got.sprint, got.offset)
    BY DEF Page, List
  <2>1. PICK more \in BOOLEAN : more = HasNextPage(got.space, got.sprint, got.offset)
    <3>1. HasNextPage(got.space, got.sprint, got.offset) \in BOOLEAN
      BY SMT DEF HasNextPage
    <3>. QED
      BY <3>1
  <2>2. PICK g : g = [got EXCEPT !.keys = keys, !.more = more]
    OBVIOUS
  <2>3. /\ g \in Got /\ g.space = got.space /\ g.sprints = got.sprints /\ g.sprint = got.sprint
        /\ g.keys = keys
    BY <1>2, <2>2 DEF Got
  <2>4. /\ pc = "keys" /\ boardType[got.space] = "scrum" /\ Ran(got)
        /\ \/ g.keys # {} /\ got' = g /\ pc' = "issue" /\ batch' = batch
           \/ g.keys = {} /\ TurnPage(g, batch)
    BY <1>2, <1>5, <2>0, <2>1, <2>2 DEF SprintIssues, Reading
  <2>5. pc' # "idle" => (\A x \in batch : WasSo(x)') /\ Ran(g)'
    <3>. SUFFICES ASSUME pc' # "idle" PROVE (\A x \in batch : WasSo(x)') /\ Ran(g)'
      OBVIOUS
    <3>1. \A x \in batch : WasSo(x)'
      BY <1>2, <2>4, StaysSo DEF Reading
    <3>2. \A k \in got.sprints \union {got.sprint} : <<got.space, k>> \in seen'.ran
      BY <2>4, StaysSo
    <3>. QED
      BY <2>3, <3>1, <3>2 DEF Ran
  <2>6. CASE g.keys = {} /\ TurnPage(g, batch)
    BY <1>1, <1>2, <2>3, <2>4, <2>5, <2>6, PageTurns, Observed DEF IInv
  <2>7. CASE g.keys # {} /\ got' = g /\ pc' = "issue" /\ batch' = batch
    <3>1. CycleType'
      BY <1>2, <2>3, <2>7 DEF CycleType
    <3>2. \A i \in keys : Space[i] = got.space /\ <<i, got.sprint>> \in seen'.listed
      <4>1. \A i \in keys : i \in Issues /\ Space[i] = got.space /\ sprint[i] = got.sprint
        BY <2>0 DEF Page, List
      <4>. QED
        BY <2>4, <2>7, <4>1, Observed
    <3>3. Ran(got)'
      BY <2>5, <2>7 DEF Ran
    <3>4. Reading'
      BY <1>1, <2>3, <2>4, <2>5, <2>7, <3>2, <3>3 DEF Reading, stored
    <3>. QED
      BY <1>1, <3>1, <3>4, Observed DEF IInv
  <2>. QED
    BY <2>4, <2>6, <2>7
<1>6. CASE GetIssue
  <2>1. pc = "issue" /\ got.keys # {} /\ got.keys \in SUBSET Issues
    BY <1>2, <1>6 DEF GetIssue, IInv, CycleType, Got
  <2>2. PICK i \in Issues : i = Min(got.keys) /\ i \in got.keys
    <3>1. got.keys \in SUBSET Nat
      BY <2>1, Numbers
    <3>. QED
      BY <2>1, <3>1, FirstExists
  <2>. DEFINE gathered == batch \union [issue : {i}, type : ProcessIssue(i)]
  <2>. HIDE DEF gathered
  <2>3. PICK keys \in SUBSET Issues : keys = got.keys \ {i}
    BY <2>1
  <2>4. PICK g : g = [got EXCEPT !.keys = keys]
    OBVIOUS
  <2>5. /\ g \in Got /\ g.space = got.space /\ g.sprints = got.sprints /\ g.sprint = got.sprint
        /\ g.keys = keys
    BY <1>2, <2>4 DEF Got
  <2>6. \/ g.keys # {} /\ got' = g /\ pc' = pc /\ batch' = gathered
        \/ g.keys = {} /\ TurnPage(g, gathered)
    BY <1>6, <2>2, <2>3, <2>4 DEF GetIssue, gathered
  <2>7. /\ boardType[got.space] = "scrum" /\ Ran(got)
        /\ \A j \in got.keys : Space[j] = got.space /\ <<j, got.sprint>> \in seen.listed
    BY <1>2, <2>1 DEF Reading
  <2>8. gathered \in SUBSET Items
    <3>1. \A x \in [issue : {i}, type : ProcessIssue(i)] : x \in Items
      BY DEF ProcessIssue, Items
    <3>. QED
      BY <1>2, <3>1 DEF gathered
  <2>9. pc' # "idle" => (\A x \in gathered : WasSo(x)') /\ Ran(g)'
    <3>. SUFFICES ASSUME pc' # "idle" PROVE (\A x \in gathered : WasSo(x)') /\ Ran(g)'
      OBVIOUS
    <3>1. \A x \in batch : WasSo(x)'
      BY <1>2, <2>1, StaysSo DEF Reading
    <3>2. \A k \in got.sprints \union {got.sprint} : <<got.space, k>> \in seen'.ran
      BY <2>1, <2>7, StaysSo
    <3>3. got.sprint \in 1..Sprints /\ <<i, got.sprint>> \in seen'.listed
          /\ <<Space[i], got.sprint>> \in seen'.ran
      BY <1>2, <2>1, <2>2, <2>7, <3>2, Observed DEF Got
    <3>4. \A x \in [issue : {i}, type : ProcessIssue(i)] : WasSo(x)'
      BY <2>1, <3>3, ReadAndSo
    <3>. QED
      BY <2>5, <3>1, <3>2, <3>4 DEF Ran, gathered
  <2>10. CASE g.keys = {} /\ TurnPage(g, gathered)
    BY <1>1, <1>2, <2>5, <2>7, <2>8, <2>9, <2>10, PageTurns, Observed DEF IInv
  <2>11. CASE g.keys # {} /\ got' = g /\ pc' = pc /\ batch' = gathered
    <3>1. CycleType'
      BY <2>1, <2>5, <2>8, <2>11 DEF CycleType
    <3>2. \A j \in keys : Space[j] = got.space /\ <<j, got.sprint>> \in seen'.listed
      BY <2>1, <2>3, <2>7, <2>11, Observed
    <3>3. Ran(got)'
      BY <2>1, <2>9, <2>11 DEF Ran
    <3>4. Reading'
      BY <1>1, <2>1, <2>5, <2>7, <2>9, <2>11, <3>2, <3>3 DEF Reading, stored
    <3>. QED
      BY <1>1, <3>1, <3>4, Observed DEF IInv
  <2>. QED
    BY <2>6, <2>10, <2>11
<1>7. CASE SearchIssues
  <2>1. PICK found \in SUBSET Issues : found = Page(got.space, 1, got.offset)
    BY DEF Page, List
  <2>. DEFINE gathered == batch \union UNION {[issue : {i}, type : ProcessIssue(i)] : i \in found}
  <2>. HIDE DEF gathered
  <2>2. /\ pc = "search" /\ boardType[got.space] = "kanban" /\ got.keys = {}
        /\ got.space \in 1..Spaces /\ got.offset \in Nat
    BY <1>2, <1>7 DEF SearchIssues, Reading, IInv, CycleType, Got
  <2>3. \/ got' = [got EXCEPT !.offset = @ + PageSize] /\ pc' = pc /\ batch' = gathered
        \/ StartSpace(got.space + 1, gathered)
    BY <1>7, <2>1 DEF SearchIssues, gathered
  <2>4. gathered \in SUBSET Items
    <3>1. \A i \in found : \A x \in [issue : {i}, type : ProcessIssue(i)] : x \in Items
      BY DEF ProcessIssue, Items
    <3>. QED
      BY <1>2, <3>1 DEF gathered
  <2>5. pc' # "idle" => \A x \in gathered : WasSo(x)'
    <3>. SUFFICES ASSUME pc' # "idle" PROVE \A x \in gathered : WasSo(x)'
      OBVIOUS
    <3>1. \A x \in batch : WasSo(x)'
      BY <1>2, <2>2, StaysSo DEF Reading
    <3>2. ASSUME NEW i \in found, NEW x \in [issue : {i}, type : ProcessIssue(i)]
          PROVE  WasSo(x)'
      <4>1. i \in Issues /\ Space[i] = got.space /\ sprint[i] = 1
        BY <2>1 DEF Page, List
      <4>2. 1 \in 1..Sprints /\ Live(got.space, 1)
        BY <2>2, Numbers DEF Live
      <4>3. <<i, 1>> \in seen'.listed /\ <<Space[i], 1>> \in seen'.ran
        BY <2>2, <4>1, <4>2, Observed
      <4>. QED
        BY <2>2, <4>1, <4>2, <4>3, ReadAndSo
    <3>. QED
      BY <3>1, <3>2 DEF gathered
  <2>6. CASE StartSpace(got.space + 1, gathered)
    <3>1. got.space + 1 \in Nat \ {0}
      BY <2>2, Numbers
    <3>. QED
      BY <1>1, <1>2, <2>4, <2>5, <2>6, <3>1, SpaceStarts, Observed DEF IInv
  <2>7. CASE got' = [got EXCEPT !.offset = @ + PageSize] /\ pc' = pc /\ batch' = gathered
    <3>1. PICK offset \in Nat : offset = got.offset + PageSize
      BY <2>2, Numbers
    <3>2. got' = [got EXCEPT !.offset = offset]
      BY <2>7, <3>1
    <3>3. got' \in Got /\ got'.space = got.space /\ got'.keys = got.keys
      BY <1>2, <3>2 DEF Got
    <3>4. CycleType'
      BY <2>2, <2>4, <2>7, <3>3 DEF CycleType
    <3>5. Reading'
      BY <1>1, <2>2, <2>5, <2>7, <3>3 DEF Reading, stored
    <3>. QED
      BY <1>1, <3>4, <3>5, Observed DEF IInv
  <2>. QED
    BY <2>3, <2>6, <2>7
<1>8. CASE Upsert \/ Fails
  <2>1. Return
    BY <1>8 DEF Upsert, Fails
  <2>2. CycleType' /\ Reading'
    BY <2>1, NotFetchingType DEF Return, CycleType, Reading
  <2>. QED
    BY <1>1, <2>2, Observed DEF IInv
<1>. QED
  BY <1>3, <1>4, <1>5, <1>6, <1>7, <1>8 DEF Sync

\* IInv holds always.
LEMMA IInvHolds == Spec => []IInv
<1>1. Init => IInv
  <2>. SUFFICES ASSUME Init PROVE IInv
    OBVIOUS
  <2>1. /\ pc = "idle" /\ got = NotFetching /\ batch = {} /\ rows = {} /\ seen = Unseen
        /\ changes = 0 /\ failures = 0 /\ firstSync \in BOOLEAN /\ marked \in BOOLEAN
        /\ accountID \in AccountIDs /\ boardType \in BoardTypes
        /\ assignee = [i \in Issues |-> Nobody] /\ sprint \in Placements
        /\ active = {<<s, 1>> : s \in 1..Spaces}
        /\ comments = [i \in Issues |-> IF i \in Commented THEN {[by |-> Me, new |-> FALSE]} ELSE {}]
    BY DEF Init
  <2>2. sprint \in [Issues -> 0..Sprints] /\ Me \in People /\ Nobody \in People
    BY <2>1, JiraAssumption DEF People
  <2>3. active \subseteq Lists
    BY <2>1, Numbers DEF Lists
  <2>4. comments \in [Issues -> SUBSET [by : People, new : BOOLEAN]]
    BY <2>1, <2>2
  <2>5. WorldType
    BY <2>1, <2>2, <2>3, <2>4, Numbers DEF WorldType
  <2>6. CycleType /\ Reading
    BY <2>1, NotFetchingType DEF CycleType, Reading
  <2>. QED
    BY <2>1, <2>5, <2>6, UnseenType DEF IInv
<1>2. IInv /\ [Next]_vars => IInv'
  <2>1. IInv /\ UNCHANGED vars => IInv'
    BY DEF vars, jira, stored, sync, IInv, WorldType, CycleType, Reading, Ran, WasSo
  <2>. QED
    BY <2>1, WorldStep, SyncStep DEF Next
<1>. QED
  BY <1>1, <1>2, PTL DEF Spec

-----------------------------------------------------------------------------

\* Every variable has its type; between cycles nothing is kept, and a Fetch
\* has keys to read exactly while it reads issues (TypeOK).
THEOREM TypeCorrect == Spec => []TypeOK
<1>1. IInv => TypeOK
  BY DEF IInv, WorldType, CycleType, TypeOK
<1>. QED
  BY <1>1, IInvHolds, PTL

\* What a Fetch reports was so: the item's condition held, and the issue was in
\* a list of its space that was an active sprint or the search, each at some
\* moment of the Fetch (ReportsWhatHeld).
THEOREM ReportsHeld == Spec => []ReportsWhatHeld
<1>1. IInv => ReportsWhatHeld
  BY DEF IInv, Reading, WasSo, ReportsWhatHeld
<1>. QED
  BY <1>1, IInvHolds, PTL

-----------------------------------------------------------------------------
(* What lasts is on its way to the report: the inductive invariant for     *)
(* ReportsWhatLasts follows an issue that stays in its list from the space *)
(* to be read, over its sprint and page, to the batch.                     *)

\* The issues listed before i that were in its list at some time.
EarlierSeen(i) ==
    {j \in Issues : Space[j] = Space[i] /\ j < i /\ <<j, sprint[i]>> \in seen.listed}

\* The Fetch has yet to read i: the pages so far held earlier issues only.
Ahead(i) ==
    /\ pc # "upsert"
    /\ \/ Space[i] > got.space
       \/ /\ Space[i] = got.space
          /\ \/ pc = "sprints"
             \/ pc \in {"keys", "issue"} /\ sprint[i] \in got.sprints
             \/ pc = "search" /\ got.offset <= Cardinality(EarlierSeen(i))
             \/ /\ pc = "keys" /\ sprint[i] = got.sprint
                /\ got.offset <= Cardinality(EarlierSeen(i))
             \/ pc = "issue" /\ i \in got.keys
             \/ /\ pc = "issue" /\ sprint[i] = got.sprint /\ got.more
                /\ got.offset + PageSize <= Cardinality(EarlierSeen(i))

\* What has held all along is gathered, ahead, or shifted out of the pages.
Coming ==
    pc # "idle" /\ ~firstSync =>
        \A x \in seen.always :
            Stayed(x.issue) => x \in batch \/ Ahead(x.issue) \/ Shifted(x.issue)

Lasting == Coming /\ (pc = "search" => got.sprint = 1)

LInv == IInv /\ Lasting

\* Sets of issues are finite.
LEMMA IssuesFinite ==
    \A S \in SUBSET Issues : IsFiniteSet(S) /\ Cardinality(S) \in Nat
<1>1. IsFiniteSet(Issues)
  BY Zenon, JiraAssumption
<1>. QED
  BY <1>1, FS_Subset, FS_CardinalityType

\* An issue is one of its list, and not one before itself.
LEMMA BeforeInList ==
    ASSUME NEW i \in Issues
    PROVE  Before(i) \in Nat /\ Before(i) < Cardinality(List(Space[i], sprint[i]))
           /\ Cardinality(List(Space[i], sprint[i])) \in Nat
<1>. DEFINE list == List(Space[i], sprint[i])
            before == {j \in list : j < i}
<1>1. list \in SUBSET Issues /\ before \in SUBSET list /\ i \in list
  BY DEF List
<1>2. i \notin before
  BY Numbers
<1>3. Before(i) = Cardinality(before)
  BY DEF Before
<1>. HIDE DEF before, list
<1>4. IsFiniteSet(list) /\ Cardinality(list) \in Nat /\ Cardinality(before) \in Nat
  BY <1>1, IssuesFinite
<1>5. Cardinality(before) <= Cardinality(list) /\ Cardinality(before) # Cardinality(list)
  BY <1>1, <1>2, <1>4, FS_Subset
<1>. QED
  BY <1>3, <1>4, <1>5 DEF list

\* What one step of a Fetch notes of what lasts.
LEMMA ObservedLasting ==
    ASSUME IInv, Observe, pc # "idle", pc' # "idle"
    PROVE  /\ \A x \in seen'.always :
                x \in seen.always /\ x \in Items /\ HoldsFor(x, accountID) /\ x.issue \in Issues
           /\ seen'.listed = seen.listed \union {<<i, sprint[i]>> : i \in Issues}
           /\ \A l \in seen'.kept : l \in seen.kept /\ Live(l[1], l[2])
           /\ seen.left \subseteq seen'.left
           /\ \A l \in seen.listed :
                sprint[l[1]] # l[2] /\ Reads(Space[l[1]], l[2]) => l \in seen'.left
<1>. DEFINE holding == {x \in Items : HoldsFor(x, accountID)}
            live == {l \in Lists : Live(l[1], l[2])}
            left == {l \in seen.listed : sprint[l[1]] # l[2] /\ Reads(Space[l[1]], l[2])}
<1>1. /\ seen'.always = seen.always \intersect holding
      /\ seen'.listed = seen.listed \union {<<i, sprint[i]>> : i \in Issues}
      /\ seen'.kept = seen.kept \intersect live
      /\ seen'.left = seen.left \union left
  BY DEF Observe
<1>2. \A x \in Items : x.issue \in Issues
  BY DEF Items
<1>. QED
  BY <1>1, <1>2

\* What has stayed until now had stayed before, its list live.
LEMMA StayedBefore ==
    ASSUME IInv, Observe, pc # "idle", pc' # "idle", NEW i \in Issues, Stayed(i)'
    PROVE  /\ Stayed(i) /\ sprint'[i] = sprint[i] /\ sprint[i] \in 1..Sprints
           /\ Live(Space[i], sprint[i])
<1>1. /\ sprint'[i] > 0 /\ {l \in seen'.listed : l[1] = i} \subseteq {<<i, sprint'[i]>>}
      /\ <<Space[i], sprint'[i]>> \in seen'.kept
  BY DEF Stayed
<1>2. <<i, sprint[i]>> \in seen'.listed /\ seen.listed \subseteq seen'.listed
  BY ObservedLasting
<1>3. sprint'[i] = sprint[i]
  BY <1>1, <1>2
<1>4. <<Space[i], sprint[i]>> \in seen.kept /\ Live(Space[i], sprint[i])
  BY <1>1, <1>3, ObservedLasting
<1>5. sprint[i] \in 0..Sprints /\ Sprints \in Nat
  BY Numbers DEF IInv, WorldType
<1>. QED
  BY <1>1, <1>2, <1>3, <1>4, <1>5 DEF Stayed

\* The issues seen before one that has stayed only grow in number, and once
\* it is shifted it stays so.
LEMMA EarlierGrow ==
    ASSUME IInv, Observe, pc # "idle", pc' # "idle", NEW i \in Issues, sprint'[i] = sprint[i]
    PROVE  /\ Shifted(i) => Shifted(i)'
           /\ Cardinality(EarlierSeen(i)) \in Nat /\ Cardinality(EarlierSeen(i))' \in Nat
           /\ Cardinality(EarlierSeen(i)) <= Cardinality(EarlierSeen(i))'
<1>1. Shifted(i) => Shifted(i)'
  BY ObservedLasting DEF Shifted
<1>2. EarlierSeen(i) \subseteq EarlierSeen(i)' /\ EarlierSeen(i)' \subseteq Issues
  BY ObservedLasting DEF EarlierSeen
<1>3. IsFiniteSet(EarlierSeen(i)')
  BY <1>2, IssuesFinite
<1>. QED
  BY <1>1, <1>2, <1>3, FS_Subset, IssuesFinite

\* When the list of an issue is read, and none was shifted, all that were seen
\* before it are there.
LEMMA EarlierAreThere ==
    ASSUME IInv, Observe, pc' # "idle", NEW i \in Issues, sprint'[i] = sprint[i],
           Reads(Space[i], sprint[i]), ~Shifted(i)'
    PROVE  Before(i) = Cardinality(EarlierSeen(i))'
<1>1. pc # "idle"
  BY DEF Reads
<1>2. ASSUME NEW j \in Issues, Space[j] = Space[i], j < i, <<j, sprint[i]>> \in seen'.listed
      PROVE  sprint[j] = sprint[i]
  <2>1. CASE <<j, sprint[i]>> \in seen.listed
    <3>1. sprint[j] # sprint[i] => <<j, sprint[i]>> \in seen'.left
      BY <1>1, <1>2, <2>1, ObservedLasting
    <3>. QED
      BY <1>2, <3>1 DEF Shifted
  <2>2. CASE <<j, sprint[i]>> \notin seen.listed
    <3>1. PICK m \in Issues : <<j, sprint[i]>> = <<m, sprint[m]>>
      BY <1>1, <1>2, <2>2, ObservedLasting
    <3>. QED
      BY <3>1
  <2>. QED
    BY <2>1, <2>2
<1>3. \A j \in Issues : <<j, sprint[j]>> \in seen'.listed
  BY <1>1, ObservedLasting
<1>4. EarlierSeen(i)' = {j \in List(Space[i], sprint[i]) : j < i}
  BY <1>2, <1>3 DEF EarlierSeen, List
<1>. QED
  BY <1>4 DEF Before

\* An item whose condition holds is made of its issue when it is read.
LEMMA IsProcessed ==
    ASSUME NEW x \in Items, HoldsFor(x, accountID), ~firstSync
    PROVE  x \in [issue : {x.issue}, type : ProcessIssue(x.issue)]
<1>1. x = [issue |-> x.issue, type |-> x.type] /\ x.type \in Types
  BY DEF Items
<1>2. x.type \in ProcessIssue(x.issue)
  BY <1>1 DEF HoldsFor, ProcessIssue, IHaveCommented, NewCommentFrom
<1>. QED
  BY <1>1, <1>2

\* To the first or the next space: what lasts in those before is gathered.
LEMMA SpaceLasting ==
    ASSUME WorldType, UNCHANGED <<jira, stored, sync>>, seen' \in Seen,
           NEW s \in Nat \ {0}, NEW gathered, StartSpace(s, gathered),
           \A x \in seen'.always :
              ~firstSync /\ Stayed(x.issue)' =>
                  x \in gathered \/ Shifted(x.issue)' \/ Space[x.issue] >= s
    PROVE  Lasting'
<1>1. \A x \in seen'.always : x.issue \in Issues /\ Space[x.issue] \in 1..Spaces
  BY Numbers DEF Seen, Items
<1>2. NotFetching.sprint = 1
  BY DEF NotFetching
<1>3. CASE /\ s <= Spaces /\ got' = [NotFetching EXCEPT !.space = s]
           /\ pc' \in {"sprints", "search"} /\ batch' = gathered
  <2>1. got'.space = s /\ got'.offset = 0 /\ got'.sprint = 1
    BY <1>3 DEF NotFetching
  <2>2. ASSUME NEW x \in seen'.always, Space[x.issue] >= s
        PROVE  Ahead(x.issue)'
    <3>1. Space[x.issue] > s \/ Space[x.issue] = s
      BY <1>1, <2>2
    <3>2. Cardinality(EarlierSeen(x.issue))' \in Nat
      <4>1. EarlierSeen(x.issue)' \subseteq Issues
        BY DEF EarlierSeen
      <4>. QED
        BY <4>1, IssuesFinite
    <3>. QED
      BY <1>3, <2>1, <3>1, <3>2 DEF Ahead
  <2>. QED
    BY <1>3, <2>1, <2>2 DEF Lasting, Coming, sync
<1>4. CASE Return
  BY <1>4 DEF Return, Lasting, Coming
<1>5. CASE s > Spaces /\ got' = NotFetching /\ pc' = "upsert" /\ batch' = gathered
  <2>1. \A x \in seen'.always : ~(Space[x.issue] >= s)
    BY <1>1, <1>5, Numbers
  <2>. QED
    BY <1>5, <2>1 DEF Lasting, Coming, sync
<1>. QED
  BY <1>3, <1>4, <1>5 DEF StartSpace

\* To the next sprint, or space: what lasts is gathered or in a later one.
LEMMA SprintLasting ==
    ASSUME WorldType, UNCHANGED <<jira, stored, sync>>, seen' \in Seen,
           NEW g \in Got, NEW gathered, NextSprint(g, gathered),
           \A x \in seen'.always :
              ~firstSync /\ Stayed(x.issue)' =>
                  \/ x \in gathered \/ Shifted(x.issue)' \/ Space[x.issue] > g.space
                  \/ Space[x.issue] = g.space /\ sprint[x.issue] \in g.sprints
    PROVE  Lasting'
<1>1. \A x \in seen'.always : x.issue \in Issues /\ Space[x.issue] \in 1..Spaces
  BY Numbers DEF Seen, Items
<1>2. g.space \in 1..Spaces /\ g.sprints \in SUBSET (1..Sprints)
  BY DEF Got
<1>3. CASE g.sprints = {} /\ StartSpace(g.space + 1, gathered)
  <2>1. g.space + 1 \in Nat \ {0}
    BY <1>2, Numbers
  <2>2. \A x \in seen'.always : Space[x.issue] > g.space => Space[x.issue] >= g.space + 1
    BY <1>1, <1>2
  <2>3. \A x \in seen'.always :
          ~firstSync /\ Stayed(x.issue)' =>
              x \in gathered \/ Shifted(x.issue)' \/ Space[x.issue] >= g.space + 1
    BY <1>3, <2>2
  <2>. QED
    BY <1>3, <2>1, <2>3, SpaceLasting
<1>4. ASSUME g.sprints # {}, pc' = "keys", batch' = gathered,
             got' = [g EXCEPT !.sprint = Min(g.sprints), !.sprints = g.sprints \ {Min(g.sprints)},
                              !.offset = 0, !.keys = {}, !.more = FALSE]
      PROVE  Lasting'
  <2>1. PICK k \in 1..Sprints : k = Min(g.sprints) /\ k \in g.sprints
    <3>1. g.sprints \in SUBSET Nat
      BY <1>2
    <3>2. Min(g.sprints) \in g.sprints
      BY <1>4, <3>1, FirstExists
    <3>. QED
      BY <1>2, <3>2
  <2>2. PICK rest \in SUBSET (1..Sprints) : rest = g.sprints \ {k}
    BY <1>2
  <2>3. got' = [g EXCEPT !.sprint = k, !.sprints = rest, !.offset = 0, !.keys = {}, !.more = FALSE]
    BY <1>4, <2>1, <2>2
  <2>4. got'.space = g.space /\ got'.sprint = k /\ got'.sprints = rest /\ got'.offset = 0
    BY <2>3 DEF Got
  <2>5. ASSUME NEW x \in seen'.always,
               \/ Space[x.issue] > g.space
               \/ Space[x.issue] = g.space /\ sprint[x.issue] \in g.sprints
        PROVE  Ahead(x.issue)'
    <3>1. EarlierSeen(x.issue)' \subseteq Issues
      BY DEF EarlierSeen
    <3>2. Cardinality(EarlierSeen(x.issue))' \in Nat
      BY <3>1, IssuesFinite
    <3>3. sprint' = sprint
      BY DEF jira
    <3>4. sprint[x.issue] \in g.sprints => sprint[x.issue] = k \/ sprint[x.issue] \in rest
      BY <2>2
    <3>. QED
      BY <1>4, <2>4, <2>5, <3>2, <3>3, <3>4 DEF Ahead
  <2>. QED
    BY <1>4, <2>5 DEF Lasting, Coming, sync
<1>. QED
  BY <1>3, <1>4 DEF NextSprint

\* To the next page, sprint or space: what lasts is gathered, on a later page
\* or in a later sprint.
LEMMA PageLasting ==
    ASSUME WorldType, UNCHANGED <<jira, stored, sync>>, seen' \in Seen,
           NEW g \in Got, NEW gathered, TurnPage(g, gathered),
           \A x \in seen'.always :
              ~firstSync /\ Stayed(x.issue)' =>
                  \/ x \in gathered \/ Shifted(x.issue)' \/ Space[x.issue] > g.space
                  \/ Space[x.issue] = g.space /\ sprint[x.issue] \in g.sprints
                  \/ /\ Space[x.issue] = g.space /\ sprint[x.issue] = g.sprint /\ g.more
                     /\ g.offset + PageSize <= Cardinality(EarlierSeen(x.issue))'
    PROVE  Lasting'
<1>1. CASE ~g.more /\ NextSprint(g, gathered)
  BY <1>1, SprintLasting
<1>2. ASSUME g.more, got' = [g EXCEPT !.offset = @ + PageSize, !.keys = {}, !.more = FALSE],
             pc' = "keys", batch' = gathered
      PROVE  Lasting'
  <2>1. PICK offset \in Nat : offset = g.offset + PageSize
    BY Numbers DEF Got
  <2>2. got' = [g EXCEPT !.offset = offset, !.keys = {}, !.more = FALSE]
    BY <1>2, <2>1
  <2>3. /\ got'.space = g.space /\ got'.sprint = g.sprint /\ got'.sprints = g.sprints
        /\ got'.offset = offset
    BY <2>2 DEF Got
  <2>4. sprint' = sprint /\ firstSync' = firstSync
    BY DEF jira, sync
  <2>. QED
    BY <1>2, <2>1, <2>3, <2>4 DEF Lasting, Coming, Ahead
<1>. QED
  BY <1>1, <1>2 DEF TurnPage

\* When no Fetch is under way there is nothing to come.
LEMMA IdleLasting ==
    ASSUME pc' = "idle"
    PROVE  Lasting'
BY DEF Lasting, Coming

\* What has lasted through this step was on its way before it.
LEMMA LastsBefore ==
    ASSUME LInv, Observe, pc # "idle", pc' # "idle", ~firstSync,
           NEW x \in seen'.always, Stayed(x.issue)'
    PROVE  /\ x \in Items /\ x.issue \in Issues /\ HoldsFor(x, accountID)
           /\ Space[x.issue] \in 1..Spaces
           /\ sprint'[x.issue] = sprint[x.issue] /\ sprint[x.issue] \in 1..Sprints
           /\ Live(Space[x.issue], sprint[x.issue])
           /\ Cardinality(EarlierSeen(x.issue)) \in Nat
           /\ Cardinality(EarlierSeen(x.issue))' \in Nat
           /\ Cardinality(EarlierSeen(x.issue)) <= Cardinality(EarlierSeen(x.issue))'
           /\ x \in batch \/ Ahead(x.issue) \/ Shifted(x.issue)'
<1>1. x \in Items /\ x \in seen.always /\ x.issue \in Issues /\ HoldsFor(x, accountID)
  BY ObservedLasting DEF LInv
<1>2. /\ Stayed(x.issue) /\ sprint'[x.issue] = sprint[x.issue] /\ sprint[x.issue] \in 1..Sprints
      /\ Live(Space[x.issue], sprint[x.issue])
  BY <1>1, StayedBefore DEF LInv
<1>3. /\ Shifted(x.issue) => Shifted(x.issue)'
      /\ Cardinality(EarlierSeen(x.issue)) \in Nat /\ Cardinality(EarlierSeen(x.issue))' \in Nat
      /\ Cardinality(EarlierSeen(x.issue)) <= Cardinality(EarlierSeen(x.issue))'
  BY <1>1, <1>2, EarlierGrow DEF LInv
<1>4. x \in batch \/ Ahead(x.issue) \/ Shifted(x.issue)
  BY <1>1, <1>2 DEF LInv, Lasting, Coming
<1>. QED
  BY <1>1, <1>2, <1>3, <1>4, Numbers

\* A change in Jira during a Fetch.
LEMMA WorldLasting ==
    ASSUME LInv, Observe, JiraChanges, pc # "idle"
    PROVE  Lasting'
<1>1. UNCHANGED <<pc, got, batch, firstSync>>
  BY DEF JiraChanges, MoveIssue, ToggleSprint, Assign, Comment, Change, sync
<1>2. got.offset \in Nat /\ PageSize \in Nat
  BY Numbers DEF LInv, IInv, CycleType, Got
<1>3. ASSUME NEW x \in seen'.always, ~firstSync, Stayed(x.issue)', Ahead(x.issue)
      PROVE  Ahead(x.issue)'
  <2>1. /\ sprint'[x.issue] = sprint[x.issue]
        /\ Cardinality(EarlierSeen(x.issue)) \in Nat
        /\ Cardinality(EarlierSeen(x.issue))' \in Nat
        /\ Cardinality(EarlierSeen(x.issue)) <= Cardinality(EarlierSeen(x.issue))'
    BY <1>1, <1>3, LastsBefore
  <2>2. PICK e \in Nat : e = Cardinality(EarlierSeen(x.issue))
    BY <2>1
  <2>3. PICK f \in Nat : f = Cardinality(EarlierSeen(x.issue))'
    BY <2>1
  <2>4. e <= f
    BY <2>1, <2>2, <2>3
  <2>5. /\ got.offset <= e => got.offset <= f
        /\ got.offset + PageSize <= e => got.offset + PageSize <= f
    BY <1>2, <2>4
  <2>. QED
    BY <1>1, <1>3, <2>1, <2>2, <2>3, <2>5 DEF Ahead
<1>4. Coming'
  BY <1>1, <1>3, LastsBefore DEF Coming
<1>. QED
  BY <1>1, <1>4 DEF LInv, Lasting

LEMMA BeginLasting ==
    ASSUME LInv, Observe, Begin
    PROVE  Lasting'
<1>1. pc = "idle" /\ StartSpace(1, {}) /\ UNCHANGED <<jira, stored, sync>>
  BY DEF Begin
<1>2. seen' \in Seen /\ WorldType
  BY Observed DEF LInv, IInv
<1>3. \A x \in seen'.always : Space[x.issue] >= 1
  <2>1. ASSUME NEW x \in seen'.always
        PROVE  Space[x.issue] >= 1
    <3>1. x.issue \in Issues
      BY <1>2 DEF Seen, Items
    <3>2. Space[x.issue] \in 1..Spaces
      BY <3>1, Numbers
    <3>. QED
      BY <3>2, Numbers
  <2>. QED
    BY <2>1
<1>4. 1 \in Nat \ {0}
  OBVIOUS
<1>. QED
  BY <1>1, <1>2, <1>3, <1>4, SpaceLasting

\* A sprint that stayed active is among those to be read.
LEMMA ListSprintsLasting ==
    ASSUME LInv, Observe, ListSprints
    PROVE  Lasting'
<1>1. PICK found \in SUBSET (1..Sprints) : found = {k \in 1..Sprints : <<got.space, k>> \in active}
  OBVIOUS
<1>2. PICK g : g = [got EXCEPT !.sprints = found]
  OBVIOUS
<1>3. got \in Got /\ seen' \in Seen /\ WorldType
  BY Observed DEF LInv, IInv, CycleType
<1>4. g \in Got /\ g.space = got.space /\ g.sprints = found
  BY <1>2, <1>3 DEF Got
<1>5. /\ pc = "sprints" /\ NextSprint(g, batch) /\ boardType[got.space] = "scrum"
      /\ UNCHANGED <<jira, stored, sync>>
  BY <1>1, <1>2 DEF ListSprints, LInv, IInv, Reading
<1>6. CASE pc' = "idle"
  BY <1>6, IdleLasting
<1>7. CASE pc' # "idle"
  <2>1. ASSUME NEW x \in seen'.always, ~firstSync, Stayed(x.issue)', x \notin batch,
               ~Shifted(x.issue)'
        PROVE  \/ Space[x.issue] > g.space
               \/ Space[x.issue] = g.space /\ sprint[x.issue] \in g.sprints
    <3>1. /\ Ahead(x.issue) /\ sprint[x.issue] \in 1..Sprints
          /\ Live(Space[x.issue], sprint[x.issue])
      BY <1>5, <1>7, <2>1, LastsBefore
    <3>2. Space[x.issue] = got.space => sprint[x.issue] \in found
      BY <1>1, <1>5, <3>1 DEF Live
    <3>. QED
      BY <1>4, <3>1, <3>2 DEF Ahead
  <2>. QED
    BY <1>3, <1>4, <1>5, <2>1, SprintLasting
<1>. QED
  BY <1>6, <1>7

\* A page of keys: what lasts is on it, or on a later one, unless one before it
\* left the list since the first page.
LEMMA SprintIssuesLasting ==
    ASSUME LInv, Observe, SprintIssues
    PROVE  Lasting'
<1>0. PICK keys \in SUBSET Issues : keys = Page(got.space, got.sprint, got.offset)
  BY DEF Page, List
<1>1. PICK more \in BOOLEAN : more = HasNextPage(got.space, got.sprint, got.offset)
  <2>1. HasNextPage(got.space, got.sprint, got.offset) \in BOOLEAN
    BY SMT DEF HasNextPage
  <2>. QED
    BY <2>1
<1>2. PICK g : g = [got EXCEPT !.keys = keys, !.more = more]
  OBVIOUS
<1>3. got \in Got /\ seen' \in Seen /\ WorldType /\ got.offset \in Nat /\ PageSize \in Nat
  BY Observed, Numbers DEF LInv, IInv, CycleType, Got
<1>4. /\ g \in Got /\ g.space = got.space /\ g.sprints = got.sprints /\ g.sprint = got.sprint
      /\ g.keys = keys /\ g.offset = got.offset /\ g.more = more
  BY <1>2, <1>3 DEF Got
<1>5. /\ pc = "keys" /\ UNCHANGED <<jira, stored, sync>>
      /\ \/ g.keys # {} /\ got' = g /\ pc' = "issue" /\ batch' = batch
         \/ g.keys = {} /\ TurnPage(g, batch)
  BY <1>0, <1>1, <1>2 DEF SprintIssues
<1>6. CASE pc' = "idle"
  BY <1>6, IdleLasting
<1>7. ASSUME pc' # "idle", NEW x \in seen'.always, ~firstSync, Stayed(x.issue)', x \notin batch,
             ~Shifted(x.issue)'
      PROVE  \/ Space[x.issue] > g.space
             \/ Space[x.issue] = g.space /\ sprint[x.issue] \in g.sprints
             \/ Space[x.issue] = g.space /\ x.issue \in keys
             \/ /\ Space[x.issue] = g.space /\ sprint[x.issue] = g.sprint /\ g.more
                /\ g.offset + PageSize <= Cardinality(EarlierSeen(x.issue))'
  <2>. DEFINE i == x.issue
  <2>1. /\ i \in Issues /\ Ahead(i) /\ sprint'[i] = sprint[i]
        /\ Cardinality(EarlierSeen(i)) \in Nat /\ Cardinality(EarlierSeen(i))' \in Nat
        /\ Cardinality(EarlierSeen(i)) <= Cardinality(EarlierSeen(i))'
    BY <1>5, <1>7, LastsBefore
  <2>2. \/ Space[i] > g.space
        \/ Space[i] = g.space /\ sprint[i] \in g.sprints
        \/ Space[i] = got.space /\ sprint[i] = got.sprint /\ got.offset <= Cardinality(EarlierSeen(i))
    BY <1>4, <1>5, <2>1 DEF Ahead
  <2>3. ASSUME Space[i] = got.space, sprint[i] = got.sprint,
               got.offset <= Cardinality(EarlierSeen(i))
        PROVE  \/ i \in keys
               \/ more /\ got.offset + PageSize <= Cardinality(EarlierSeen(i))'
    <3>1. Reads(Space[i], sprint[i])
      BY <1>5, <2>3 DEF Reads
    <3>2. Before(i) = Cardinality(EarlierSeen(i))'
      BY <1>7, <2>1, <3>1, EarlierAreThere DEF LInv
    <3>3. Before(i) \in Nat /\ Before(i) < Cardinality(List(Space[i], sprint[i]))
          /\ Cardinality(List(Space[i], sprint[i])) \in Nat
      BY <2>1, BeforeInList
    <3>4. Before(i) >= got.offset
      BY <1>3, <2>1, <2>3, <3>2
    <3>5. CASE Before(i) < got.offset + PageSize
      BY <1>0, <2>1, <2>3, <3>4, <3>5 DEF Page, List
    <3>6. CASE Before(i) >= got.offset + PageSize
      <4>1. got.offset + PageSize < Cardinality(List(got.space, got.sprint))
        BY <1>3, <2>3, <3>3, <3>6
      <4>. QED
        BY <1>1, <3>2, <3>6, <4>1 DEF HasNextPage
    <3>. QED
      BY <1>3, <3>3, <3>5, <3>6
  <2>. QED
    BY <1>4, <2>2, <2>3
<1>8. CASE pc' # "idle" /\ g.keys = {} /\ TurnPage(g, batch)
  BY <1>3, <1>4, <1>5, <1>7, <1>8, PageLasting
<1>9. CASE g.keys # {} /\ got' = g /\ pc' = "issue" /\ batch' = batch
  <2>1. sprint' = sprint /\ firstSync' = firstSync
    BY <1>5 DEF jira, sync
  <2>2. ASSUME NEW x \in seen'.always, ~firstSync, Stayed(x.issue)', x \notin batch,
               ~Shifted(x.issue)'
        PROVE  Ahead(x.issue)'
    <3>1. PICK e \in Nat : e = Cardinality(EarlierSeen(x.issue))'
      BY <1>5, <1>9, <2>2, LastsBefore
    <3>2. \/ Space[x.issue] > g.space
          \/ Space[x.issue] = g.space /\ sprint[x.issue] \in g.sprints
          \/ Space[x.issue] = g.space /\ x.issue \in keys
          \/ /\ Space[x.issue] = g.space /\ sprint[x.issue] = g.sprint /\ g.more
             /\ g.offset + PageSize <= e
      BY <1>7, <1>9, <2>2, <3>1
    <3>. QED
      BY <1>4, <1>9, <2>1, <3>1, <3>2 DEF Ahead
  <2>3. pc' # "idle" /\ pc' # "search"
    BY <1>9
  <2>. QED
    BY <1>9, <2>1, <2>2, <2>3 DEF Lasting, Coming
<1>. QED
  BY <1>5, <1>6, <1>8, <1>9

\* An issue on the page that is read is gathered.
LEMMA GetIssueLasting ==
    ASSUME LInv, Observe, GetIssue
    PROVE  Lasting'
<1>1. /\ got \in Got /\ seen' \in Seen /\ WorldType /\ got.offset \in Nat /\ PageSize \in Nat
      /\ pc = "issue" /\ got.keys # {} /\ got.keys \in SUBSET Issues
      /\ UNCHANGED <<jira, stored, sync>>
  BY Observed, Numbers DEF LInv, IInv, CycleType, Got, GetIssue
<1>2. PICK j \in Issues : j = Min(got.keys) /\ j \in got.keys
  <2>1. got.keys \in SUBSET Nat
    BY <1>1, Numbers
  <2>. QED
    BY <1>1, <2>1, FirstExists
<1>. DEFINE gathered == batch \union [issue : {j}, type : ProcessIssue(j)]
<1>. HIDE DEF gathered
<1>3. PICK keys \in SUBSET Issues : keys = got.keys \ {j}
  BY <1>1
<1>4. PICK g : g = [got EXCEPT !.keys = keys]
  OBVIOUS
<1>5. /\ g \in Got /\ g.space = got.space /\ g.sprints = got.sprints /\ g.sprint = got.sprint
      /\ g.keys = keys /\ g.offset = got.offset /\ g.more = got.more
  BY <1>1, <1>4 DEF Got
<1>6. \/ g.keys # {} /\ got' = g /\ pc' = pc /\ batch' = gathered
      \/ g.keys = {} /\ TurnPage(g, gathered)
  BY <1>2, <1>3, <1>4 DEF GetIssue, gathered
<1>7. CASE pc' = "idle"
  BY <1>7, IdleLasting
<1>8. ASSUME pc' # "idle", NEW x \in seen'.always, ~firstSync, Stayed(x.issue)',
             x \notin gathered, ~Shifted(x.issue)'
      PROVE  \/ Space[x.issue] > g.space
             \/ Space[x.issue] = g.space /\ sprint[x.issue] \in g.sprints
             \/ Space[x.issue] = g.space /\ x.issue \in keys
             \/ /\ Space[x.issue] = g.space /\ sprint[x.issue] = g.sprint /\ g.more
                /\ g.offset + PageSize <= Cardinality(EarlierSeen(x.issue))'
  <2>1. x \in [issue : {x.issue}, type : ProcessIssue(x.issue)]
    BY <1>1, <1>8, LastsBefore, IsProcessed
  <2>2. x.issue # j /\ x \notin batch
    BY <1>8, <2>1 DEF gathered
  <2>3. /\ Ahead(x.issue)
        /\ Cardinality(EarlierSeen(x.issue)) \in Nat
        /\ Cardinality(EarlierSeen(x.issue))' \in Nat
        /\ Cardinality(EarlierSeen(x.issue)) <= Cardinality(EarlierSeen(x.issue))'
    BY <1>1, <1>8, <2>2, LastsBefore
  <2>4. x.issue \in got.keys => x.issue \in keys
    BY <1>3, <2>2
  <2>5. got.offset + PageSize <= Cardinality(EarlierSeen(x.issue))
        => got.offset + PageSize <= Cardinality(EarlierSeen(x.issue))'
    <3>1. PICK e \in Nat : e = Cardinality(EarlierSeen(x.issue))
      BY <2>3
    <3>2. PICK f \in Nat : f = Cardinality(EarlierSeen(x.issue))'
      BY <2>3
    <3>3. e <= f
      BY <2>3, <3>1, <3>2
    <3>4. got.offset + PageSize <= e => got.offset + PageSize <= f
      BY <1>1, <3>3
    <3>. QED
      BY <3>1, <3>2, <3>4
  <2>. QED
    BY <1>1, <1>5, <2>3, <2>4, <2>5 DEF Ahead
<1>9. CASE pc' # "idle" /\ g.keys = {} /\ TurnPage(g, gathered)
  BY <1>1, <1>5, <1>8, <1>9, PageLasting
<1>10. CASE g.keys # {} /\ got' = g /\ pc' = pc /\ batch' = gathered
  <2>1. sprint' = sprint /\ firstSync' = firstSync
    BY <1>1 DEF jira, sync
  <2>2. ASSUME NEW x \in seen'.always, ~firstSync, Stayed(x.issue)', x \notin gathered,
               ~Shifted(x.issue)'
        PROVE  Ahead(x.issue)'
    <3>1. PICK e \in Nat : e = Cardinality(EarlierSeen(x.issue))'
      BY <1>1, <1>10, <2>2, LastsBefore
    <3>2. \/ Space[x.issue] > g.space
          \/ Space[x.issue] = g.space /\ sprint[x.issue] \in g.sprints
          \/ Space[x.issue] = g.space /\ x.issue \in keys
          \/ /\ Space[x.issue] = g.space /\ sprint[x.issue] = g.sprint /\ g.more
             /\ g.offset + PageSize <= e
      BY <1>1, <1>8, <1>10, <2>2, <3>1
    <3>. QED
      BY <1>1, <1>5, <1>10, <2>1, <3>1, <3>2 DEF Ahead
  <2>3. pc' # "idle" /\ pc' # "search"
    BY <1>1, <1>10
  <2>. QED
    BY <1>10, <2>1, <2>2, <2>3 DEF Lasting, Coming
<1>. QED
  BY <1>6, <1>7, <1>9, <1>10

\* A page of the search: what lasts is gathered from it, or on a later one,
\* unless one before it left the search since the first page.
LEMMA SearchLasting ==
    ASSUME LInv, Observe, SearchIssues
    PROVE  Lasting'
<1>1. /\ got \in Got /\ seen' \in Seen /\ WorldType /\ got.offset \in Nat /\ PageSize \in Nat
      /\ got.space \in 1..Spaces /\ pc = "search" /\ got.sprint = 1
      /\ boardType[got.space] = "kanban" /\ UNCHANGED <<jira, stored, sync>>
  BY Observed, Numbers DEF LInv, IInv, CycleType, Got, Reading, Lasting, SearchIssues
<1>2. PICK found \in SUBSET Issues : found = Page(got.space, 1, got.offset)
  BY DEF Page, List
<1>. DEFINE gathered == batch \union UNION {[issue : {i}, type : ProcessIssue(i)] : i \in found}
<1>3. \/ /\ HasNextPage(got.space, 1, got.offset)
         /\ got' = [got EXCEPT !.offset = @ + PageSize] /\ pc' = pc /\ batch' = gathered
      \/ ~HasNextPage(got.space, 1, got.offset) /\ StartSpace(got.space + 1, gathered)
  BY <1>2 DEF SearchIssues
<1>4. CASE pc' = "idle"
  BY <1>4, IdleLasting
<1>5. ASSUME pc' # "idle", NEW x \in seen'.always, ~firstSync, Stayed(x.issue)',
             x \notin gathered, ~Shifted(x.issue)'
      PROVE  \/ Space[x.issue] > got.space
             \/ /\ Space[x.issue] = got.space /\ HasNextPage(got.space, 1, got.offset)
                /\ got.offset + PageSize <= Cardinality(EarlierSeen(x.issue))'
  <2>. DEFINE i == x.issue
  <2>1. x \notin batch
    BY <1>5
  <2>2. /\ i \in Issues /\ Ahead(i) /\ sprint'[i] = sprint[i] /\ Live(Space[i], sprint[i])
        /\ Cardinality(EarlierSeen(i)) \in Nat /\ Cardinality(EarlierSeen(i))' \in Nat
        /\ Cardinality(EarlierSeen(i)) <= Cardinality(EarlierSeen(i))'
        /\ x \in [issue : {i}, type : ProcessIssue(i)]
    BY <1>1, <1>5, <2>1, LastsBefore, IsProcessed
  <2>3. i \notin found
    BY <1>5, <2>2
  <2>. HIDE DEF gathered
  <2>4. \/ Space[i] > got.space
        \/ Space[i] = got.space /\ got.offset <= Cardinality(EarlierSeen(i))
    BY <1>1, <2>2 DEF Ahead
  <2>5. ASSUME Space[i] = got.space, got.offset <= Cardinality(EarlierSeen(i))
        PROVE  /\ HasNextPage(got.space, 1, got.offset)
               /\ got.offset + PageSize <= Cardinality(EarlierSeen(i))'
    <3>1. sprint[i] = 1
      BY <1>1, <2>2, <2>5 DEF Live
    <3>2. Reads(Space[i], sprint[i])
      BY <1>1, <2>5, <3>1 DEF Reads
    <3>3. Before(i) = Cardinality(EarlierSeen(i))'
      BY <1>5, <2>2, <3>2, EarlierAreThere DEF LInv
    <3>4. Before(i) \in Nat /\ Before(i) < Cardinality(List(Space[i], sprint[i]))
          /\ Cardinality(List(Space[i], sprint[i])) \in Nat
      BY <2>2, BeforeInList
    <3>5. Before(i) >= got.offset
      BY <1>1, <2>2, <2>5, <3>3
    <3>6. Before(i) >= got.offset + PageSize
      <4>1. Before(i) < got.offset + PageSize => i \in found
        BY <1>2, <2>2, <2>5, <3>1, <3>5 DEF Page, List
      <4>. QED
        BY <1>1, <2>3, <3>4, <4>1
    <3>7. got.offset + PageSize < Cardinality(List(got.space, 1))
      BY <1>1, <2>5, <3>1, <3>4, <3>6
    <3>. QED
      BY <3>3, <3>6, <3>7 DEF HasNextPage
  <2>. QED
    BY <2>4, <2>5
<1>. HIDE DEF gathered
<1>6. CASE pc' # "idle" /\ ~HasNextPage(got.space, 1, got.offset)
           /\ StartSpace(got.space + 1, gathered)
  <2>1. got.space + 1 \in Nat \ {0}
    BY <1>1, Numbers
  <2>2. ASSUME NEW x \in seen'.always, ~firstSync, Stayed(x.issue)', x \notin gathered,
               ~Shifted(x.issue)'
        PROVE  Space[x.issue] >= got.space + 1
    <3>1. Space[x.issue] > got.space
      BY <1>5, <1>6, <2>2
    <3>2. Space[x.issue] \in 1..Spaces
      BY <1>1, <1>6, <2>2, LastsBefore
    <3>. QED
      BY <1>1, <3>1, <3>2
  <2>. QED
    BY <1>1, <1>6, <2>1, <2>2, SpaceLasting
<1>7. CASE /\ HasNextPage(got.space, 1, got.offset)
           /\ got' = [got EXCEPT !.offset = @ + PageSize] /\ pc' = pc /\ batch' = gathered
  <2>1. PICK offset \in Nat : offset = got.offset + PageSize
    BY <1>1
  <2>2. got' = [got EXCEPT !.offset = offset]
    BY <1>7, <2>1
  <2>3. got'.space = got.space /\ got'.offset = offset /\ got'.sprint = 1
    BY <1>1, <2>2 DEF Got
  <2>4. firstSync' = firstSync /\ pc' = "search"
    BY <1>1, <1>7 DEF sync
  <2>5. ASSUME NEW x \in seen'.always, ~firstSync, Stayed(x.issue)', x \notin gathered,
               ~Shifted(x.issue)'
        PROVE  Ahead(x.issue)'
    BY <1>5, <2>1, <2>3, <2>4, <2>5 DEF Ahead
  <2>. QED
    BY <1>7, <2>3, <2>4, <2>5 DEF Lasting, Coming
<1>. QED
  BY <1>3, <1>4, <1>6, <1>7

\* LInv holds always.
LEMMA LInvHolds == Spec => []LInv
<1>1. Init => Lasting
  BY DEF Init, Lasting, Coming
<1>2. LInv /\ [Next]_vars => Lasting'
  <2>. SUFFICES ASSUME LInv, [Next]_vars PROVE Lasting'
    OBVIOUS
  <2>1. CASE UNCHANGED vars
    BY <2>1 DEF vars, jira, stored, sync, LInv, Lasting, Coming, Ahead, Stayed, Shifted, EarlierSeen
  <2>2. CASE JiraChanges /\ Observe
    <3>1. CASE pc = "idle"
      <4>1. pc' = pc
        BY <2>2 DEF JiraChanges, MoveIssue, ToggleSprint, Assign, Comment, Change
      <4>. QED
        BY <3>1, <4>1, IdleLasting
    <3>. QED
      BY <2>2, <3>1, WorldLasting
  <2>3. CASE Relaunch \/ Upsert \/ Fails
    BY <2>3, IdleLasting DEF Relaunch, Upsert, Fails, Return
  <2>. QED
    BY <2>1, <2>2, <2>3, BeginLasting, ListSprintsLasting, SprintIssuesLasting, GetIssueLasting,
       SearchLasting DEF Next, Sync
<1>. QED
  BY <1>1, <1>2, IInvHolds, PTL DEF Spec, LInv

\* A Fetch that gets to its end after the first sync has an item for every
\* condition that held throughout, on an issue that stayed in a live list,
\* unless one before it left that list between two pages (ReportsWhatLasts):
\* for any number of spaces, sprints, pages and issues.
THEOREM ReportsLast == Spec => []ReportsWhatLasts
<1>1. LInv => ReportsWhatLasts
  BY DEF LInv, Lasting, Coming, Ahead, ReportsWhatLasts
<1>. QED
  BY <1>1, LInvHolds, PTL

=============================================================================
