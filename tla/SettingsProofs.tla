--------------------------- MODULE SettingsProofs ---------------------------
(***************************************************************************)
(* Proofs about Settings.  Inv says of every request what its handler      *)
(* holds at the statement it has come to, and of the tables what every     *)
(* handler keeps true of them.  On it rest two more invariants about the   *)
(* history: AloneOK, of requests nobody has interfered with, and           *)
(* ReloadOK, of a Reload that runs alone.                                  *)
(***************************************************************************)
EXTENDS Settings, FiniteSetTheorems, TLAPS

Row == [provider : Providers, token : Tokens \union {""}]
Page == [open : BOOLEAN, rows : [Ids -> {NoRow} \union Row],
         lists : [Lists -> [Ids -> SUBSET Entry]], settings : [Keys -> Nat]]
Fetcher == [teammates : SUBSET Names, min : Nat]
Pcs == {"idle", "get", "update", "create", "spaces", "delete", "insert", "set"} \union InReload
FormNames == Lists \union {"integration", "general", "weights", "sync", ""}
ValueMaps == UNION {[keys -> Nat] : keys \in SUBSET Keys}
Request == [pc : Pcs, form : FormNames,
            id : Ids, provider : Providers \union {""}, token : Tokens \union {""},
            typed : BOOLEAN, entries : SUBSET Entry, twice : BOOLEAN,
            values : ValueMaps, left : SUBSET Keys,
            failed : BOOLEAN, ids : SUBSET Ids, teammates : SUBSET Names, min : Nat]

Types ==
    /\ rows \in [Ids -> {NoRow} \union Row]
    /\ lists \in [Lists -> [Ids -> SUBSET Entry]]
    /\ settings \in [Keys -> Nat]
    /\ writer \in Tabs \union {NoTab} /\ work \subseteq Entry
    /\ page \in [Tabs -> Page]
    /\ req \in [Tabs -> Request]
    /\ fetcher \in Fetcher

\* A list of kind k names nobody twice, only spaces have boards, and
\* teammates have names.
ListOK(k, entries) ==
    /\ \A e, f \in entries : e.name = f.name => e = f
    /\ k # "spaces" => \A e \in entries : e.board = ""
    /\ k = "teammates" => \A e \in entries : e.name \in Names

\* What a request holds at each statement.
Shape(r) ==
    /\ r.pc = "idle" => r = NoRequest
    /\ r.pc \in {"get", "update", "create"} => r.form = "integration" /\ r.provider \in Providers
    /\ r.pc = "create" => r.typed
    /\ r.pc = "spaces" => r.form = "spaces"
    /\ r.pc \in {"spaces", "delete", "insert"} => r.form \in Lists /\ ListOK(r.form, r.entries)
    /\ r.pc = "set" => /\ r.left \subseteq DOMAIN r.values
                       /\ \/ r.form = "general" /\ DOMAIN r.values \subseteq GeneralKeys
                          \/ r.form = "weights" /\ DOMAIN r.values \subseteq WeightKeys
    /\ r.pc \in {"get", "update", "create", "refresh"} => r.teammates = {}
    /\ r.pc \in {"pushTeammates", "pushMin"} => r.ids = {} /\ r.min >= 1

\* What a request holds when it is sent.
Fresh(r) ==
    /\ r.pc = "update" => r.typed
    /\ r.pc = "delete" => r.form # "spaces"
    /\ r.pc = "set" => r.left = DOMAIN r.values
    /\ r.pc \notin {"insert", "teammates", "pushTeammates", "pushMin"}

\* The row a request is about is there, with the provider it was posted for.
AboutRow(r) ==
    /\ r.pc \in {"get", "update", "spaces", "delete", "insert"} => rows[r.id] # NoRow
    /\ r.pc \in {"get", "update"} => rows[r.id].provider = r.provider

\* A page shows integrations there are.
PageOK(p) == \A i \in Ids : p.rows[i] # NoRow => rows[i] # NoRow /\ rows[i].provider = p.rows[i].provider

OneEach == \A i, j \in Ids : rows[i] # NoRow /\ rows[j] # NoRow /\ i # j => rows[i].provider # rows[j].provider

ListsOK == \A k \in Lists, i \in Ids : ListOK(k, lists[k][i]) /\ (rows[i] = NoRow => lists[k][i] = {})

Inv ==
    /\ Types /\ OneEach /\ ListsOK
    /\ \A t \in Tabs : /\ Shape(req[t]) /\ AboutRow(req[t]) /\ PageOK(page[t])
                       /\ writer = t <=> req[t].pc = "insert"

-----------------------------------------------------------------------------
(* Values                                                                  *)

\* Between requests a tab has an empty request, which is of the right type.
LEMMA NoRequestOK ==
    NoRequest \in Request /\ Shape(NoRequest) /\ AboutRow(NoRequest)
<1>. /\ NoRequest.pc = "idle"
  BY DEF NoRequest
<1>1. 1 \in Ids /\ [k \in {} |-> 0] \in [{} -> Nat]
  BY SettingsAssumption
<1>2. NoRequest.values \in ValueMaps
  BY <1>1 DEF NoRequest, ValueMaps
<1>3. NoRequest \in Request
  BY <1>1, <1>2 DEF NoRequest, Request, Pcs, FormNames
<1>. QED
  BY <1>3 DEF Shape, AboutRow

\* It waits for nothing and is of no form.
LEMMA IdleRequest == NoRequest.pc = "idle" /\ NoRequest.form = ""
BY DEF NoRequest

\* A tab that has sent a form shows no integration.
LEMMA NoPageOK == NoPage \in Page /\ PageOK(NoPage)
<1>1. NoRow \in {NoRow} \union Row
  OBVIOUS
<1>2. NoPage \in Page
  BY <1>1 DEF NoPage, Page
<1>. QED
  BY <1>2 DEF NoPage, PageOK

\* A row that is there is none of the empty ones.
LEMMA RowIsNotNoRow ==
    ASSUME NEW r \in Row
    PROVE  r # NoRow
<1>. r.provider \in Providers /\ NoRow.provider = ""
  BY DEF Row, NoRow
<1>. QED
  BY SettingsAssumption

\* Clamped values are numbers.
LEMMA Clamped ==
    ASSUME NEW k \in Keys, NEW n \in Nat
    PROVE  Clamp(k, n) \in Nat
BY SettingsAssumption DEF Clamp

-----------------------------------------------------------------------------
(* Steps that change only the request of one tab                           *)

\* A step after which the request of t is r, with the tables as they were.
LEMMA RequestStep ==
    ASSUME Inv, NEW t \in Tabs, NEW r \in Request, Shape(r), AboutRow(r),
           req' = [req EXCEPT ![t] = r],
           r.pc = "insert" <=> req[t].pc = "insert",
           page' = page \/ page' = [page EXCEPT ![t] = NoPage],
           fetcher' \in Fetcher, UNCHANGED <<db, writer, work>>
    PROVE  Inv'
<1>. USE DEF Inv
<1>1. Types'
  BY NoPageOK DEF Types, db
<1>2. OneEach' /\ ListsOK'
  BY DEF db, OneEach, ListsOK, ListOK
<1>3. ASSUME NEW u \in Tabs
      PROVE  Shape(req[u])' /\ AboutRow(req[u])' /\ (writer = u <=> req[u].pc = "insert")'
  <2>1. req'[u] = IF u = t THEN r ELSE req[u]
    BY DEF Types
  <2>2. Shape(req'[u])
    BY <2>1
  <2>3. AboutRow(req[u])'
    BY <2>1 DEF db, AboutRow
  <2>4. (writer = u <=> req[u].pc = "insert")'
    BY <2>1
  <2>. QED
    BY <2>2, <2>3, <2>4 DEF Shape
<1>4. ASSUME NEW u \in Tabs
      PROVE  PageOK(page[u])'
  <2>1. page'[u] \in {page[u], NoPage}
    BY DEF Types
  <2>. QED
    BY <2>1, NoPageOK DEF PageOK, db
<1>. QED
  BY <1>1, <1>2, <1>3, <1>4

\* A form is sent with the request its handler starts from.
LEMMA SendStep ==
    ASSUME Inv, NEW t \in Tabs, NEW form, NEW r, Send(t, form, r),
           [r EXCEPT !.form = form] \in Request, Shape([r EXCEPT !.form = form]),
           AboutRow([r EXCEPT !.form = form]), Fresh([r EXCEPT !.form = form])
    PROVE  Inv' /\ Fresh(req'[t])
<1>1. req[t].pc = "idle" /\ [r EXCEPT !.form = form].pc # "insert"
  BY DEF Send, Fresh
<1>2. fetcher \in Fetcher
  BY DEF Inv, Types
<1>3. Inv'
  BY <1>1, <1>2, RequestStep DEF Send, db
<1>4. req'[t] = [r EXCEPT !.form = form]
  BY DEF Send, Goto, Inv, Types
<1>. QED
  BY <1>3, <1>4

\* A row a page shows.
LEMMA ShownRow ==
    ASSUME Inv, NEW t \in Tabs, NEW i \in Ids, page[t].rows[i] # NoRow
    PROVE  /\ page[t].rows[i] \in Row
           /\ rows[i] # NoRow /\ rows[i].provider = page[t].rows[i].provider
BY DEF Inv, Types, Page, PageOK

\* The names a page shows in a list.
LEMMA ShownNames ==
    ASSUME Inv, NEW t \in Tabs, NEW k \in Lists, NEW i \in Ids
    PROVE  NamesOf(page[t].lists[k][i]) \subseteq Names \union {Blank}
<1>1. page[t].lists[k][i] \subseteq Entry
  BY DEF Inv, Types, Page
<1>. QED
  BY <1>1 DEF NamesOf, Entry

\* The forms of an integration.
LEMMA IntegrationForms ==
    ASSUME Inv, NEW t \in Tabs, UpdateForm(t) \/ CreateForm(t)
    PROVE  Inv' /\ Fresh(req'[t])
<1>1. CASE UpdateForm(t)
  <2>1. PICK i \in Ids, token \in Tokens \union {""} :
            /\ page[t].rows[i] # NoRow
            /\ Send(t, "integration", SaveIntegration(i, page[t].rows[i].provider, token, FALSE))
    BY <1>1 DEF UpdateForm
  <2>2. /\ page[t].rows[i].provider \in Providers
        /\ rows[i] # NoRow /\ rows[i].provider = page[t].rows[i].provider
    BY <2>1, ShownRow DEF Row
  <2>3. PICK p \in Providers : p = page[t].rows[i].provider
    BY <2>2
  <2>. DEFINE r == [SaveIntegration(i, p, token, FALSE) EXCEPT !.form = "integration"]
  <2>4. r = [[NoRequest EXCEPT !.pc = IF FALSE THEN "create" ELSE IF token = "" THEN "get" ELSE "update",
                               !.id = i, !.provider = p, !.token = token,
                               !.typed = FALSE \/ token # ""] EXCEPT !.form = "integration"]
    BY DEF SaveIntegration
  <2>. HIDE DEF r
  <2>5. r \in Request
    <3>1. "get" \in Pcs /\ "update" \in Pcs /\ "integration" \in FormNames
      BY DEF Pcs, FormNames
    <3>. QED
      BY <2>4, <3>1, NoRequestOK DEF Request
  <2>6. /\ r.pc \in {"get", "update"} /\ r.form = "integration" /\ r.id = i /\ r.provider = p
        /\ r.teammates = {} /\ (r.pc = "update" => r.typed)
    BY <2>4 DEF NoRequest
  <2>7. Shape(r) /\ AboutRow(r) /\ Fresh(r)
    BY <2>2, <2>3, <2>6 DEF Shape, AboutRow, Fresh
  <2>8. Send(t, "integration", SaveIntegration(i, p, token, FALSE))
    BY <2>1, <2>3
  <2>. QED
    BY <2>5, <2>6, <2>7, <2>8, SendStep DEF r
<1>2. CASE CreateForm(t)
  <2>1. PICK p \in Providers, token \in Tokens \union {""} :
            Send(t, "integration", SaveIntegration(1, p, token, TRUE))
    BY <1>2 DEF CreateForm
  <2>. DEFINE r == [SaveIntegration(1, p, token, TRUE) EXCEPT !.form = "integration"]
  <2>2. r = [NoRequest EXCEPT !.pc = "create", !.form = "integration",
                              !.id = 1, !.provider = p, !.token = token, !.typed = TRUE]
    BY DEF SaveIntegration, NoRequest
  <2>. HIDE DEF r
  <2>3. r \in Request
    <3>1. "create" \in Pcs /\ "integration" \in FormNames /\ 1 \in Ids
      BY SettingsAssumption DEF Pcs, FormNames
    <3>. QED
      BY <2>2, <3>1, NoRequestOK DEF Request
  <2>4. r.pc = "create" /\ r.form = "integration" /\ r.provider = p /\ r.typed /\ r.teammates = {}
    BY <2>2 DEF NoRequest
  <2>5. Shape(r) /\ AboutRow(r) /\ Fresh(r)
    BY <2>4 DEF Shape, AboutRow, Fresh
  <2>. QED
    BY <2>1, <2>3, <2>4, <2>5, SendStep DEF r
<1>. QED
  BY <1>1, <1>2

\* What a form of a list posts has one entry for each name, without boards.
LEMMA EntriesOK ==
    ASSUME NEW k \in Lists, NEW names \in SUBSET (Names \union {Blank}),
           k = "teammates" => Blank \notin names
    PROVE  Entries(names) \in SUBSET Entry /\ ListOK(k, Entries(names))
<1>1. \A n \in names : [name |-> n, board |-> ""] \in Entry
  BY SettingsAssumption DEF Entry
<1>2. \A e \in Entries(names) : \E n \in names : e = [name |-> n, board |-> ""]
  BY DEF Entries
<1>3. ASSUME NEW e \in Entries(names)
      PROVE  e \in Entry /\ e.board = "" /\ e.name \in names
  <2>1. PICK n \in names : e = [name |-> n, board |-> ""]
    BY <1>2
  <2>. QED
    BY <1>1, <2>1
<1>4. ASSUME NEW e \in Entries(names), NEW f \in Entries(names), e.name = f.name
      PROVE  e = f
  <2>1. PICK n \in names : e = [name |-> n, board |-> ""]
    BY <1>2
  <2>2. PICK m \in names : f = [name |-> m, board |-> ""]
    BY <1>2
  <2>3. n = m
    BY <1>4, <2>1, <2>2
  <2>. QED
    BY <2>1, <2>2, <2>3
<1>5. k = "teammates" => \A e \in Entries(names) : e.name \in Names
  BY <1>3
<1>. QED
  BY <1>3, <1>4, <1>5 DEF ListOK

\* The fields of a list that a user has edited.
LEMMA FieldOK ==
    ASSUME NEW shown \in SUBSET (Names \union {Blank}), NEW removed,
           NEW added \in Names \union {Blank}
    PROVE  Field(shown, removed, added) \in SUBSET (Names \union {Blank})
BY DEF Field

\* A request of a list form before the first statement.
LEMMA ListRequest ==
    ASSUME Inv, NEW t \in Tabs, NEW k \in Lists, NEW i \in Ids, rows[i] # NoRow,
           NEW names \in SUBSET (Names \union {Blank}), k = "teammates" => Blank \notin names,
           NEW twice \in BOOLEAN, NEW r,
           r = [NoRequest EXCEPT !.pc = IF k = "spaces" THEN "spaces" ELSE "delete", !.id = i,
                                 !.entries = Entries(names), !.twice = twice],
           Send(t, k, r)
    PROVE  Inv' /\ Fresh(req'[t])
<1>. DEFINE q == [r EXCEPT !.form = k]
<1>1. q = [NoRequest EXCEPT !.pc = IF k = "spaces" THEN "spaces" ELSE "delete", !.id = i,
                            !.form = k, !.entries = Entries(names), !.twice = twice]
  BY DEF NoRequest
<1>. HIDE DEF q
<1>2. q \in Request
  <2>1. "spaces" \in Pcs /\ "delete" \in Pcs /\ k \in FormNames
    BY DEF Pcs, FormNames
  <2>2. Entries(names) \in SUBSET Entry
    BY EntriesOK
  <2>. QED
    BY <1>1, <2>1, <2>2, NoRequestOK DEF Request
<1>3. /\ q.pc = IF k = "spaces" THEN "spaces" ELSE "delete"
      /\ q.id = i /\ q.form = k /\ q.entries = Entries(names)
  BY <1>1 DEF NoRequest
<1>4. Shape(q) /\ AboutRow(q) /\ Fresh(q)
  BY <1>3, EntriesOK DEF Shape, AboutRow, Fresh
<1>. QED
  <2>1. q = [r EXCEPT !.form = k]
    BY DEF q
  <2>. QED
    BY <1>2, <1>4, <2>1, SendStep

\* The forms of the three lists.
LEMMA ListForms ==
    ASSUME Inv, NEW t \in Tabs, SpacesForm(t) \/ TeammatesForm(t) \/ PrerequisitesForm(t)
    PROVE  Inv' /\ Fresh(req'[t])
<1>1. CASE SpacesForm(t)
  <2>0. PICK i \in Ids, added \in Names \union {Blank} :
            \E removed :
               /\ page[t].rows[i] # NoRow
               /\ Send(t, "spaces", SaveSpaces(i, Field(NamesOf(page[t].lists["spaces"][i]), removed, added)))
    BY <1>1 DEF SpacesForm
  <2>1. PICK removed :
            /\ page[t].rows[i] # NoRow
            /\ Send(t, "spaces", SaveSpaces(i, Field(NamesOf(page[t].lists["spaces"][i]), removed, added)))
    BY <2>0
  <2>2. PICK names \in SUBSET (Names \union {Blank}) :
            names = Field(NamesOf(page[t].lists["spaces"][i]), removed, added)
    BY FieldOK, ShownNames DEF Lists
  <2>. DEFINE r == SaveSpaces(i, names)
  <2>3. r = [NoRequest EXCEPT !.pc = IF "spaces" = "spaces" THEN "spaces" ELSE "delete", !.id = i,
                              !.entries = Entries(names), !.twice = FALSE]
    <3>1. r = [NoRequest EXCEPT !.pc = "spaces", !.id = i, !.entries = Entries(names)]
      BY DEF SaveSpaces
    <3>2. r \in [DOMAIN NoRequest -> {r[f] : f \in DOMAIN NoRequest}] /\ r.twice = FALSE
      BY <3>1 DEF NoRequest
    <3>. HIDE DEF r
    <3>3. r = [r EXCEPT !.twice = FALSE]
      BY <3>2
    <3>. QED
      BY <3>1, <3>3
  <2>4. rows[i] # NoRow
    BY <2>1, ShownRow
  <2>5. Send(t, "spaces", r)
    BY <2>1, <2>2
  <2>. HIDE DEF r
  <2>6. "spaces" \in Lists
    BY DEF Lists
  <2>. QED
    BY <2>3, <2>4, <2>5, <2>6, ListRequest
<1>2. ASSUME NEW k \in {"teammates", "prerequisites"}, NEW i \in Ids, NEW removed, NEW twice \in BOOLEAN,
             NEW added \in Names \union {Blank}, page[t].rows[i].provider = "github",
             Send(t, k, SaveTeammates(i, Field(NamesOf(page[t].lists[k][i]), removed, added), twice))
      PROVE  Inv' /\ Fresh(req'[t])
  <2>1. k \in Lists
    BY DEF Lists
  <2>2. PICK names \in SUBSET (Names \union {Blank}) :
            names = Field(NamesOf(page[t].lists[k][i]), removed, added)
    BY <2>1, FieldOK, ShownNames
  <2>. DEFINE r == SaveTeammates(i, names, twice)
  <2>3. r = [NoRequest EXCEPT !.pc = IF k = "spaces" THEN "spaces" ELSE "delete", !.id = i,
                              !.entries = Entries(names \ {Blank}), !.twice = twice]
    <3>1. r = [NoRequest EXCEPT !.pc = "delete", !.id = i, !.entries = Entries(names \ {Blank}),
                                !.twice = twice]
      BY DEF SaveTeammates
    <3>2. (IF k = "spaces" THEN "spaces" ELSE "delete") = "delete"
      OBVIOUS
    <3>. QED
      BY <3>1, <3>2
  <2>4. page[t].rows[i] # NoRow
    <3>1. NoRow.provider = ""
      BY DEF NoRow
    <3>. QED
      BY <1>2, <3>1
  <2>5. rows[i] # NoRow
    BY <2>4, ShownRow
  <2>6. Send(t, k, r)
    BY <1>2, <2>2
  <2>7. names \ {Blank} \in SUBSET (Names \union {Blank}) /\ Blank \notin names \ {Blank}
    OBVIOUS
  <2>. HIDE DEF r
  <2>. QED
    BY <1>2, <2>1, <2>3, <2>5, <2>6, <2>7, ListRequest
<1>3. CASE TeammatesForm(t)
  <2>. DEFINE shown(i) == NamesOf(page[t].lists["teammates"][i])
  <2>0. PICK i \in Ids, added \in Names \union {Blank} :
            \E removed :
               /\ page[t].rows[i].provider = "github"
               /\ Send(t, "teammates", SaveTeammates(i, Field(shown(i), removed, added),
                                                     added \in (shown(i) \ removed) \ {Blank}))
    BY <1>3 DEF TeammatesForm
  <2>1. PICK removed :
            /\ page[t].rows[i].provider = "github"
            /\ Send(t, "teammates", SaveTeammates(i, Field(shown(i), removed, added),
                                                  added \in (shown(i) \ removed) \ {Blank}))
    BY <2>0
  <2>2. (added \in (shown(i) \ removed) \ {Blank}) \in BOOLEAN
    OBVIOUS
  <2>. QED
    BY <1>2, <2>1, <2>2
<1>4. CASE PrerequisitesForm(t)
  <2>. DEFINE shown(i) == NamesOf(page[t].lists["prerequisites"][i])
  <2>0. PICK i \in Ids, added \in Names \union {Blank} :
            \E removed :
               /\ page[t].rows[i].provider = "github"
               /\ Send(t, "prerequisites", SaveTeammates(i, Field(shown(i), removed, added),
                                                     added \in (shown(i) \ removed) \ {Blank}))
    BY <1>4 DEF PrerequisitesForm, SavePrerequisites
  <2>1. PICK removed :
            /\ page[t].rows[i].provider = "github"
            /\ Send(t, "prerequisites", SaveTeammates(i, Field(shown(i), removed, added),
                                                  added \in (shown(i) \ removed) \ {Blank}))
    BY <2>0
  <2>2. (added \in (shown(i) \ removed) \ {Blank}) \in BOOLEAN
    OBVIOUS
  <2>. QED
    BY <1>2, <2>1, <2>2
<1>. QED
  BY <1>1, <1>3, <1>4

\* A section is sent with all its fields, each clamped to its range.
LEMMA KeysRequest ==
    ASSUME Inv, NEW t \in Tabs, NEW form \in {"general", "weights"}, NEW keys,
           keys \subseteq (IF form = "general" THEN GeneralKeys ELSE WeightKeys),
           NEW fields \in [Keys -> Nat], Send(t, form, SaveKeys(fields, keys))
    PROVE  Inv' /\ Fresh(req'[t])
<1>. DEFINE values == [k \in keys |-> Clamp(k, fields[k])]
            q == [SaveKeys(fields, keys) EXCEPT !.form = form]
<1>1. q = [NoRequest EXCEPT !.pc = "set", !.form = form, !.left = keys, !.values = values]
  BY DEF SaveKeys, NoRequest
<1>2. keys \in SUBSET Keys
  BY DEF Keys
<1>3. \A k \in keys : Clamp(k, fields[k]) \in Nat
  BY <1>2, Clamped
<1>4. values \in ValueMaps /\ DOMAIN values = keys
  BY <1>2, <1>3 DEF ValueMaps
<1>. HIDE DEF values, q
<1>5. q \in Request
  <2>1. "set" \in Pcs /\ form \in FormNames
    BY DEF Pcs, FormNames
  <2>. QED
    BY <1>1, <1>2, <1>4, <2>1, NoRequestOK DEF Request
<1>6. q.pc = "set" /\ q.form = form /\ q.left = keys /\ q.values = values
  BY <1>1 DEF NoRequest
<1>7. Shape(q) /\ AboutRow(q) /\ Fresh(q)
  BY <1>4, <1>6 DEF Shape, AboutRow, Fresh
<1>. QED
  <2>1. q = [SaveKeys(fields, keys) EXCEPT !.form = form]
    BY DEF q
  <2>. QED
    BY <1>5, <1>7, <2>1, SendStep

\* The forms of the two sections of keys.
LEMMA KeysForms ==
    ASSUME Inv, NEW t \in Tabs, GeneralForm(t) \/ WeightsForm(t)
    PROVE  Inv' /\ Fresh(req'[t])
<1>1. page[t].settings \in [Keys -> Nat]
  BY DEF Inv, Types, Page
<1>2. CASE GeneralForm(t)
  <2>1. PICK k \in GeneralKeys : \E n \in Inputs[k], emptied \in {{}, {k}} :
            Send(t, "general", SaveGeneral([page[t].settings EXCEPT ![k] = IF emptied = {} THEN n ELSE 0],
                                           emptied))
    BY <1>2 DEF GeneralForm
  <2>2. PICK n \in Inputs[k], emptied \in {{}, {k}} :
            Send(t, "general", SaveGeneral([page[t].settings EXCEPT ![k] = IF emptied = {} THEN n ELSE 0],
                                           emptied))
    BY <2>1
  <2>. DEFINE fields == [page[t].settings EXCEPT ![k] = IF emptied = {} THEN n ELSE 0]
  <2>3. n \in Nat
    BY SettingsAssumption DEF Keys
  <2>4. fields \in [Keys -> Nat]
    BY <1>1, <2>3
  <2>5. Send(t, "general", SaveKeys(fields, GeneralKeys \ (emptied \ {"feed_columns"})))
    BY <2>2 DEF SaveGeneral
  <2>. QED
    BY <2>4, <2>5, KeysRequest
<1>3. CASE WeightsForm(t)
  <2>1. PICK k \in WeightKeys : \E n \in Inputs[k], emptied \in {{}, {k}} :
            Send(t, "weights", SaveWeights([page[t].settings EXCEPT ![k] = n], emptied))
    BY <1>3 DEF WeightsForm
  <2>2. PICK n \in Inputs[k], emptied \in {{}, {k}} :
            Send(t, "weights", SaveWeights([page[t].settings EXCEPT ![k] = n], emptied))
    BY <2>1
  <2>. DEFINE fields == [page[t].settings EXCEPT ![k] = n]
  <2>3. n \in Nat
    BY SettingsAssumption DEF Keys
  <2>4. fields \in [Keys -> Nat]
    BY <1>1, <2>3
  <2>5. Send(t, "weights", SaveKeys(fields, WeightKeys \ emptied))
    BY <2>2 DEF SaveWeights
  <2>. QED
    BY <2>4, <2>5, KeysRequest
<1>. QED
  BY <1>2, <1>3

\* The Sync button.
LEMMA SyncRequest ==
    ASSUME Inv, NEW t \in Tabs, SyncButton(t)
    PROVE  Inv' /\ Fresh(req'[t])
<1>. DEFINE q == [[NoRequest EXCEPT !.pc = "refresh"] EXCEPT !.form = "sync"]
<1>1. q = [NoRequest EXCEPT !.pc = "refresh", !.form = "sync"]
  OBVIOUS
<1>. HIDE DEF q
<1>2. q \in Request
  <2>1. "refresh" \in Pcs /\ "sync" \in FormNames
    BY DEF Pcs, FormNames, InReload
  <2>. QED
    BY <1>1, <2>1, NoRequestOK DEF Request
<1>3. q.pc = "refresh" /\ q.teammates = {}
  BY <1>1 DEF NoRequest
<1>4. Shape(q) /\ AboutRow(q) /\ Fresh(q)
  BY <1>3 DEF Shape, AboutRow, Fresh
<1>. QED
  <2>1. q = [[NoRequest EXCEPT !.pc = "refresh"] EXCEPT !.form = "sync"]
    BY DEF q
  <2>. QED
    BY <1>2, <1>4, <2>1, SendStep DEF SyncButton

\* A page that is loaded shows what there is.
LEMMA PageLoaded ==
    ASSUME Inv, NEW t \in Tabs, LoadPage(t)
    PROVE  Inv'
<1>. DEFINE p == [open |-> TRUE, rows |-> rows, lists |-> lists, settings |-> settings]
<1>1. p \in Page /\ PageOK(p)
  BY DEF Inv, Types, Page, PageOK
<1>2. page' = [page EXCEPT ![t] = p] /\ UNCHANGED <<rows, lists, settings, writer, work, req, fetcher>>
  BY DEF LoadPage, db
<1>. HIDE DEF p
<1>3. Types'
  BY <1>1, <1>2 DEF Inv, Types
<1>4. \A u \in Tabs : PageOK(page[u])'
  <2>1. \A u \in Tabs : page'[u] \in {page[u], p}
    BY <1>2 DEF Inv, Types
  <2>. QED
    BY <1>1, <1>2, <2>1 DEF Inv, PageOK
<1>5. \A u \in Tabs : AboutRow(req[u])' /\ Shape(req[u])' /\ (writer = u <=> req[u].pc = "insert")'
  BY <1>2 DEF Inv, AboutRow
<1>6. OneEach' /\ ListsOK'
  BY <1>2 DEF Inv, OneEach, ListsOK
<1>. QED
  BY <1>3, <1>4, <1>5, <1>6 DEF Inv

-----------------------------------------------------------------------------
(* Handlers                                                                *)

\* The fields of a request are of their types.
LEMMA RequestFields ==
    ASSUME Inv, NEW t \in Tabs
    PROVE  /\ req[t] \in Request /\ req[t].pc \in Pcs /\ req[t].id \in Ids
           /\ req[t].entries \in SUBSET Entry /\ req[t].ids \in SUBSET Ids
           /\ req[t].teammates \in SUBSET Names /\ req[t].left \in SUBSET Keys
           /\ req[t].token \in Tokens \union {""} /\ req[t].min \in Nat
           /\ Shape(req[t]) /\ AboutRow(req[t])
<1>1. req[t] \in Request
  BY DEF Inv, Types
<1>. QED
  BY <1>1 DEF Inv, Request

\* A handler reads and goes on to another statement.
LEMMA GotoStep ==
    ASSUME Inv, NEW t \in Tabs, NEW r \in Request, Shape(r), AboutRow(r), Goto(t, r),
           r.pc # "insert", req[t].pc # "insert",
           fetcher' \in Fetcher, UNCHANGED <<db, writer, work, page>>
    PROVE  Inv'
BY RequestStep DEF Goto

\* A handler that changes no table answers.
LEMMA RespondStep ==
    ASSUME Inv, NEW t \in Tabs, Respond(t), req[t].pc # "insert",
           fetcher' \in Fetcher, UNCHANGED <<db, writer, work, page>>
    PROVE  Inv'
<1>1. NoRequest.pc # "insert"
  BY DEF NoRequest
<1>. QED
  BY <1>1, NoRequestOK, GotoStep DEF Respond

\* A list that is read has names for teammates.
LEMMA TeammatesAreNames ==
    ASSUME Inv, NEW i \in Ids
    PROVE  TeammatesOf(i) \in SUBSET Names
<1>1. "teammates" \in Lists
  BY DEF Lists
<1>2. \A e \in lists["teammates"][i] : e.name \in Names
  BY <1>1 DEF Inv, ListsOK, ListOK
<1>. QED
  BY <1>2 DEF TeammatesOf, NamesOf

\* The minimum review count that is read is at least one.
LEMMA MinIsPositive ==
    ASSUME Inv
    PROVE  MinReviewCount \in Nat /\ MinReviewCount >= 1
<1>1. settings["min_review_count"] \in Nat
  BY SettingsAssumption DEF Inv, Types, Keys
<1>. QED
  BY <1>1 DEF MinReviewCount

\* A save with an empty token field reads the stored token.
LEMMA TokenRead ==
    ASSUME Inv, NEW t \in Tabs, GetIntegration(t)
    PROVE  Inv'
<1>. DEFINE r == [req[t] EXCEPT !.pc = "update", !.token = rows[req[t].id].token]
<1>1. req[t].pc = "get" /\ Goto(t, r)
  BY DEF GetIntegration
<1>2. rows[req[t].id] \in Row
  BY <1>1, RequestFields DEF Inv, Types, AboutRow
<1>3. rows[req[t].id].token \in Tokens \union {""}
  BY <1>2 DEF Row
<1>4. r \in Request
  <2>1. "update" \in Pcs
    BY DEF Pcs
  <2>. QED
    BY <1>3, <2>1, RequestFields DEF Request
<1>5. /\ r.pc = "update" /\ r.form = req[t].form /\ r.provider = req[t].provider
      /\ r.id = req[t].id /\ r.teammates = req[t].teammates
  BY RequestFields DEF Request
<1>. HIDE DEF r
<1>6. Shape(r) /\ AboutRow(r)
  BY <1>1, <1>5, RequestFields DEF Shape, AboutRow
<1>. QED
  <2>1. fetcher' \in Fetcher /\ UNCHANGED <<db, writer, work, page>>
    BY DEF GetIntegration, Inv, Types
  <2>. QED
    BY <1>1, <1>4, <1>5, <1>6, <2>1, GotoStep

\* A space that stays in the form keeps its board; names stay unique.
LEMMA KeptOK ==
    ASSUME NEW entries \in SUBSET Entry, NEW existing \in SUBSET Entry, ListOK("spaces", entries)
    PROVE  /\ Kept(entries, existing) \in SUBSET Entry /\ ListOK("spaces", Kept(entries, existing))
           /\ NamesOf(Kept(entries, existing)) = NamesOf(entries)
           /\ \A f \in Kept(entries, existing) :
                 f.name \in NamesOf(existing) => f \in existing
<1>. DEFINE keep(e) == IF e.name \in NamesOf(existing) THEN CHOOSE x \in existing : x.name = e.name ELSE e
<1>1. ASSUME NEW e \in entries
      PROVE  /\ keep(e) \in Entry /\ keep(e).name = e.name
             /\ e.name \in NamesOf(existing) => keep(e) \in existing
  <2>1. CASE e.name \in NamesOf(existing)
    <3>1. \E x \in existing : x.name = e.name
      BY <2>1 DEF NamesOf
    <3>2. keep(e) \in existing /\ keep(e).name = e.name
      BY <2>1, <3>1
    <3>. QED
      BY <3>2
  <2>2. CASE e.name \notin NamesOf(existing)
    BY <2>2
  <2>. QED
    BY <2>1, <2>2
<1>2. Kept(entries, existing) = {keep(e) : e \in entries}
  BY DEF Kept
<1>. HIDE DEF keep
<1>3. Kept(entries, existing) \in SUBSET Entry
  BY <1>1, <1>2
<1>4. ASSUME NEW f \in Kept(entries, existing), NEW g \in Kept(entries, existing), f.name = g.name
      PROVE  f = g
  <2>1. PICK d \in entries : f = keep(d)
    BY <1>2
  <2>2. PICK e \in entries : g = keep(e)
    BY <1>2
  <2>3. d.name = e.name
    BY <1>1, <1>4, <2>1, <2>2
  <2>4. d = e
    BY <2>3 DEF ListOK
  <2>. QED
    BY <2>1, <2>2, <2>4
<1>5. NamesOf(Kept(entries, existing)) = NamesOf(entries)
  <2>1. NamesOf(Kept(entries, existing)) = {keep(e).name : e \in entries}
    BY <1>2 DEF NamesOf
  <2>. QED
    BY <1>1, <2>1 DEF NamesOf
<1>6. \A f \in Kept(entries, existing) : f.name \in NamesOf(existing) => f \in existing
  BY <1>1, <1>2
<1>. QED
  BY <1>3, <1>4, <1>5, <1>6 DEF ListOK

\* SaveSpaces looks up what it keeps.
LEMMA SpacesRead ==
    ASSUME Inv, NEW t \in Tabs, ListSpaces(t)
    PROVE  Inv'
<1>. DEFINE kept == Kept(req[t].entries, lists["spaces"][req[t].id])
            r == [req[t] EXCEPT !.pc = "delete", !.entries = kept]
<1>1. req[t].pc = "spaces" /\ Goto(t, r)
  BY DEF ListSpaces
<1>2. req[t].form = "spaces" /\ ListOK("spaces", req[t].entries) /\ rows[req[t].id] # NoRow
  BY <1>1, RequestFields DEF Shape, AboutRow
<1>3. lists["spaces"][req[t].id] \in SUBSET Entry
  BY RequestFields DEF Inv, Types, Lists
<1>4. kept \in SUBSET Entry /\ ListOK("spaces", kept)
  BY <1>2, <1>3, RequestFields, KeptOK
<1>. HIDE DEF kept
<1>5. r \in Request
  <2>1. "delete" \in Pcs
    BY DEF Pcs
  <2>. QED
    BY <1>4, <2>1, RequestFields DEF Request
<1>6. r.pc = "delete" /\ r.form = "spaces" /\ r.entries = kept /\ r.id = req[t].id
  BY <1>2, RequestFields DEF Request
<1>. HIDE DEF r
<1>7. Shape(r) /\ AboutRow(r)
  BY <1>2, <1>4, <1>6 DEF Shape, AboutRow, Lists
<1>. QED
  <2>1. fetcher' \in Fetcher /\ UNCHANGED <<db, writer, work, page>>
    BY DEF ListSpaces, Inv, Types
  <2>. QED
    BY <1>1, <1>5, <1>6, <1>7, <2>1, GotoStep

\* refreshFetchers: the list of integrations, then each list of teammates.
LEMMA ListsRead ==
    ASSUME Inv, NEW t \in Tabs, ListIntegrations(t) \/ ListTeammates(t)
    PROVE  Inv'
<1>0. fetcher' \in Fetcher /\ UNCHANGED <<db, writer, work, page>>
  BY DEF ListIntegrations, ListTeammates, Inv, Types
<1>1. "teammates" \in Pcs
  BY DEF Pcs, InReload
<1>2. CASE ListIntegrations(t)
  <2>. DEFINE r == [req[t] EXCEPT !.pc = "teammates", !.ids = Listed]
  <2>1. req[t].pc = "refresh" /\ Goto(t, r)
    BY <1>2 DEF ListIntegrations
  <2>2. Listed \in SUBSET Ids
    BY DEF Listed
  <2>3. r \in Request /\ r.pc = "teammates"
    BY <1>1, <2>2, RequestFields DEF Request
  <2>. HIDE DEF r
  <2>4. Shape(r) /\ AboutRow(r)
    BY <2>3 DEF Shape, AboutRow
  <2>. QED
    BY <1>0, <2>1, <2>3, <2>4, GotoStep
<1>3. CASE ListTeammates(t)
  <2>1. PICK i \in req[t].ids :
            Goto(t, [req[t] EXCEPT !.ids = @ \ {i}, !.teammates = @ \union TeammatesOf(i)])
    BY <1>3 DEF ListTeammates
  <2>. DEFINE r == [req[t] EXCEPT !.ids = @ \ {i}, !.teammates = @ \union TeammatesOf(i)]
  <2>2. req[t].teammates \union TeammatesOf(i) \in SUBSET Names /\ req[t].ids \ {i} \in SUBSET Ids
    BY RequestFields, TeammatesAreNames
  <2>3. req[t].pc = "teammates"
    BY <1>3 DEF ListTeammates
  <2>4. r \in Request /\ r.pc = "teammates"
    BY <2>2, <2>3, RequestFields DEF Request
  <2>5. Goto(t, r)
    BY <2>1
  <2>. HIDE DEF r
  <2>6. Shape(r) /\ AboutRow(r)
    BY <2>4 DEF Shape, AboutRow
  <2>. QED
    BY <1>0, <2>3, <2>4, <2>5, <2>6, GotoStep
<1>. QED
  BY <1>2, <1>3

\* refreshFetchers: the minimum review count, also the default for one that
\* cannot be read.
LEMMA MinRead ==
    ASSUME Inv, NEW t \in Tabs, req[t].pc = "teammates", req[t].ids = {},
           NEW min \in Nat, min >= 1,
           Goto(t, [req[t] EXCEPT !.pc = "pushTeammates", !.min = min]),
           UNCHANGED <<db, writer, work, page, fetcher>>
    PROVE  Inv'
<1>. DEFINE r == [req[t] EXCEPT !.pc = "pushTeammates", !.min = min]
<1>1. "pushTeammates" \in Pcs
  BY DEF Pcs, InReload
<1>2. r \in Request /\ r.pc = "pushTeammates" /\ r.min = min /\ r.ids = {}
  BY <1>1, RequestFields DEF Request
<1>3. Goto(t, r)
  OBVIOUS
<1>. HIDE DEF r
<1>4. Shape(r) /\ AboutRow(r)
  BY <1>2 DEF Shape, AboutRow
<1>5. fetcher' \in Fetcher
  BY DEF Inv, Types
<1>. QED
  BY <1>2, <1>3, <1>4, <1>5, GotoStep

\* refreshFetchers: the two setters.
LEMMA Pushes ==
    ASSUME Inv, NEW t \in Tabs, UpdateTeammates(t) \/ UpdateMinReviewCount(t)
    PROVE  Inv'
<1>1. fetcher \in Fetcher
  BY DEF Inv, Types
<1>2. fetcher' \in Fetcher
  <2>1. /\ req[t].teammates \in SUBSET Names
        /\ req[t].min \in Nat
    BY RequestFields
  <2>2. fetcher' \in {[fetcher EXCEPT !.teammates = req[t].teammates], [fetcher EXCEPT !.min = req[t].min]}
    BY DEF UpdateTeammates, UpdateMinReviewCount
  <2>. QED
    BY <1>1, <2>1, <2>2 DEF Fetcher
<1>3. CASE UpdateTeammates(t)
  <2>. DEFINE r == [req[t] EXCEPT !.pc = "pushMin"]
  <2>1. "pushMin" \in Pcs /\ req[t].pc = "pushTeammates" /\ Goto(t, r)
    BY <1>3 DEF Pcs, InReload, UpdateTeammates
  <2>2. r \in Request /\ r.pc = "pushMin" /\ r.ids = req[t].ids /\ r.min = req[t].min
    BY <2>1, RequestFields DEF Request
  <2>. HIDE DEF r
  <2>3. Shape(r) /\ AboutRow(r)
    BY <2>1, <2>2, RequestFields DEF Shape, AboutRow
  <2>. QED
    BY <1>2, <1>3, <2>1, <2>2, <2>3, GotoStep DEF UpdateTeammates
<1>4. CASE UpdateMinReviewCount(t)
  BY <1>2, <1>4, RespondStep DEF UpdateMinReviewCount
<1>. QED
  BY <1>3, <1>4

\* A step of tab t that may change tables: what the invariant asks of it.
LEMMA TabStep ==
    ASSUME Inv, NEW t \in Tabs, NEW r \in Request, Shape(r), AboutRow(r)',
           req' = [req EXCEPT ![t] = r],
           rows' \in [Ids -> {NoRow} \union Row],
           \A i \in Ids : rows[i] # NoRow => rows'[i] # NoRow /\ rows'[i].provider = rows[i].provider,
           OneEach', lists' \in [Lists -> [Ids -> SUBSET Entry]], ListsOK',
           settings' \in [Keys -> Nat],
           writer' \in Tabs \union {NoTab}, work' \subseteq Entry,
           writer' = t <=> r.pc = "insert",
           \A u \in Tabs \ {t} : writer' = u <=> writer = u,
           UNCHANGED <<page, fetcher>>
    PROVE  Inv'
<1>. USE DEF Inv
<1>1. Types'
  BY DEF Types
<1>2. ASSUME NEW u \in Tabs
      PROVE  Shape(req[u])' /\ AboutRow(req[u])' /\ (writer = u <=> req[u].pc = "insert")'
  <2>1. req'[u] = IF u = t THEN r ELSE req[u]
    BY DEF Types
  <2>2. Shape(req'[u])
    BY <2>1
  <2>3. AboutRow(req[u])'
    <3>1. CASE u = t
      BY <2>1, <3>1 DEF AboutRow
    <3>2. CASE u # t
      <4>1. AboutRow(req[u]) /\ req[u].id \in Ids
        BY RequestFields
      <4>. QED
        BY <2>1, <3>2, <4>1 DEF AboutRow
    <3>. QED
      BY <3>1, <3>2
  <2>4. (writer = u <=> req[u].pc = "insert")'
    BY <2>1
  <2>. QED
    BY <2>2, <2>3, <2>4 DEF Shape
<1>3. ASSUME NEW u \in Tabs
      PROVE  PageOK(page[u])'
  BY DEF PageOK
<1>. QED
  BY <1>1, <1>2, <1>3

\* UpdateIntegration and CreateIntegration write a row of a provider that no
\* other row has.
LEMMA RowWritten ==
    ASSUME Inv, NEW t \in Tabs, UpdateIntegration(t) \/ CreateIntegration(t)
    PROVE  Inv'
<1>. DEFINE row == [provider |-> req[t].provider, token |-> req[t].token]
<1>1. req[t].pc \in {"update", "create"} /\ writer = NoTab
  BY DEF UpdateIntegration, CreateIntegration
<1>2. row \in Row /\ row.provider = req[t].provider
  <2>1. req[t].provider \in Providers
    BY <1>1, RequestFields DEF Shape
  <2>. QED
    BY <2>1, RequestFields DEF Row
<1>. HIDE DEF row
<1>3. PICK i \in Ids : /\ rows' = [rows EXCEPT ![i] = row]
                       /\ Goto(t, [req[t] EXCEPT !.pc = "refresh", !.id = i])
                       /\ rows[i] # NoRow => rows[i].provider = row.provider
                       /\ \A j \in Ids \ {i} : rows[j] # NoRow => rows[j].provider # row.provider
  <2>1. CASE UpdateIntegration(t)
    <3>1. rows[req[t].id] # NoRow /\ rows[req[t].id].provider = row.provider /\ req[t].id \in Ids
      BY <1>2, <2>1, RequestFields DEF AboutRow, UpdateIntegration
    <3>2. [req[t] EXCEPT !.pc = "refresh"] = [req[t] EXCEPT !.pc = "refresh", !.id = req[t].id]
      BY RequestFields DEF Request
    <3>3. \A j \in Ids \ {req[t].id} : rows[j] # NoRow => rows[j].provider # row.provider
      BY <3>1 DEF Inv, OneEach
    <3>. QED
      BY <2>1, <3>1, <3>2, <3>3 DEF UpdateIntegration, row
  <2>2. CASE CreateIntegration(t)
    <3>1. \A j \in Ids : rows[j] # NoRow => rows[j].provider # row.provider
      BY <1>2, <2>2 DEF CreateIntegration, Listed
    <3>2. PICK i \in Ids \ Listed : /\ rows' = [rows EXCEPT ![i] = row]
                                    /\ Goto(t, [req[t] EXCEPT !.pc = "refresh", !.id = i])
      BY <2>2 DEF CreateIntegration, row
    <3>3. rows[i] = NoRow
      BY <3>2 DEF Listed
    <3>. QED
      BY <3>1, <3>2, <3>3
  <2>. QED
    BY <2>1, <2>2
<1>0. PICK r : r = [req[t] EXCEPT !.pc = "refresh", !.id = i]
  OBVIOUS
<1>4. r \in Request /\ r.pc = "refresh" /\ r.teammates = req[t].teammates
  <2>1. "refresh" \in Pcs
    BY DEF Pcs, InReload
  <2>. QED
    BY <1>0, <2>1, RequestFields DEF Request
<1>5. req' = [req EXCEPT ![t] = r]
  BY <1>0, <1>3 DEF Goto
<1>6. UNCHANGED <<lists, settings, writer, work, page, fetcher>>
  BY DEF UpdateIntegration, CreateIntegration
<1>7. /\ rows' \in [Ids -> {NoRow} \union Row]
      /\ \A j \in Ids : rows'[j] = IF j = i THEN row ELSE rows[j]
  BY <1>2, <1>3 DEF Inv, Types
<1>8. row # NoRow
  BY <1>2, RowIsNotNoRow
<1>9. \A j \in Ids : rows[j] # NoRow => rows'[j] # NoRow /\ rows'[j].provider = rows[j].provider
  BY <1>3, <1>7, <1>8
<1>10. OneEach'
  <2>1. ASSUME NEW j \in Ids, NEW k \in Ids, rows'[j] # NoRow, rows'[k] # NoRow, j # k
        PROVE  rows'[j].provider # rows'[k].provider
    BY <1>3, <1>7, <2>1 DEF Inv, OneEach
  <2>. QED
    BY <2>1 DEF OneEach
<1>11. ListsOK'
  BY <1>6, <1>7, <1>8 DEF Inv, ListsOK
<1>12. Shape(r) /\ AboutRow(r)'
  <2>1. req[t].teammates = {}
    BY <1>1, RequestFields DEF Shape
  <2>. QED
    BY <1>4, <2>1 DEF Shape, AboutRow
<1>13. \A u \in Tabs : writer # u
  BY <1>1, SettingsAssumption
<1>14. /\ lists' \in [Lists -> [Ids -> SUBSET Entry]] /\ settings' \in [Keys -> Nat]
       /\ writer' \in Tabs \union {NoTab} /\ work' \subseteq Entry
  BY <1>6 DEF Inv, Types
<1>15. writer' = t <=> r.pc = "insert"
  BY <1>4, <1>6, <1>13
<1>. QED
  BY <1>4, <1>5, <1>6, <1>7, <1>9, <1>10, <1>11, <1>12, <1>14, <1>15, TabStep

\* A statement or a transaction is over before the handler answers: a lock
\* held is released.
LEMMA Released ==
    ASSUME Inv, NEW t \in Tabs, Respond(t), req[t].pc = "insert",
           lists' \in [Lists -> [Ids -> SUBSET Entry]], ListsOK',
           writer' = NoTab, work' = {}, UNCHANGED <<rows, settings, page, fetcher>>
    PROVE  Inv'
<1>1. PICK r \in Request : r = NoRequest /\ r.pc = "idle" /\ Shape(r)
  BY NoRequestOK DEF NoRequest
<1>2. AboutRow(r)'
  BY <1>1 DEF AboutRow
<1>3. req' = [req EXCEPT ![t] = r]
  BY <1>1 DEF Respond, Goto
<1>4. writer = t
  BY DEF Inv
<1>5. \A u \in Tabs : writer' # u
  BY SettingsAssumption
<1>6. /\ rows' \in [Ids -> {NoRow} \union Row] /\ settings' \in [Keys -> Nat]
      /\ writer' \in Tabs \union {NoTab} /\ work' \subseteq Entry /\ OneEach'
      /\ \A i \in Ids : rows[i] # NoRow => rows'[i] # NoRow /\ rows'[i].provider = rows[i].provider
  BY DEF Inv, Types, OneEach
<1>7. writer' = t <=> r.pc = "insert"
  BY <1>1, <1>5
<1>. QED
  BY <1>1, <1>2, <1>3, <1>4, <1>5, <1>6, <1>7, TabStep

\* The steps of a Replace transaction.
LEMMA Transaction ==
    ASSUME Inv, NEW t \in Tabs,
           DeleteList(t) \/ InsertEntry(t) \/ RejectRepeated(t) \/ Commit(t)
    PROVE  Inv'
<1>1. CASE DeleteList(t)
  <2>1. req[t].pc = "delete" /\ writer = NoTab /\ writer' = t /\ work' = {}
    BY <1>1 DEF DeleteList
  <2>0. PICK r : r = [req[t] EXCEPT !.pc = "insert"]
    OBVIOUS
  <2>2. /\ r \in Request /\ r.pc = "insert" /\ r.form = req[t].form
        /\ r.entries = req[t].entries /\ r.id = req[t].id
    <3>1. "insert" \in Pcs
      BY DEF Pcs
    <3>. QED
      BY <2>0, <3>1, RequestFields DEF Request
  <2>3. Shape(r)
    BY <2>1, <2>2, RequestFields DEF Shape
  <2>4. UNCHANGED <<rows, lists, settings, page, fetcher>> /\ req' = [req EXCEPT ![t] = r]
    BY <1>1, <2>0 DEF DeleteList, Goto, db
  <2>5. AboutRow(r)'
    BY <2>1, <2>2, <2>4, RequestFields DEF AboutRow
  <2>6. /\ rows' \in [Ids -> {NoRow} \union Row] /\ settings' \in [Keys -> Nat]
        /\ lists' \in [Lists -> [Ids -> SUBSET Entry]] /\ ListsOK' /\ OneEach'
        /\ writer' \in Tabs \union {NoTab} /\ work' \subseteq Entry
        /\ \A i \in Ids : rows[i] # NoRow => rows'[i] # NoRow /\ rows'[i].provider = rows[i].provider
    BY <2>1, <2>4 DEF Inv, Types, OneEach, ListsOK
  <2>7. (writer' = t <=> r.pc = "insert") /\ \A u \in Tabs \ {t} : writer' = u <=> writer = u
    BY <2>1, <2>2, SettingsAssumption
  <2>. QED
    BY <2>2, <2>3, <2>4, <2>5, <2>6, <2>7, TabStep
<1>2. CASE InsertEntry(t)
  <2>1. work' \subseteq Entry
    BY <1>2, RequestFields DEF InsertEntry, Inv, Types
  <2>2. UNCHANGED <<rows, lists, settings, writer, page, req, fetcher>>
    BY <1>2 DEF InsertEntry, db
  <2>3. Types' /\ OneEach' /\ ListsOK'
    BY <2>1, <2>2 DEF Inv, Types, OneEach, ListsOK
  <2>4. ASSUME NEW u \in Tabs
        PROVE  Shape(req[u])' /\ AboutRow(req[u])' /\ PageOK(page[u])' /\ (writer = u <=> req[u].pc = "insert")'
    BY <2>2 DEF Inv, AboutRow, PageOK
  <2>. QED
    BY <2>3, <2>4 DEF Inv
<1>3. CASE RejectRepeated(t)
  <2>1. UNCHANGED <<rows, lists, settings, page, fetcher>>
    BY <1>3 DEF RejectRepeated, db
  <2>2. lists' \in [Lists -> [Ids -> SUBSET Entry]] /\ ListsOK'
    BY <2>1 DEF Inv, Types, ListsOK
  <2>. QED
    BY <1>3, <2>1, <2>2, Released DEF RejectRepeated
<1>4. CASE Commit(t)
  <2>1. PICK k, i, es : k = req[t].form /\ i = req[t].id /\ es = req[t].entries
    OBVIOUS
  <2>2. /\ k \in Lists /\ i \in Ids /\ es \in SUBSET Entry /\ ListOK(k, es) /\ rows[i] # NoRow
    BY <1>4, <2>1, RequestFields DEF Commit, Shape, AboutRow
  <2>3. lists' = [lists EXCEPT ![k][i] = es] /\ UNCHANGED rows
    BY <1>4, <2>1 DEF Commit
  <2>4. /\ lists' \in [Lists -> [Ids -> SUBSET Entry]]
        /\ \A l \in Lists, j \in Ids : lists'[l][j] = IF l = k /\ j = i THEN es ELSE lists[l][j]
    BY <2>2, <2>3 DEF Inv, Types
  <2>5. ListsOK'
    <3>1. ASSUME NEW l \in Lists, NEW j \in Ids
          PROVE  ListOK(l, lists'[l][j]) /\ (rows[j] = NoRow => lists'[l][j] = {})
      BY <2>2, <2>4 DEF Inv, ListsOK
    <3>. QED
      BY <2>3, <3>1 DEF ListsOK, ListOK
  <2>. QED
    BY <1>4, <2>4, <2>5, Released DEF Commit
<1>. QED
  BY <1>1, <1>2, <1>3, <1>4

\* The keys of a section are written one by one.
LEMMA KeyWritten ==
    ASSUME Inv, NEW t \in Tabs, SetKey(t)
    PROVE  Inv'
<1>1. PICK k \in req[t].left : /\ settings' = [settings EXCEPT ![k] = req[t].values[k]]
                               /\ Goto(t, [req[t] EXCEPT !.left = @ \ {k}])
  BY DEF SetKey
<1>2. req[t].pc = "set" /\ writer = NoTab /\ UNCHANGED <<rows, lists, writer, work, page, fetcher>>
  BY DEF SetKey
<1>0. PICK r : r = [req[t] EXCEPT !.left = @ \ {k}]
  OBVIOUS
<1>3. /\ r \in Request /\ r.pc = "set" /\ r.form = req[t].form
      /\ r.values = req[t].values /\ r.left = req[t].left \ {k}
  BY <1>0, <1>2, RequestFields DEF Request
<1>4. Shape(r)
  BY <1>2, <1>3, RequestFields DEF Shape
<1>5. AboutRow(r)'
  BY <1>3 DEF AboutRow
<1>6. settings' \in [Keys -> Nat]
  <2>1. k \in Keys /\ k \in DOMAIN req[t].values
    <3>1. Shape(req[t]) /\ req[t].left \in SUBSET Keys
      BY RequestFields
    <3>. QED
      BY <1>2, <3>1 DEF Shape
  <2>2. PICK keys \in SUBSET Keys : req[t].values \in [keys -> Nat]
    BY RequestFields DEF Request, ValueMaps
  <2>3. req[t].values[k] \in Nat
    BY <2>1, <2>2
  <2>. QED
    BY <1>1, <2>1, <2>3 DEF Inv, Types
<1>7. /\ rows' \in [Ids -> {NoRow} \union Row]
      /\ lists' \in [Lists -> [Ids -> SUBSET Entry]] /\ ListsOK' /\ OneEach'
      /\ writer' \in Tabs \union {NoTab} /\ work' \subseteq Entry
      /\ \A i \in Ids : rows[i] # NoRow => rows'[i] # NoRow /\ rows'[i].provider = rows[i].provider
  BY <1>2 DEF Inv, Types, OneEach, ListsOK
<1>8. (writer' = t <=> r.pc = "insert") /\ \A u \in Tabs \ {t} : writer' = u <=> writer = u
  BY <1>2, <1>3, SettingsAssumption
<1>9. req' = [req EXCEPT ![t] = r]
  BY <1>0, <1>1 DEF Goto
<1>. QED
  BY <1>2, <1>3, <1>4, <1>5, <1>6, <1>7, <1>8, <1>9, TabStep

\* A request that is left as it is but for an empty set of keys to skip.
LEMMA NothingSkipped ==
    ASSUME NEW r \in Request
    PROVE  [r EXCEPT !.left = @ \ {}] = r
<1>1. r.left \ {} = r.left
  BY DEF Request
<1>. QED
  BY <1>1 DEF Request

\* A statement that fails: the key is skipped, the default is taken, or the
\* handler answers with an error and its transaction is rolled back.
LEMMA FailsOK ==
    ASSUME Inv, NEW t \in Tabs, Fails(t)
    PROVE  Inv'
<1>1. PICK skipped \in SUBSET req[t].left :
          /\ IF req[t].pc = "set" THEN Cardinality(skipped) = 1 ELSE skipped = {}
          /\ Goto(t, [AfterFailure(t) EXCEPT !.left = @ \ skipped])
  BY DEF Fails
<1>2. /\ UNCHANGED <<rows, lists, settings, page, fetcher>> /\ fetcher' \in Fetcher
      /\ IF writer = t THEN writer' = NoTab /\ work' = {} ELSE UNCHANGED <<writer, work>>
      /\ lists' \in [Lists -> [Ids -> SUBSET Entry]] /\ ListsOK'
  BY DEF Fails, db, Inv, Types, ListsOK
<1>3. writer = t <=> req[t].pc = "insert"
  BY DEF Inv
<1>4. CASE req[t].pc = "set"
  <2>0. PICK r : r = [[req[t] EXCEPT !.failed = TRUE] EXCEPT !.left = @ \ skipped]
    OBVIOUS
  <2>1. /\ r \in Request /\ r.pc = "set" /\ r.form = req[t].form /\ r.values = req[t].values
        /\ r.left = req[t].left \ skipped
    BY <1>4, <2>0, RequestFields DEF Request
  <2>2. Goto(t, r)
    BY <1>1, <1>4, <2>0 DEF AfterFailure
  <2>3. Shape(req[t])
    BY RequestFields
  <2>4. Shape(r) /\ AboutRow(r)
    BY <1>4, <2>1, <2>3 DEF Shape, AboutRow
  <2>. QED
    BY <1>2, <1>3, <1>4, <2>1, <2>2, <2>4, GotoStep DEF db
<1>5. CASE req[t].pc = "teammates" /\ req[t].ids = {}
  <2>0. PICK r : r = [req[t] EXCEPT !.pc = "pushTeammates", !.min = 1]
    OBVIOUS
  <2>1. r \in Request
    <3>1. "pushTeammates" \in Pcs
      BY DEF Pcs, InReload
    <3>. QED
      BY <2>0, <3>1, RequestFields DEF Request
  <2>2. Goto(t, r)
    <3>1. AfterFailure(t) = r /\ skipped = {}
      BY <1>1, <1>5, <2>0 DEF AfterFailure
    <3>. QED
      BY <1>1, <2>1, <3>1, NothingSkipped
  <2>3. UNCHANGED <<db, writer, work, page, fetcher>>
    BY <1>2, <1>3, <1>5 DEF db
  <2>4. Goto(t, [req[t] EXCEPT !.pc = "pushTeammates", !.min = 1])
    BY <2>0, <2>2
  <2>5. 1 \in Nat /\ 1 >= 1
    OBVIOUS
  <2>. QED
    BY <1>5, <2>3, <2>4, <2>5, MinRead
<1>6. CASE req[t].pc # "set" /\ ~(req[t].pc = "teammates" /\ req[t].ids = {})
  <2>1. Respond(t)
    <3>1. AfterFailure(t) = NoRequest /\ skipped = {}
      BY <1>1, <1>6 DEF AfterFailure
    <3>2. [NoRequest EXCEPT !.left = @ \ {}] = NoRequest
      BY NoRequestOK, NothingSkipped
    <3>. QED
      BY <1>1, <3>1, <3>2 DEF Respond
  <2>2. CASE req[t].pc = "insert"
    BY <1>2, <1>3, <2>1, <2>2, Released
  <2>3. CASE req[t].pc # "insert"
    BY <1>2, <1>3, <2>1, <2>3, RespondStep DEF db
  <2>. QED
    BY <2>2, <2>3
<1>. QED
  BY <1>4, <1>5, <1>6

\* A crash ends all requests, rolls back and loads the fetcher again.
LEMMA CrashOK ==
    ASSUME Inv, Crash
    PROVE  Inv'
<1>1. /\ req' = [u \in Tabs |-> NoRequest] /\ writer' = NoTab /\ work' = {}
      /\ UNCHANGED <<rows, lists, settings, page>>
  BY DEF Crash, db
<1>2. fetcher' \in Fetcher
  <2>1. PICK read \in SUBSET Listed, min \in {1, MinReviewCount} :
            fetcher' = [teammates |-> UNION {TeammatesOf(i) : i \in read}, min |-> min]
    BY DEF Crash
  <2>2. \A i \in read : TeammatesOf(i) \in SUBSET Names
    BY TeammatesAreNames DEF Listed
  <2>3. UNION {TeammatesOf(i) : i \in read} \in SUBSET Names
    BY <2>2
  <2>4. min \in Nat
    BY MinIsPositive
  <2>. QED
    BY <2>1, <2>3, <2>4 DEF Fetcher
<1>3. Types' /\ OneEach' /\ ListsOK'
  BY <1>1, <1>2, NoRequestOK DEF Inv, Types, OneEach, ListsOK
<1>4. ASSUME NEW u \in Tabs
      PROVE  Shape(req[u])' /\ AboutRow(req[u])' /\ PageOK(page[u])' /\ (writer = u <=> req[u].pc = "insert")'
  <2>1. req'[u] = NoRequest /\ NoRequest.pc = "idle" /\ writer' # u
    BY <1>1, SettingsAssumption DEF NoRequest
  <2>2. Shape(req'[u])
    BY <2>1, NoRequestOK
  <2>3. AboutRow(req[u])' /\ PageOK(page[u])'
    BY <1>1, <2>1 DEF AboutRow, PageOK, Inv
  <2>4. (writer = u <=> req[u].pc = "insert")'
    BY <2>1
  <2>. QED
    BY <2>2, <2>3, <2>4 DEF Shape
<1>. QED
  BY <1>3, <1>4 DEF Inv

\* At first all requests and pages are empty, and the database is that of an
\* earlier session.
LEMMA InitOK == Init => Inv
<1>. SUFFICES ASSUME Init PROVE Inv
  OBVIOUS
<1>1. rows \in [Ids -> {NoRow} \union Row] /\ OneEach
  BY DEF Init, Row, OneEach, Listed
<1>2. PICK spaces \in {{}} \union {{e} : e \in [name : Names, board : Boards \ {""}]} :
          lists = [k \in Lists |-> [i \in Ids |->
                      IF k = "spaces" /\ i = 1 /\ i \in Listed THEN spaces ELSE {}]]
  BY DEF Init
<1>3. spaces \in SUBSET Entry /\ ListOK("spaces", spaces)
  <2>1. CASE spaces = {}
    BY <2>1 DEF ListOK
  <2>2. CASE spaces # {}
    <3>1. PICK e \in [name : Names, board : Boards \ {""}] : spaces = {e}
      BY <1>2, <2>2
    <3>2. e \in Entry
      BY DEF Entry
    <3>. QED
      BY <3>1, <3>2 DEF ListOK
  <2>. QED
    BY <2>1, <2>2
<1>4. lists \in [Lists -> [Ids -> SUBSET Entry]] /\ ListsOK
  <2>1. \A k \in Lists, i \in Ids :
           lists[k][i] = IF k = "spaces" /\ i = 1 /\ i \in Listed THEN spaces ELSE {}
    BY <1>2
  <2>2. \A k \in Lists : ListOK(k, {})
    BY DEF ListOK
  <2>3. ListsOK
    BY <1>3, <2>1, <2>2 DEF ListsOK, Listed
  <2>. QED
    BY <1>2, <1>3, <2>3
<1>5. settings \in [Keys -> Nat]
  BY DEF Init
<1>6. fetcher \in Fetcher
  <2>1. settings["min_review_count"] \in Nat
    BY <1>5, SettingsAssumption DEF Keys
  <2>2. MinReviewCount \in Nat
    BY <2>1 DEF MinReviewCount
  <2>. QED
    BY <2>2 DEF Init, Fetcher
<1>7. req \in [Tabs -> Request] /\ page \in [Tabs -> Page]
  BY NoRequestOK, NoPageOK DEF Init
<1>8. Types
  BY <1>1, <1>4, <1>5, <1>6, <1>7 DEF Init, Types
<1>9. ASSUME NEW t \in Tabs
      PROVE  Shape(req[t]) /\ AboutRow(req[t]) /\ PageOK(page[t]) /\ (writer = t <=> req[t].pc = "insert")
  <2>1. req[t] = NoRequest /\ page[t] = NoPage /\ writer # t /\ NoRequest.pc = "idle"
    BY SettingsAssumption DEF Init, NoRequest
  <2>. QED
    BY <2>1, NoRequestOK, NoPageOK
<1>. QED
  BY <1>1, <1>4, <1>8, <1>9 DEF Inv

\* Every step keeps the invariant.
LEMMA StepOK == Inv /\ [Next]_vars => Inv'
<1>. SUFFICES ASSUME Inv, [Next]_vars PROVE Inv'
  OBVIOUS
<1>1. CASE UNCHANGED vars
  <2>1. UNCHANGED <<rows, lists, settings, writer, work, page, req, fetcher>>
    BY <1>1 DEF vars, db
  <2>. QED
    BY <2>1 DEF Inv, Types, OneEach, ListsOK, AboutRow, PageOK
<1>2. ASSUME NEW t \in Tabs, Browse(t)
      PROVE  Inv'
  BY <1>2, PageLoaded, IntegrationForms, ListForms, KeysForms, SyncRequest DEF Browse
<1>3. ASSUME NEW t \in Tabs, Handle(t)
      PROVE  Inv'
  <2>1. CASE DuplicateProvider(t) \/ Answer(t)
    <3>1. Respond(t) /\ req[t].pc # "insert" /\ UNCHANGED <<db, writer, work, page, fetcher>>
      BY <2>1 DEF DuplicateProvider, Answer
    <3>. QED
      BY <3>1, RespondStep DEF Inv, Types
  <2>2. CASE GetMinReviewCount(t)
    BY <2>2, MinIsPositive, MinRead DEF GetMinReviewCount
  <2>. QED
    BY <1>3, <2>1, <2>2, TokenRead, RowWritten, SpacesRead, Transaction, KeyWritten, ListsRead, Pushes
       DEF Handle
<1>4. ASSUME NEW t \in Tabs, Fails(t)
      PROVE  Inv'
  BY <1>4, FailsOK
<1>5. CASE Crash
  BY <1>5, CrashOK
<1>. QED
  BY <1>1, <1>2, <1>3, <1>4, <1>5 DEF Next

\* Inv holds always.
LEMMA InvHolds == Spec => []Inv
BY InitOK, StepOK, PTL DEF Spec

-----------------------------------------------------------------------------
(* Types, and whole lists                                                  *)

\* Every variable has its type, a provider has one row, and exactly the
\* request inside a transaction has the write lock (TypeOK).
THEOREM TypeCorrect == Spec => []TypeOK
<1>1. Inv => TypeOK
  <2>. SUFFICES ASSUME Inv PROVE TypeOK
    OBVIOUS
  <2>1. \A t \in Tabs : page[t] \in Page
    BY DEF Inv, Types
  <2>2. \A r \in {NoRow} \union Row : r \in [provider : Providers \union {""}, token : Tokens \union {""}]
    <3>1. NoRow \in [provider : Providers \union {""}, token : Tokens \union {""}]
      BY DEF NoRow
    <3>2. \A r \in Row : r \in [provider : Providers \union {""}, token : Tokens \union {""}]
      BY DEF Row
    <3>. QED
      BY <3>1, <3>2
  <2>3. Page \subseteq [open : BOOLEAN, rows : [Ids -> [provider : Providers \union {""},
                                                      token : Tokens \union {""}]],
                       lists : [Lists -> [Ids -> SUBSET Entry]], settings : [Keys -> Nat]]
    BY <2>2 DEF Page
  <2>4. page \in [Tabs -> [open : BOOLEAN, rows : [Ids -> [provider : Providers \union {""},
                                                         token : Tokens \union {""}]],
                          lists : [Lists -> [Ids -> SUBSET Entry]], settings : [Keys -> Nat]]]
    BY <2>3 DEF Inv, Types
  <2>5. ASSUME NEW t \in Tabs
        PROVE  /\ req[t].id \in Ids /\ req[t].token \in Tokens \union {""}
               /\ req[t].entries \subseteq Entry /\ req[t].left \subseteq Keys
               /\ \A k \in DOMAIN req[t].values : k \in Keys /\ req[t].values[k] \in Nat
               /\ req[t].ids \subseteq Ids /\ req[t].teammates \subseteq Names /\ req[t].min \in Nat
               /\ writer = t <=> req[t].pc = "insert"
    <3>1. PICK keys \in SUBSET Keys : req[t].values \in [keys -> Nat]
      BY RequestFields DEF Request, ValueMaps
    <3>2. \A k \in DOMAIN req[t].values : k \in Keys /\ req[t].values[k] \in Nat
      BY <3>1
    <3>3. writer = t <=> req[t].pc = "insert"
      BY DEF Inv
    <3>. QED
      BY <3>2, <3>3, RequestFields
  <2>6. \A i, j \in Listed : i # j => rows[i].provider # rows[j].provider
    BY DEF Inv, OneEach, Listed
  <2>. QED
    BY <2>4, <2>5, <2>6 DEF TypeOK, Inv, Types, Row, Fetcher
<1>. QED
  BY <1>1, InvHolds, PTL

\* Only Commit changes a list.
LEMMA ListsChange ==
    ASSUME Next, lists' # lists
    PROVE  \E t \in Tabs : Commit(t)
<1>1. ASSUME NEW t \in Tabs, Browse(t)
      PROVE  lists' = lists
  BY <1>1 DEF Browse, LoadPage, UpdateForm, CreateForm, SpacesForm, TeammatesForm, PrerequisitesForm,
              GeneralForm, WeightsForm, SyncButton, Send, db
<1>2. ASSUME NEW t \in Tabs, Handle(t), ~Commit(t)
      PROVE  lists' = lists
  <2>1. CASE \/ GetIntegration(t) \/ UpdateIntegration(t) \/ CreateIntegration(t) \/ DuplicateProvider(t)
             \/ ListSpaces(t) \/ DeleteList(t) \/ InsertEntry(t) \/ RejectRepeated(t)
    BY <2>1 DEF GetIntegration, UpdateIntegration, CreateIntegration, DuplicateProvider,
                ListSpaces, DeleteList, InsertEntry, RejectRepeated, db
  <2>2. CASE \/ SetKey(t) \/ Answer(t) \/ ListIntegrations(t) \/ ListTeammates(t)
             \/ GetMinReviewCount(t) \/ UpdateTeammates(t) \/ UpdateMinReviewCount(t)
    BY <2>2 DEF SetKey, Answer, ListIntegrations, ListTeammates, GetMinReviewCount,
                UpdateTeammates, UpdateMinReviewCount, db
  <2>. QED
    BY <1>2, <2>1, <2>2 DEF Handle
<1>3. Crash \/ (\E t \in Tabs : Fails(t)) => lists' = lists
  BY DEF Crash, Fails, db
<1>. QED
  BY <1>1, <1>2, <1>3 DEF Next

\* A list changes to the whole of what one form posted (WholeLists): a
\* transaction writes it when its last entry is in.
THEOREM ListsAreWhole == Spec => WholeLists
<1>. DEFINE Whole == \A k \in Lists, i \in Ids : lists'[k][i] # lists[k][i] =>
                        \E t \in Tabs : /\ req[t].form = k /\ req[t].id = i
                                        /\ lists'[k][i] = req[t].entries
<1>1. Inv /\ [Next]_vars => [Whole]_vars
  <2>. SUFFICES ASSUME Inv, Next, NEW k \in Lists, NEW i \in Ids, lists'[k][i] # lists[k][i]
                PROVE  \E t \in Tabs : /\ req[t].form = k /\ req[t].id = i
                                       /\ lists'[k][i] = req[t].entries
    OBVIOUS
  <2>1. PICK t \in Tabs : Commit(t)
    BY ListsChange
  <2>2. PICK l, j, es : l = req[t].form /\ j = req[t].id /\ es = req[t].entries
    OBVIOUS
  <2>3. lists' = [lists EXCEPT ![l][j] = es] /\ l \in Lists /\ j \in Ids
    BY <2>1, <2>2, RequestFields DEF Commit, Shape
  <2>4. lists'[k][i] = IF l = k /\ j = i THEN es ELSE lists[k][i]
    BY <2>3 DEF Inv, Types
  <2>. QED
    BY <2>2, <2>4
<1>. QED
  BY <1>1, InvHolds, PTL DEF Spec, WholeLists

-----------------------------------------------------------------------------
(* One tab at a time                                                       *)

\* A step is a crash or of one tab; it leaves the requests of the others.
LEMMA OneTab ==
    ASSUME Inv, Next
    PROVE  \/ Crash
           \/ \E t \in Tabs : /\ Browse(t) \/ Handle(t) \/ Fails(t)
                              /\ \A u \in Tabs \ {t} : req'[u] = req[u]
<1>1. ASSUME NEW t \in Tabs, NEW r, Goto(t, r)
      PROVE  \A u \in Tabs \ {t} : req'[u] = req[u]
  BY <1>1 DEF Goto, Inv, Types
<1>2. ASSUME NEW t \in Tabs, Browse(t)
      PROVE  \A u \in Tabs \ {t} : req'[u] = req[u]
  <2>1. \/ UNCHANGED req
        \/ \E r : req' = [req EXCEPT ![t] = r]
    BY <1>2 DEF Browse, LoadPage, UpdateForm, CreateForm, SpacesForm, TeammatesForm, PrerequisitesForm,
                GeneralForm, WeightsForm, SyncButton, Send
  <2>. QED
    BY <1>1, <2>1 DEF Goto
<1>3. ASSUME NEW t \in Tabs, Handle(t)
      PROVE  \A u \in Tabs \ {t} : req'[u] = req[u]
  <2>1. UNCHANGED req \/ \E r : Goto(t, r)
    <3>1. CASE \/ GetIntegration(t) \/ UpdateIntegration(t) \/ CreateIntegration(t) \/ DuplicateProvider(t)
               \/ ListSpaces(t) \/ DeleteList(t) \/ InsertEntry(t) \/ RejectRepeated(t) \/ Commit(t)
      BY <3>1 DEF GetIntegration, UpdateIntegration, CreateIntegration, DuplicateProvider,
                  ListSpaces, DeleteList, InsertEntry, RejectRepeated, Commit, Respond
    <3>2. CASE \/ SetKey(t) \/ Answer(t) \/ ListIntegrations(t) \/ ListTeammates(t)
               \/ GetMinReviewCount(t) \/ UpdateTeammates(t) \/ UpdateMinReviewCount(t)
      BY <3>2 DEF SetKey, Answer, ListIntegrations, ListTeammates, GetMinReviewCount,
                  UpdateTeammates, UpdateMinReviewCount, Respond
    <3>. QED
      BY <1>3, <3>1, <3>2 DEF Handle
  <2>. QED
    BY <1>1, <2>1
<1>4. ASSUME NEW t \in Tabs, Fails(t)
      PROVE  \A u \in Tabs \ {t} : req'[u] = req[u]
  BY <1>1, <1>4 DEF Fails
<1>. QED
  BY <1>2, <1>3, <1>4 DEF Next

\* What a tab sends is fresh.
LEMMA Sent ==
    ASSUME Inv, NEW t \in Tabs, Browse(t)
    PROVE  /\ UNCHANGED <<rows, lists, settings, fetcher, failures>> /\ req[t].pc = "idle"
           /\ req' = req \/ Fresh(req'[t])
<1>1. UNCHANGED <<rows, lists, settings, fetcher, failures>> /\ req[t].pc = "idle"
  BY DEF Browse, LoadPage, UpdateForm, CreateForm, SpacesForm, TeammatesForm, PrerequisitesForm,
         GeneralForm, WeightsForm, SyncButton, Send, db
<1>2. LoadPage(t) => req' = req
  BY DEF LoadPage
<1>. QED
  BY <1>1, <1>2, IntegrationForms, ListForms, KeysForms, SyncRequest DEF Browse

-----------------------------------------------------------------------------
(* Saves nobody interferes with                                            *)

\* How far the handler of r has got, as long as it is alone.
Written(r) ==
    /\ r.pc = "update" /\ ~r.typed => r.token = rows[r.id].token
    /\ r.pc \in {"delete", "insert"} =>
          \A e \in lists[r.form][r.id], f \in r.entries : e.name = f.name => f.board = e.board
    /\ r.pc = "set" /\ ~r.failed => \A k \in DOMAIN r.values \ r.left : settings[k] = r.values[k]

AloneOK == \A t \in Tabs : hist.alone[t] => Written(req[t])

\* What the history says of a request that is still alone after a step.
LEMMA StillAlone ==
    ASSUME Next, NEW t \in Tabs, hist'.alone[t]
    PROVE  /\ req'[t].pc # "idle"
           /\ req[t].pc # "idle" =>
                 /\ hist.alone[t]
                 /\ req'[t] = req[t] => Section(req[t].form, req[t].id)' = Section(req[t].form, req[t].id)
<1>1. hist'.alone[t] =
          (/\ req'[t].pc # "idle"
           /\ IF req[t].pc = "idle" THEN TRUE
              ELSE hist.alone[t] /\ (req'[t] = req[t] =>
                       Section(req[t].form, req[t].id)' = Section(req[t].form, req[t].id)))
  BY DEF Next, Observe
<1>. QED
  BY <1>1

\* A request that is alone and waits finds what it is about unchanged.
LEMMA AloneWaits ==
    ASSUME Inv, Next, NEW t \in Tabs, hist'.alone[t], AloneOK, req'[t] = req[t]
    PROVE  Written(req[t])'
<1>1. PICK r : r = req[t] /\ r = req'[t]
  OBVIOUS
<1>2. /\ r.pc # "idle" /\ Written(r)
      /\ Section(req[t].form, req[t].id)' = Section(req[t].form, req[t].id)
  <2>1. req[t].pc # "idle"
    BY StillAlone
  <2>. QED
    BY <1>1, <2>1, StillAlone DEF AloneOK
<1>3. Shape(r) /\ r.id \in Ids
  BY <1>1, RequestFields
<1>4. r.pc = "update" => rows'[r.id] = rows[r.id]
  <2>. SUFFICES ASSUME r.pc = "update" PROVE rows'[r.id] = rows[r.id]
    OBVIOUS
  <2>1. r.form = "integration"
    BY <1>3 DEF Shape
  <2>2. r.form \notin Lists
    BY <2>1 DEF Lists
  <2>. QED
    BY <1>1, <1>2, <2>1, <2>2 DEF Section
<1>5. r.pc \in {"delete", "insert"} => lists'[r.form][r.id] = lists[r.form][r.id]
  <2>. SUFFICES ASSUME r.pc \in {"delete", "insert"} PROVE lists'[r.form][r.id] = lists[r.form][r.id]
    OBVIOUS
  <2>1. r.form \in Lists
    BY <1>3 DEF Shape
  <2>2. r.form = req[t].form /\ r.id = req[t].id /\ r.form = req'[t].form /\ r.id = req'[t].id
    BY <1>1
  <2>3. Section(req[t].form, req[t].id) = lists[r.form][r.id]
    BY <2>1, <2>2 DEF Section, Lists
  <2>4. Section(req[t].form, req[t].id)' = lists'[r.form][r.id]
    BY <2>1, <2>2 DEF Section, Lists
  <2>. QED
    BY <1>2, <2>3, <2>4
<1>6. r.pc = "set" => \A k \in DOMAIN r.values : settings'[k] = settings[k]
  <2>. SUFFICES ASSUME r.pc = "set", NEW k \in DOMAIN r.values PROVE settings'[k] = settings[k]
    OBVIOUS
  <2>1. CASE r.form = "general"
    <3>1. k \in GeneralKeys
      BY <1>3, <2>1 DEF Shape
    <3>2. [j \in GeneralKeys |-> settings'[j]] = [j \in GeneralKeys |-> settings[j]]
      BY <1>1, <1>2, <2>1 DEF Section, Lists
    <3>3. [j \in GeneralKeys |-> settings'[j]][k] = [j \in GeneralKeys |-> settings[j]][k]
      BY <3>2
    <3>. QED
      BY <3>1, <3>3
  <2>2. CASE r.form = "weights"
    <3>1. k \in WeightKeys
      BY <1>3, <2>2 DEF Shape
    <3>2. [j \in WeightKeys |-> settings'[j]] = [j \in WeightKeys |-> settings[j]]
      BY <1>1, <1>2, <2>2 DEF Section, Lists
    <3>3. [j \in WeightKeys |-> settings'[j]][k] = [j \in WeightKeys |-> settings[j]][k]
      BY <3>2
    <3>. QED
      BY <3>1, <3>3
  <2>. QED
    BY <1>3, <2>1, <2>2 DEF Shape
<1>7. Written(r)'
  BY <1>2, <1>4, <1>5, <1>6 DEF Written
<1>. QED
  BY <1>1, <1>7 DEF Written

\* What is fresh is written as far as it goes: nothing is.
LEMMA FreshIsWritten ==
    ASSUME Inv, NEW r \in Request, Shape(r), Fresh(r)
    PROVE  Written(r)
<1>1. ASSUME r.pc = "delete", NEW e \in lists[r.form][r.id], NEW f \in r.entries
      PROVE  f.board = e.board
  <2>1. r.form \in Lists /\ r.form # "spaces" /\ ListOK(r.form, r.entries) /\ r.id \in Ids
    BY <1>1 DEF Shape, Fresh, Request
  <2>2. ListOK(r.form, lists[r.form][r.id])
    BY <2>1 DEF Inv, ListsOK
  <2>. QED
    BY <1>1, <2>1, <2>2 DEF ListOK
<1>. QED
  BY <1>1 DEF Written, Fresh

\* A handler that goes on keeps it.
LEMMA AloneGoesOn ==
    ASSUME Inv, Inv', Next, AloneOK, NEW t \in Tabs, hist'.alone[t],
           Browse(t) \/ Handle(t) \/ Fails(t), req'[t] # req[t]
    PROVE  Written(req[t])'
<1>0. /\ req'[t].pc # "idle" /\ (req[t].pc # "idle" => Written(req[t]))
  BY StillAlone DEF AloneOK
<1>1. CASE Browse(t)
  <2>1. Fresh(req'[t]) /\ UNCHANGED <<rows, lists, settings>>
    BY <1>1, Sent
  <2>2. req'[t] \in Request /\ Shape(req'[t])
    BY DEF Inv, Types
  <2>3. Written(req'[t])
    BY <2>1, <2>2, FreshIsWritten
  <2>. QED
    BY <2>1, <2>3 DEF Written
<1>2. ASSUME NEW r, Goto(t, r)
      PROVE  req'[t] = r
  BY <1>2 DEF Goto, Inv, Types
<1>3. ASSUME req'[t].pc \notin {"update", "delete", "insert", "set"}
      PROVE  Written(req[t])'
  BY <1>3 DEF Written
<1>4. CASE GetIntegration(t)
  <2>. DEFINE r == [req[t] EXCEPT !.pc = "update", !.token = rows[req[t].id].token]
  <2>1. req'[t] = r /\ UNCHANGED rows
    BY <1>2, <1>4 DEF GetIntegration, db
  <2>2. r.pc = "update" /\ r.id = req[t].id /\ r.token = rows[req[t].id].token
    BY RequestFields DEF Request
  <2>. QED
    BY <2>1, <2>2 DEF Written
<1>5. CASE UpdateIntegration(t) \/ CreateIntegration(t)
  <2>1. req'[t].pc = "refresh"
    <3>1. \E i : \/ Goto(t, [req[t] EXCEPT !.pc = "refresh", !.id = i])
                \/ Goto(t, [req[t] EXCEPT !.pc = "refresh"])
      BY <1>5 DEF UpdateIntegration, CreateIntegration
    <3>. QED
      BY <1>2, <3>1, RequestFields DEF Request
  <2>. QED
    BY <1>3, <2>1
<1>6. CASE ListSpaces(t)
  <2>. DEFINE kept == Kept(req[t].entries, lists["spaces"][req[t].id])
              r == [req[t] EXCEPT !.pc = "delete", !.entries = kept]
  <2>1. req[t].pc = "spaces" /\ req'[t] = r /\ UNCHANGED lists
    BY <1>2, <1>6 DEF ListSpaces, db
  <2>2. req[t].form = "spaces" /\ ListOK("spaces", req[t].entries)
    BY <2>1, RequestFields DEF Shape
  <2>3. "spaces" \in Lists
    BY DEF Lists
  <2>4. lists["spaces"][req[t].id] \in SUBSET Entry /\ ListOK("spaces", lists["spaces"][req[t].id])
    <3>1. req[t].id \in Ids
      BY RequestFields
    <3>2. ListOK("spaces", lists["spaces"][req[t].id])
      BY <2>3, <3>1 DEF Inv, ListsOK
    <3>3. lists["spaces"][req[t].id] \in SUBSET Entry
      BY <2>3, <3>1 DEF Inv, Types
    <3>. QED
      BY <3>2, <3>3
  <2>5. \A f \in kept : f.name \in NamesOf(lists["spaces"][req[t].id]) => f \in lists["spaces"][req[t].id]
    BY <2>2, <2>4, RequestFields, KeptOK
  <2>6. ASSUME NEW e \in lists["spaces"][req[t].id], NEW f \in kept, e.name = f.name
        PROVE  f.board = e.board
    <3>1. f.name \in NamesOf(lists["spaces"][req[t].id])
      BY <2>6 DEF NamesOf
    <3>2. f = e
      BY <2>4, <2>5, <2>6, <3>1 DEF ListOK
    <3>. QED
      BY <3>2
  <2>. HIDE DEF kept
  <2>7. r.pc = "delete" /\ r.form = "spaces" /\ r.entries = kept /\ r.id = req[t].id
    BY <2>2, RequestFields DEF Request
  <2>. HIDE DEF r
  <2>. QED
    BY <2>1, <2>6, <2>7 DEF Written
<1>7. CASE DeleteList(t)
  <2>. DEFINE r == [req[t] EXCEPT !.pc = "insert"]
  <2>1. req[t].pc = "delete" /\ req'[t] = r /\ UNCHANGED lists
    BY <1>2, <1>7 DEF DeleteList, db
  <2>2. r.pc = "insert" /\ r.form = req[t].form /\ r.entries = req[t].entries /\ r.id = req[t].id
    BY RequestFields DEF Request
  <2>. HIDE DEF r
  <2>. QED
    BY <1>0, <2>1, <2>2 DEF Written
<1>8. CASE SetKey(t)
  <2>1. PICK k \in req[t].left : /\ settings' = [settings EXCEPT ![k] = req[t].values[k]]
                                 /\ Goto(t, [req[t] EXCEPT !.left = @ \ {k}])
    BY <1>8 DEF SetKey
  <2>. DEFINE r == [req[t] EXCEPT !.left = @ \ {k}]
  <2>2. req[t].pc = "set" /\ req'[t] = r
    BY <1>2, <1>8, <2>1 DEF SetKey
  <2>3. /\ r.pc = "set" /\ r.failed = req[t].failed /\ r.values = req[t].values
        /\ r.left = req[t].left \ {k}
    BY <2>2, RequestFields DEF Request
  <2>. HIDE DEF r
  <2>4. \A j \in Keys : settings'[j] = IF j = k THEN req[t].values[k] ELSE settings[j]
    BY <2>1, RequestFields DEF Inv, Types
  <2>5. DOMAIN req[t].values \subseteq Keys
    BY <2>2, RequestFields DEF Shape, Keys
  <2>. QED
    BY <1>0, <2>2, <2>3, <2>4, <2>5 DEF Written
<1>9. CASE Fails(t)
  <2>1. PICK skipped \in SUBSET req[t].left :
            /\ IF req[t].pc = "set" THEN Cardinality(skipped) = 1 ELSE skipped = {}
            /\ Goto(t, [AfterFailure(t) EXCEPT !.left = @ \ skipped])
    BY <1>9 DEF Fails
  <2>2. CASE req[t].pc = "set"
    <3>. DEFINE r == [[req[t] EXCEPT !.failed = TRUE] EXCEPT !.left = @ \ skipped]
    <3>1. req'[t] = r
      BY <1>2, <2>1, <2>2 DEF AfterFailure
    <3>2. r.pc = "set" /\ r.failed = TRUE
      BY <2>2, RequestFields DEF Request
    <3>. HIDE DEF r
    <3>. QED
      BY <3>1, <3>2 DEF Written
  <2>3. CASE req[t].pc # "set"
    <3>1. req'[t].pc \in {"pushTeammates", "idle"}
      <4>1. CASE req[t].pc = "teammates" /\ req[t].ids = {}
        <5>1. AfterFailure(t) = [req[t] EXCEPT !.pc = "pushTeammates", !.min = 1]
          BY <4>1 DEF AfterFailure
        <5>2. AfterFailure(t).pc = "pushTeammates" /\ AfterFailure(t) \in Request
          <6>1. "pushTeammates" \in Pcs
            BY DEF Pcs, InReload
          <6>2. PICK a : a = [req[t] EXCEPT !.pc = "pushTeammates", !.min = 1]
            OBVIOUS
          <6>3. a \in Request /\ a.pc = "pushTeammates"
            BY <6>1, <6>2, RequestFields DEF Request
          <6>. QED
            BY <5>1, <6>2, <6>3
        <5>. QED
          BY <1>2, <2>1, <2>3, <5>2, NothingSkipped
      <4>2. CASE ~(req[t].pc = "teammates" /\ req[t].ids = {})
        <5>1. AfterFailure(t) = NoRequest
          BY <2>3, <4>2 DEF AfterFailure
        <5>2. NoRequest.pc = "idle"
          BY DEF NoRequest
        <5>. QED
          BY <1>2, <2>1, <2>3, <5>1, <5>2, NoRequestOK, NothingSkipped
      <4>. QED
        BY <4>1, <4>2
    <3>. QED
      BY <1>3, <3>1
  <2>. QED
    BY <2>2, <2>3
<1>10. CASE DuplicateProvider(t) \/ RejectRepeated(t) \/ Commit(t) \/ Answer(t) \/ UpdateMinReviewCount(t)
  <2>1. req'[t] = NoRequest
    BY <1>2, <1>10 DEF DuplicateProvider, RejectRepeated, Commit, Answer, UpdateMinReviewCount, Respond
  <2>2. NoRequest.pc = "idle"
    BY DEF NoRequest
  <2>. QED
    BY <1>0, <2>1, <2>2
<1>11. CASE ListIntegrations(t) \/ ListTeammates(t) \/ GetMinReviewCount(t) \/ UpdateTeammates(t)
  <2>1. req[t].pc \in InReload
    BY <1>11 DEF ListIntegrations, ListTeammates, GetMinReviewCount, UpdateTeammates, InReload
  <2>2. req'[t].pc \in InReload
    <3>1. CASE ListIntegrations(t) \/ GetMinReviewCount(t) \/ UpdateTeammates(t)
      <4>1. \/ Goto(t, [req[t] EXCEPT !.pc = "teammates", !.ids = Listed])
            \/ Goto(t, [req[t] EXCEPT !.pc = "pushTeammates", !.min = MinReviewCount])
            \/ Goto(t, [req[t] EXCEPT !.pc = "pushMin"])
        BY <3>1 DEF ListIntegrations, GetMinReviewCount, UpdateTeammates
      <4>2. req'[t].pc \in {"teammates", "pushTeammates", "pushMin"}
        BY <1>2, <4>1, RequestFields DEF Request
      <4>. QED
        BY <4>2 DEF InReload
    <3>2. CASE ListTeammates(t)
      <4>1. PICK i \in req[t].ids :
                Goto(t, [req[t] EXCEPT !.ids = @ \ {i}, !.teammates = @ \union TeammatesOf(i)])
        BY <3>2 DEF ListTeammates
      <4>2. req'[t].pc = req[t].pc
        BY <1>2, <4>1, RequestFields DEF Request
      <4>. QED
        BY <2>1, <4>2
    <3>. QED
      BY <1>11, <3>1, <3>2
  <2>. QED
    BY <1>3, <2>2 DEF InReload
<1>12. CASE InsertEntry(t)
  BY <1>12 DEF InsertEntry
<1>. QED
  BY <1>1, <1>4, <1>5, <1>6, <1>7, <1>8, <1>9, <1>10, <1>11, <1>12 DEF Handle

\* Every step keeps AloneOK.
LEMMA AloneStep == Inv /\ AloneOK /\ [Next]_vars => AloneOK'
<1>. SUFFICES ASSUME Inv, AloneOK, [Next]_vars PROVE AloneOK'
  OBVIOUS
<1>1. CASE UNCHANGED vars
  BY <1>1 DEF vars, db, AloneOK, Written
<1>2. CASE Next
  <2>0. Inv'
    BY <1>2, StepOK
  <2>1. ASSUME NEW t \in Tabs, hist'.alone[t]
        PROVE  Written(req[t])'
    <3>1. ~Crash
      <4>1. Crash => req'[t].pc = "idle"
        BY IdleRequest DEF Crash
      <4>. QED
        BY <1>2, <2>1, <4>1, StillAlone
    <3>2. CASE req'[t] = req[t]
      BY <1>2, <2>1, <3>2, AloneWaits
    <3>3. CASE req'[t] # req[t]
      <4>1. Browse(t) \/ Handle(t) \/ Fails(t)
        BY <1>2, <3>1, <3>3, OneTab
      <4>. QED
        BY <1>2, <2>0, <2>1, <3>3, <4>1, AloneGoesOn
    <3>. QED
      BY <3>2, <3>3
  <2>. QED
    BY <2>1 DEF AloneOK
<1>. QED
  BY <1>1, <1>2

\* AloneOK holds always: at first there are no requests.
LEMMA AloneHolds == Spec => []AloneOK
<1>1. Init => AloneOK
  <2>1. \A t \in Tabs : ~NoHistory.alone[t]
    BY DEF NoHistory
  <2>. QED
    BY <2>1 DEF Init, AloneOK
<1>. QED
  BY <1>1, AloneStep, InvHolds, PTL DEF Spec

\* Only an update or a create goes on to the Reload of a saved integration.
LEMMA ToRefresh ==
    ASSUME Inv, Next, NEW t \in Tabs, req[t].form = "integration", req[t].pc # "refresh",
           req'[t].pc = "refresh"
    PROVE  UpdateIntegration(t) \/ CreateIntegration(t)
<1>0. ASSUME NEW r, Goto(t, r)
      PROVE  req'[t] = r
  BY <1>0 DEF Goto, Inv, Types
<1>1. ~Crash
  BY IdleRequest DEF Crash
<1>2. Browse(t) \/ Handle(t) \/ Fails(t)
  BY <1>1, OneTab
<1>3. ~Browse(t)
  <2>1. req[t].pc # "idle"
    <3>1. NoRequest.form # "integration"
      BY DEF NoRequest
    <3>. QED
      BY <3>1, RequestFields DEF Shape
  <2>. QED
    BY <2>1, Sent
<1>4. ~Fails(t)
  <2>. SUFFICES ASSUME Fails(t) PROVE FALSE
    OBVIOUS
  <2>1. PICK skipped \in SUBSET req[t].left :
            /\ IF req[t].pc = "set" THEN Cardinality(skipped) = 1 ELSE skipped = {}
            /\ Goto(t, [AfterFailure(t) EXCEPT !.left = @ \ skipped])
    BY DEF Fails
  <2>2. PICK a \in {[req[t] EXCEPT !.failed = TRUE], [req[t] EXCEPT !.pc = "pushTeammates", !.min = 1], NoRequest} :
            a = AfterFailure(t)
    BY DEF AfterFailure
  <2>3. a \in Request /\ a.pc # "refresh"
    <3>1. "pushTeammates" \in Pcs
      BY DEF Pcs, InReload
    <3>2. CASE a = [req[t] EXCEPT !.failed = TRUE]
      BY <3>2, RequestFields DEF Request
    <3>3. CASE a = [req[t] EXCEPT !.pc = "pushTeammates", !.min = 1]
      BY <3>1, <3>3, RequestFields DEF Request
    <3>4. CASE a = NoRequest
      <4>1. NoRequest.pc # "refresh"
        BY DEF NoRequest
      <4>. QED
        BY <3>4, <4>1, NoRequestOK
    <3>. QED
      BY <2>2, <3>2, <3>3, <3>4
  <2>4. req'[t] = [a EXCEPT !.left = @ \ skipped]
    BY <1>0, <2>1, <2>2
  <2>5. req'[t].pc = a.pc
    BY <2>3, <2>4 DEF Request
  <2>. QED
    BY <2>3, <2>5
<1>5. ASSUME Handle(t), ~(UpdateIntegration(t) \/ CreateIntegration(t))
      PROVE  req'[t].pc # "refresh"
  <2>1. CASE DuplicateProvider(t) \/ RejectRepeated(t) \/ Commit(t) \/ Answer(t) \/ UpdateMinReviewCount(t)
    <3>1. Goto(t, NoRequest)
      BY <2>1 DEF DuplicateProvider, RejectRepeated, Commit, Answer, UpdateMinReviewCount, Respond
    <3>. QED
      BY <1>0, <3>1, IdleRequest
  <2>2. CASE InsertEntry(t)
    BY <2>2 DEF InsertEntry
  <2>3. CASE SetKey(t)
    <3>1. PICK k : Goto(t, [req[t] EXCEPT !.left = @ \ {k}])
      BY <2>3 DEF SetKey
    <3>2. req'[t].pc = req[t].pc
      BY <1>0, <3>1, RequestFields DEF Request
    <3>. QED
      BY <3>2
  <2>4. CASE ListTeammates(t)
    <3>1. PICK i \in req[t].ids :
              Goto(t, [req[t] EXCEPT !.ids = @ \ {i}, !.teammates = @ \union TeammatesOf(i)])
      BY <2>4 DEF ListTeammates
    <3>2. req'[t].pc = req[t].pc
      BY <1>0, <3>1, RequestFields DEF Request
    <3>. QED
      BY <3>2
  <2>5. CASE GetIntegration(t)
    <3>1. req'[t] = [req[t] EXCEPT !.pc = "update", !.token = rows[req[t].id].token]
      BY <1>0, <2>5 DEF GetIntegration
    <3>. QED
      BY <3>1, RequestFields DEF Request
  <2>6. CASE ListSpaces(t)
    <3>1. req'[t] = [req[t] EXCEPT !.pc = "delete",
                       !.entries = Kept(req[t].entries, lists["spaces"][req[t].id])]
      BY <1>0, <2>6 DEF ListSpaces
    <3>. QED
      BY <3>1, RequestFields DEF Request
  <2>7. CASE DeleteList(t) \/ ListIntegrations(t) \/ GetMinReviewCount(t) \/ UpdateTeammates(t)
    <3>1. \/ req'[t] = [req[t] EXCEPT !.pc = "insert"]
          \/ req'[t] = [req[t] EXCEPT !.pc = "teammates", !.ids = Listed]
          \/ req'[t] = [req[t] EXCEPT !.pc = "pushTeammates", !.min = MinReviewCount]
          \/ req'[t] = [req[t] EXCEPT !.pc = "pushMin"]
      BY <1>0, <2>7 DEF DeleteList, ListIntegrations, GetMinReviewCount, UpdateTeammates
    <3>. QED
      BY <3>1, RequestFields DEF Request
  <2>. QED
    BY <1>5, <2>1, <2>2, <2>3, <2>4, <2>5, <2>6, <2>7 DEF Handle
<1>. QED
  BY <1>2, <1>3, <1>4, <1>5

\* Failures are counted one by one.
LEMMA CountedHolds == Spec => [](failures \in Nat)
<1>1. Init => failures \in Nat
  <2>1. Init => failures = 0
    BY Zenon DEF Init
  <2>. QED
    BY <2>1
<1>2. failures \in Nat /\ [Next]_vars => (failures \in Nat)'
  <2>. SUFFICES ASSUME failures \in Nat, [Next]_vars PROVE failures' \in Nat
    OBVIOUS
  <2>1. ASSUME NEW t \in Tabs, Browse(t)
        PROVE  failures' = failures
    BY <2>1 DEF Browse, LoadPage, UpdateForm, CreateForm, SpacesForm, TeammatesForm,
                PrerequisitesForm, GeneralForm, WeightsForm, SyncButton, Send
  <2>2. ASSUME NEW t \in Tabs, Handle(t)
        PROVE  failures' = failures
    BY <2>2 DEF Handle, GetIntegration, UpdateIntegration, CreateIntegration, DuplicateProvider,
                ListSpaces, DeleteList, InsertEntry, RejectRepeated, Commit, SetKey, Answer,
                ListIntegrations, ListTeammates, GetMinReviewCount, UpdateTeammates,
                UpdateMinReviewCount
  <2>3. ASSUME NEW t \in Tabs, Fails(t)
        PROVE  failures' = failures + 1
    BY <2>3 DEF Fails
  <2>4. Crash => failures' = failures + 1
    BY DEF Crash
  <2>. QED
    <3>1. failures' = failures \/ failures' = failures + 1
      BY <2>1, <2>2, <2>3, <2>4 DEF Next, vars
    <3>. QED
      BY <3>1
<1>. QED
  BY <1>1, <1>2, PTL DEF Spec

\* Only a commit ends a transaction with success, and only the answer after
\* the last key a section.
LEMMA SucceedsBy ==
    ASSUME Inv, failures \in Nat, Next, NEW t \in Tabs, Succeeds(t)
    PROVE  \/ Commit(t) /\ req[t].pc = "insert"
           \/ Answer(t) /\ req[t].pc = "set" /\ ~req[t].failed
<1>1. /\ req[t].pc \in {"insert", "set"} /\ req'[t].pc = "idle" /\ failures' = failures
      /\ req[t].pc = "insert" => ~req[t].twice
      /\ req[t].pc = "set" => ~req[t].failed
  BY DEF Succeeds
<1>3. Handle(t) \/ Fails(t) \/ Crash
  BY <1>1, OneTab, Sent
<1>4. ~Fails(t) /\ ~Crash
  <2>1. failures' # failures + 1
    BY <1>1
  <2>. QED
    BY <2>1 DEF Fails, Crash
<1>5. ASSUME req[t].pc = "insert"
      PROVE  Commit(t)
  <2>1. InsertEntry(t) \/ RejectRepeated(t) \/ Commit(t)
    BY <1>3, <1>4, <1>5
       DEF Handle, GetIntegration, UpdateIntegration, CreateIntegration, DuplicateProvider,
           ListSpaces, DeleteList, SetKey, Answer, ListIntegrations, ListTeammates,
           GetMinReviewCount, UpdateTeammates, UpdateMinReviewCount
  <2>2. ~InsertEntry(t) /\ ~RejectRepeated(t)
    BY <1>1, <1>5 DEF InsertEntry, RejectRepeated
  <2>. QED
    BY <2>1, <2>2
<1>6. ASSUME req[t].pc = "set"
      PROVE  Answer(t)
  <2>1. SetKey(t) \/ Answer(t)
    BY <1>3, <1>4, <1>6
       DEF Handle, GetIntegration, UpdateIntegration, CreateIntegration, DuplicateProvider,
           ListSpaces, DeleteList, InsertEntry, RejectRepeated, Commit, ListIntegrations, ListTeammates,
           GetMinReviewCount, UpdateTeammates, UpdateMinReviewCount
  <2>2. ~SetKey(t)
    <3>. SUFFICES ASSUME SetKey(t) PROVE FALSE
      OBVIOUS
    <3>1. PICK k : Goto(t, [req[t] EXCEPT !.left = @ \ {k}])
      BY DEF SetKey
    <3>2. req'[t].pc = req[t].pc
      BY <3>1, RequestFields DEF Goto, Inv, Types, Request
    <3>. QED
      BY <1>1, <1>6, <3>2
  <2>. QED
    BY <2>1, <2>2
<1>. QED
  BY <1>1, <1>5, <1>6

\* A save nobody interferes with stores what its form posted, and all of it if
\* it is answered with success; an empty token field leaves the token, and a
\* space that stays keeps its board type (SavedAsPosted).
THEOREM SavesStoreForms == Spec => SavedAsPosted
<1>. DEFINE Integration(t) ==
              req[t].form = "integration" /\ req[t].pc # "refresh" /\ req'[t].pc = "refresh" =>
                rows'[req'[t].id] =
                    [provider |-> req[t].provider,
                     token |-> IF req[t].typed THEN req[t].token ELSE rows[req[t].id].token]
            List(t) ==
              Succeeds(t) /\ req[t].form \in Lists =>
                /\ NamesOf(lists'[req[t].form][req[t].id]) = NamesOf(req[t].entries)
                /\ \A e \in lists[req[t].form][req[t].id], f \in lists'[req[t].form][req[t].id] :
                      e.name = f.name => f.board = e.board
            Fields(t) ==
              Succeeds(t) /\ req[t].form \in {"general", "weights"} =>
                \A k \in DOMAIN req[t].values : settings'[k] = req[t].values[k]
<1>1. ASSUME Inv, failures \in Nat, Next, NEW t \in Tabs, Written(req[t])
      PROVE  Integration(t)
  <2>. SUFFICES ASSUME req[t].form = "integration", req[t].pc # "refresh", req'[t].pc = "refresh"
                PROVE  rows'[req'[t].id] =
                         [provider |-> req[t].provider,
                          token |-> IF req[t].typed THEN req[t].token ELSE rows[req[t].id].token]
    OBVIOUS
  <2>1. CASE UpdateIntegration(t)
    <3>1. /\ req'[t] = [req[t] EXCEPT !.pc = "refresh"] /\ req[t].pc = "update"
          /\ rows' = [rows EXCEPT ![req[t].id] = [provider |-> req[t].provider, token |-> req[t].token]]
      BY <1>1, <2>1 DEF UpdateIntegration, Goto, Inv, Types
    <3>2. req'[t].id = req[t].id
      BY <1>1, <3>1, RequestFields DEF Request
    <3>3. rows'[req[t].id] = [provider |-> req[t].provider, token |-> req[t].token]
      BY <1>1, <3>1, RequestFields DEF Inv, Types
    <3>4. req[t].token = IF req[t].typed THEN req[t].token ELSE rows[req[t].id].token
      BY <1>1, <3>1 DEF Written
    <3>. QED
      BY <3>2, <3>3, <3>4
  <2>2. CASE CreateIntegration(t)
    <3>1. PICK i \in Ids :
             /\ rows' = [rows EXCEPT ![i] = [provider |-> req[t].provider, token |-> req[t].token]]
             /\ Goto(t, [req[t] EXCEPT !.pc = "refresh", !.id = i])
      BY <2>2 DEF CreateIntegration
    <3>2. req'[t] = [req[t] EXCEPT !.pc = "refresh", !.id = i]
      BY <1>1, <3>1 DEF Goto, Inv, Types
    <3>3. req'[t].id = i
      BY <1>1, <3>2, RequestFields DEF Request
    <3>4. rows'[i] = [provider |-> req[t].provider, token |-> req[t].token]
      BY <1>1, <3>1 DEF Inv, Types
    <3>5. req[t].typed
      BY <1>1, <2>2, RequestFields DEF CreateIntegration, Shape
    <3>. QED
      BY <3>3, <3>4, <3>5
  <2>. QED
    BY <1>1, <2>1, <2>2, ToRefresh
<1>2. ASSUME Inv, failures \in Nat, Next, NEW t \in Tabs, Written(req[t])
      PROVE  List(t)
  <2>. SUFFICES ASSUME Succeeds(t), req[t].form \in Lists
                PROVE  /\ NamesOf(lists'[req[t].form][req[t].id]) = NamesOf(req[t].entries)
                       /\ \A e \in lists[req[t].form][req[t].id], f \in lists'[req[t].form][req[t].id] :
                             e.name = f.name => f.board = e.board
    OBVIOUS
  <2>1. Commit(t) /\ req[t].pc = "insert"
    <3>1. req[t].pc # "set"
      BY <1>1, <1>2, RequestFields DEF Shape, Lists
    <3>. QED
      BY <1>2, <3>1, SucceedsBy
  <2>2. PICK k, i, es : k = req[t].form /\ i = req[t].id /\ es = req[t].entries
    OBVIOUS
  <2>3. lists' = [lists EXCEPT ![k][i] = es] /\ k \in Lists /\ i \in Ids
    BY <1>2, <2>1, <2>2, RequestFields DEF Commit
  <2>4. lists'[k][i] = es
    BY <1>2, <2>3 DEF Inv, Types
  <2>. QED
    BY <1>2, <2>1, <2>2, <2>4 DEF Written
<1>3. ASSUME Inv, failures \in Nat, Next, NEW t \in Tabs, Written(req[t])
      PROVE  Fields(t)
  <2>. SUFFICES ASSUME Succeeds(t), req[t].form \in {"general", "weights"},
                       NEW k \in DOMAIN req[t].values
                PROVE  settings'[k] = req[t].values[k]
    OBVIOUS
  <2>1. Answer(t) /\ req[t].pc = "set" /\ ~req[t].failed
    <3>1. req[t].pc # "insert"
      BY <1>3, RequestFields DEF Shape, Lists
    <3>. QED
      BY <1>3, <3>1, SucceedsBy
  <2>. QED
    BY <1>3, <2>1 DEF Answer, db, Written
<1>. DEFINE Posted ==
              \A t \in Tabs : hist.alone[t] =>
                /\ req[t].form = "integration" /\ req[t].pc # "refresh" /\ req'[t].pc = "refresh" =>
                      rows'[req'[t].id] =
                          [provider |-> req[t].provider,
                           token |-> IF req[t].typed THEN req[t].token ELSE rows[req[t].id].token]
                /\ Succeeds(t) /\ req[t].form \in Lists =>
                      /\ NamesOf(lists'[req[t].form][req[t].id]) = NamesOf(req[t].entries)
                      /\ \A e \in lists[req[t].form][req[t].id], f \in lists'[req[t].form][req[t].id] :
                            e.name = f.name => f.board = e.board
                /\ Succeeds(t) /\ req[t].form \in {"general", "weights"} =>
                      \A k \in DOMAIN req[t].values : settings'[k] = req[t].values[k]
<1>4. Inv /\ AloneOK /\ failures \in Nat /\ [Next]_vars => [Posted]_vars
  BY <1>1, <1>2, <1>3 DEF AloneOK
<1>. QED
  BY <1>4, InvHolds, AloneHolds, CountedHolds, PTL DEF Spec, SavedAsPosted

-----------------------------------------------------------------------------
(* A Reload without failure or company                                     *)

\* s is the union of lists each of which was stored while the Reload ran;
\* those of ids are still to be read.
Gathered(mates, ids, s) ==
    \E read \in [Ids -> SUBSET Names] :
        /\ \A i \in Ids : IF i \in ids THEN read[i] = {} ELSE read[i] \in mates[i]
        /\ s = UNION {read[i] : i \in Ids}

\* How far the Reload of t has got.
Progress(t) ==
    /\ req[t].pc = "teammates" => Gathered(hist.mates, req[t].ids, req[t].teammates)
    /\ req[t].pc = "pushTeammates" => Gathered(hist.mates, {}, req[t].teammates)
    /\ req[t].pc = "pushMin" => Gathered(hist.mates, {}, fetcher.teammates)
    /\ req[t].pc \in {"pushTeammates", "pushMin"} => req[t].min \in hist.mins

\* While a Reload runs the history knows what is stored; a clean one is alone
\* and leaves what it has gathered.
ReloadOK ==
    /\ Reloading # {} => /\ MinReviewCount \in hist.mins
                         /\ \A i \in Ids : TeammatesOf(i) \in hist.mates[i]
    /\ hist.clean => \A t \in Reloading : Reloading = {t} /\ Progress(t)
    /\ hist.clean /\ Reloading = {} => /\ Gathered(hist.mates, {}, fetcher.teammates)
                                       /\ fetcher.min \in hist.mins /\ fetcher.min >= 1

\* What has been gathered stays so when more has been stored.
LEMMA GatheredGrows ==
    ASSUME NEW mates, NEW more, NEW ids, NEW s, Gathered(mates, ids, s),
           \A i \in Ids : mates[i] \subseteq more[i]
    PROVE  Gathered(more, ids, s)
<1>1. PICK read \in [Ids -> SUBSET Names] :
          /\ \A i \in Ids : IF i \in ids THEN read[i] = {} ELSE read[i] \in mates[i]
          /\ s = UNION {read[i] : i \in Ids}
  BY DEF Gathered
<1>2. \A i \in Ids : IF i \in ids THEN read[i] = {} ELSE read[i] \in more[i]
  BY <1>1
<1>. QED
  BY <1>1, <1>2 DEF Gathered

\* One more list.
LEMMA GatheredOneMore ==
    ASSUME NEW mates, NEW ids, NEW s, Gathered(mates, ids, s),
           NEW i \in Ids, i \in ids, NEW m \in SUBSET Names, m \in mates[i]
    PROVE  Gathered(mates, ids \ {i}, s \union m)
<1>1. PICK read \in [Ids -> SUBSET Names] :
          /\ \A j \in Ids : IF j \in ids THEN read[j] = {} ELSE read[j] \in mates[j]
          /\ s = UNION {read[j] : j \in Ids}
  BY DEF Gathered
<1>2. PICK next : next = [read EXCEPT ![i] = m]
  OBVIOUS
<1>3. next \in [Ids -> SUBSET Names] /\ next[i] = m /\ \A j \in Ids \ {i} : next[j] = read[j]
  BY <1>2
<1>4. \A j \in Ids : IF j \in ids \ {i} THEN next[j] = {} ELSE next[j] \in mates[j]
  BY <1>1, <1>3
<1>5. s \union m = UNION {next[j] : j \in Ids}
  <2>1. read[i] = {}
    BY <1>1
  <2>2. \A x : x \in s <=> \E j \in Ids : x \in read[j]
    BY <1>1
  <2>3. \A x : x \in UNION {next[j] : j \in Ids} <=> \E j \in Ids : x \in next[j]
    OBVIOUS
  <2>4. \A x : (\E j \in Ids : x \in next[j]) <=> x \in m \/ \E j \in Ids : x \in read[j]
    BY <1>3, <2>1
  <2>. QED
    BY <2>2, <2>3, <2>4
<1>. QED
  BY <1>3, <1>4, <1>5 DEF Gathered

\* At the beginning the lists to read are all that are not empty.
LEMMA GatheredNothing ==
    ASSUME NEW mates, NEW ids, \A i \in Ids \ ids : {} \in mates[i]
    PROVE  Gathered(mates, ids, {})
<1>1. PICK read \in [Ids -> SUBSET Names] : \A i \in Ids : read[i] = {}
  <2>. DEFINE read == [i \in Ids |-> {}]
  <2>1. read \in [Ids -> SUBSET Names] /\ \A i \in Ids : read[i] = {}
    OBVIOUS
  <2>. QED
    BY <2>1
<1>2. {} = UNION {read[i] : i \in Ids}
  BY <1>1
<1>. QED
  BY <1>1, <1>2 DEF Gathered

\* A step without failure is of one tab, and outside a Reload it changes the
\* fetcher not at all and can only go to the beginning of one.
LEMMA ReloadMoves ==
    ASSUME Inv, failures \in Nat, Next, failures' = failures
    PROVE  \E t \in Tabs :
             /\ \A u \in Tabs \ {t} : req'[u] = req[u]
             /\ \/ /\ req[t].pc \notin InReload /\ UNCHANGED fetcher
                   /\ req'[t].pc \in InReload => req'[t].pc = "refresh"
                \/ ListIntegrations(t) \/ ListTeammates(t) \/ GetMinReviewCount(t)
                \/ UpdateTeammates(t) \/ UpdateMinReviewCount(t)
<1>1. failures' # failures + 1
  OBVIOUS
<1>2. PICK t \in Tabs : (Browse(t) \/ Handle(t)) /\ \A u \in Tabs \ {t} : req'[u] = req[u]
  BY <1>1, OneTab DEF Crash, Fails
<1>3. "idle" \notin InReload /\ \A pc \in InReload : pc \notin {"get", "update", "create", "spaces", "delete", "insert", "set"}
  BY DEF InReload
<1>4. CASE Browse(t)
  <2>1. req[t].pc = "idle" /\ UNCHANGED fetcher
    BY <1>4, Sent
  <2>2. req' = req \/ Fresh(req'[t])
    BY <1>4, Sent
  <2>3. Fresh(req'[t]) /\ req'[t].pc \in InReload => req'[t].pc = "refresh"
    BY DEF Fresh, InReload
  <2>4. req'[t].pc \in InReload => req'[t].pc = "refresh"
    BY <1>3, <2>1, <2>2, <2>3
  <2>. QED
    BY <1>2, <1>3, <2>1, <2>4
<1>5. CASE Handle(t)
  <2>. DEFINE Early == {"get", "update", "create", "spaces", "delete", "insert", "set"}
              Later == Early \union {"idle", "refresh"}
  <2>1. ASSUME NEW r, Goto(t, r), r.pc \in Later
        PROVE  req'[t].pc \in Later
    BY <2>1 DEF Goto, Inv, Types
  <2>2. NoRequest.pc \in Later
    BY IdleRequest
  <2>3. CASE GetIntegration(t) \/ UpdateIntegration(t) \/ CreateIntegration(t)
    <3>1. UNCHANGED fetcher /\ req[t].pc \in Early
      BY <2>3 DEF GetIntegration, UpdateIntegration, CreateIntegration
    <3>2. ASSUME GetIntegration(t) PROVE req'[t].pc \in Later
      <4>1. [req[t] EXCEPT !.pc = "update", !.token = rows[req[t].id].token].pc \in Later
        BY RequestFields DEF Request
      <4>. QED
        BY <2>1, <3>2, <4>1 DEF GetIntegration
    <3>3. ASSUME UpdateIntegration(t) PROVE req'[t].pc \in Later
      <4>1. [req[t] EXCEPT !.pc = "refresh"].pc \in Later
        BY RequestFields DEF Request
      <4>. QED
        BY <2>1, <3>3, <4>1 DEF UpdateIntegration
    <3>4. ASSUME CreateIntegration(t) PROVE req'[t].pc \in Later
      <4>1. PICK i \in Ids : Goto(t, [req[t] EXCEPT !.pc = "refresh", !.id = i])
        BY <3>4 DEF CreateIntegration
      <4>2. [req[t] EXCEPT !.pc = "refresh", !.id = i].pc \in Later
        BY RequestFields DEF Request
      <4>. QED
        BY <2>1, <4>1, <4>2
    <3>5. req'[t].pc \in Later
      BY <2>3, <3>2, <3>3, <3>4
    <3>. QED
      BY <1>2, <1>3, <3>1, <3>5
  <2>4. CASE ListSpaces(t) \/ DeleteList(t) \/ SetKey(t)
    <3>1. UNCHANGED fetcher /\ req[t].pc \in Early
      BY <2>4 DEF ListSpaces, DeleteList, SetKey
    <3>2. ASSUME ListSpaces(t) PROVE req'[t].pc \in Later
      <4>1. [req[t] EXCEPT !.pc = "delete",
                !.entries = Kept(req[t].entries, lists["spaces"][req[t].id])].pc \in Later
        BY RequestFields DEF Request
      <4>. QED
        BY <2>1, <3>2, <4>1 DEF ListSpaces
    <3>3. ASSUME DeleteList(t) PROVE req'[t].pc \in Later
      <4>1. [req[t] EXCEPT !.pc = "insert"].pc \in Later
        BY RequestFields DEF Request
      <4>. QED
        BY <2>1, <3>3, <4>1 DEF DeleteList
    <3>4. ASSUME SetKey(t) PROVE req'[t].pc \in Later
      <4>1. PICK k \in req[t].left : Goto(t, [req[t] EXCEPT !.left = @ \ {k}])
        BY <3>4 DEF SetKey
      <4>2. [req[t] EXCEPT !.left = @ \ {k}].pc = req[t].pc
        BY RequestFields DEF Request
      <4>. QED
        BY <2>1, <3>1, <4>1, <4>2
    <3>5. req'[t].pc \in Later
      BY <2>4, <3>2, <3>3, <3>4
    <3>. QED
      BY <1>2, <1>3, <3>1, <3>5
  <2>5. CASE DuplicateProvider(t) \/ RejectRepeated(t) \/ Commit(t) \/ Answer(t)
    <3>1. UNCHANGED fetcher /\ req[t].pc \in Early /\ Goto(t, NoRequest)
      BY <2>5 DEF DuplicateProvider, RejectRepeated, Commit, Answer, Respond
    <3>. QED
      BY <1>2, <1>3, <2>1, <2>2, <3>1
  <2>6. CASE InsertEntry(t)
    <3>1. UNCHANGED fetcher /\ req[t].pc \in Early /\ req' = req
      BY <2>6 DEF InsertEntry
    <3>. QED
      BY <1>2, <1>3, <3>1
  <2>. QED
    BY <1>2, <1>5, <2>3, <2>4, <2>5, <2>6 DEF Handle
<1>. QED
  BY <1>2, <1>4, <1>5

\* What the history says after a step of a Reload that is clean so far.
LEMMA StillClean ==
    ASSUME Next
    PROVE  /\ hist'.clean => /\ failures' = failures
                             /\ Reloading = {} => hist.clean \/ Reloading' # {}
                             /\ Reloading # {} => hist.clean /\ Reloading' \subseteq Reloading
           /\ Reloading' = {} => hist'.mates = hist.mates /\ hist'.mins = hist.mins
           /\ Reloading' # {} => /\ MinReviewCount' \in hist'.mins
                                 /\ \A i \in Ids : TeammatesOf(i)' \in hist'.mates[i]
           /\ Reloading # {} => /\ hist.mins \subseteq hist'.mins
                                /\ Reloading' # {} =>
                                     \A i \in Ids : hist.mates[i] \subseteq hist'.mates[i]
<1>1. /\ hist'.clean = (/\ failures' = failures
                        /\ IF Reloading = {} THEN hist.clean \/ Reloading' # {}
                           ELSE hist.clean /\ Reloading' \subseteq Reloading)
      /\ hist'.mates = IF Reloading = {} /\ Reloading' # {} THEN [i \in Ids |-> {TeammatesOf(i)'}]
                       ELSE IF Reloading' # {} THEN [i \in Ids |-> hist.mates[i] \union {TeammatesOf(i)'}]
                       ELSE hist.mates
      /\ hist'.mins = IF Reloading = {} /\ Reloading' # {} THEN {MinReviewCount'}
                      ELSE IF Reloading' # {} THEN hist.mins \union {MinReviewCount'}
                      ELSE hist.mins
  BY DEF Next, Observe
<1>2. /\ Reloading = {} /\ Reloading' # {} => \A i \in Ids : hist'.mates[i] = {TeammatesOf(i)'}
      /\ Reloading # {} /\ Reloading' # {} =>
            \A i \in Ids : hist'.mates[i] = hist.mates[i] \union {TeammatesOf(i)'}
  BY <1>1
<1>. QED
  BY <1>1, <1>2

\* What the request of a Reload keeps when it has the list of integrations.
LEMMA ListedFields ==
    ASSUME Inv, NEW t \in Tabs, ListIntegrations(t)
    PROVE  req'[t].pc = "teammates" /\ req'[t].ids = Listed /\ req'[t].teammates = {}
<1>1. PICK pc \in Pcs : pc = "teammates"
  BY DEF Pcs, InReload
<1>2. PICK ids \in SUBSET Ids : ids = Listed
  BY DEF Listed
<1>3. PICK r \in Request : r = req[t]
  BY RequestFields
<1>4. req'[t] = [r EXCEPT !.pc = pc, !.ids = ids] /\ req[t].pc = "refresh"
  BY <1>1, <1>2, <1>3 DEF ListIntegrations, Goto, Inv, Types
<1>5. req[t].teammates = {}
  BY <1>4, RequestFields DEF Shape
<1>6. req'[t].pc = pc /\ req'[t].ids = ids /\ req'[t].teammates = r.teammates
  BY <1>4 DEF Request
<1>. QED
  BY <1>1, <1>2, <1>3, <1>5, <1>6

\* What it keeps when it has the minimum review count.
LEMMA MinFields ==
    ASSUME Inv, NEW t \in Tabs, GetMinReviewCount(t)
    PROVE  /\ req'[t].pc = "pushTeammates" /\ req'[t].min = MinReviewCount
           /\ req'[t].teammates = req[t].teammates
<1>1. PICK pc \in Pcs : pc = "pushTeammates"
  BY DEF Pcs, InReload
<1>2. PICK min \in Nat : min = MinReviewCount
  BY MinIsPositive
<1>3. PICK r \in Request : r = req[t]
  BY RequestFields
<1>4. req'[t] = [r EXCEPT !.pc = pc, !.min = min]
  BY <1>1, <1>2, <1>3 DEF GetMinReviewCount, Goto, Inv, Types
<1>5. req'[t].pc = pc /\ req'[t].min = min /\ req'[t].teammates = r.teammates
  BY <1>4 DEF Request
<1>. QED
  BY <1>1, <1>2, <1>3, <1>5

\* Every step keeps ReloadOK.
LEMMA ReloadStep == Inv /\ ReloadOK /\ failures \in Nat /\ [Next]_vars => ReloadOK'
<1>. SUFFICES ASSUME Inv, ReloadOK, failures \in Nat, [Next]_vars PROVE ReloadOK'
  OBVIOUS
<1>1. CASE UNCHANGED vars
  <2>1. UNCHANGED <<lists, settings, req, fetcher, hist>>
    BY <1>1 DEF vars, db
  <2>2. Reloading' = Reloading /\ MinReviewCount' = MinReviewCount
    BY <2>1 DEF Reloading, MinReviewCount
  <2>3. \A i \in Ids : TeammatesOf(i)' = TeammatesOf(i)
    BY <2>1 DEF TeammatesOf, NamesOf
  <2>4. \A t \in Tabs : Progress(t) => Progress(t)'
    BY <2>1 DEF Progress
  <2>5. Reloading \subseteq Tabs
    BY DEF Reloading
  <2>. QED
    BY <2>1, <2>2, <2>3, <2>4, <2>5 DEF ReloadOK
<1>2. CASE Next
  <2>1. Reloading' # {} => /\ MinReviewCount' \in hist'.mins
                           /\ \A i \in Ids : TeammatesOf(i)' \in hist'.mates[i]
    BY <1>2, StillClean
  <2>. SUFFICES ASSUME hist'.clean
                PROVE  /\ \A t \in Reloading' : Reloading' = {t} /\ Progress(t)'
                       /\ Reloading' = {} => /\ Gathered(hist'.mates, {}, fetcher'.teammates)
                                             /\ fetcher'.min \in hist'.mins /\ fetcher'.min >= 1
    BY <2>1 DEF ReloadOK
  <2>2. /\ failures' = failures
        /\ Reloading = {} => hist.clean \/ Reloading' # {}
        /\ Reloading # {} => hist.clean /\ Reloading' \subseteq Reloading
        /\ Reloading' = {} => hist'.mates = hist.mates /\ hist'.mins = hist.mins
        /\ Reloading # {} => /\ hist.mins \subseteq hist'.mins
                             /\ Reloading' # {} =>
                                  \A i \in Ids : hist.mates[i] \subseteq hist'.mates[i]
    BY <1>2, StillClean
  <2>3. PICK t \in Tabs :
          /\ \A u \in Tabs \ {t} : req'[u] = req[u]
          /\ \/ /\ req[t].pc \notin InReload /\ UNCHANGED fetcher
                /\ req'[t].pc \in InReload => req'[t].pc = "refresh"
             \/ ListIntegrations(t) \/ ListTeammates(t) \/ GetMinReviewCount(t)
             \/ UpdateTeammates(t) \/ UpdateMinReviewCount(t)
    BY <1>2, <2>2, ReloadMoves
  <2>4. \A u \in Tabs \ {t} : u \in Reloading' <=> u \in Reloading
    BY <2>3 DEF Reloading
  <2>5. CASE req[t].pc \notin InReload
    <3>1. UNCHANGED fetcher /\ (req'[t].pc \in InReload => req'[t].pc = "refresh")
      BY <2>3, <2>5 DEF ListIntegrations, ListTeammates, GetMinReviewCount, UpdateTeammates,
                        UpdateMinReviewCount, InReload
    <3>2. t \notin Reloading /\ Reloading \subseteq Tabs /\ Reloading' \subseteq Tabs
      BY <2>5 DEF Reloading
    <3>3. CASE Reloading = {} /\ Reloading' = {}
      BY <2>2, <3>1, <3>3 DEF ReloadOK
    <3>4. CASE Reloading = {} /\ Reloading' # {}
      <4>1. Reloading' = {t}
        BY <2>4, <3>2, <3>4
      <4>2. req'[t].pc = "refresh"
        BY <3>1, <4>1 DEF Reloading
      <4>. QED
        BY <4>1, <4>2 DEF Progress
    <3>5. CASE Reloading # {}
      <4>1. PICK u \in Tabs : Reloading = {u} /\ Progress(u) /\ u # t /\ hist.clean
        BY <2>2, <3>2, <3>5 DEF ReloadOK
      <4>2. Reloading' = {u} /\ req'[u] = req[u]
        BY <2>2, <2>3, <2>4, <4>1
      <4>3. Progress(u)'
        BY <2>2, <3>1, <4>1, <4>2, GatheredGrows DEF Progress
      <4>. QED
        BY <4>2, <4>3
    <3>. QED
      BY <3>3, <3>4, <3>5
  <2>6. CASE req[t].pc \in InReload
    <3>1. Reloading = {t} /\ Progress(t) /\ hist.clean
      BY <2>2, <2>6 DEF ReloadOK, Reloading
    <3>2. Reloading' \subseteq {t} /\ (t \in Reloading' <=> req'[t].pc \in InReload)
      BY <2>2, <3>1 DEF Reloading
    <3>3. /\ MinReviewCount \in hist.mins /\ \A i \in Ids : TeammatesOf(i) \in hist.mates[i]
      BY <3>1 DEF ReloadOK
    <3>4. ASSUME req'[t].pc \in InReload, Progress(t)' PROVE Reloading' = {t} /\ Progress(t)'
      BY <3>2, <3>4
    <3>5. Reloading' # {} => \A i \in Ids : hist.mates[i] \subseteq hist'.mates[i]
      BY <2>2, <3>1
    <3>6. hist.mins \subseteq hist'.mins
      BY <2>2, <3>1
    <3>7. CASE ListIntegrations(t)
      <4>2. req'[t].pc = "teammates" /\ req'[t].ids = Listed /\ req'[t].teammates = {}
        BY <3>7, ListedFields
      <4>3. \A i \in Ids \ Listed : {} \in hist'.mates[i]
        <5>1. \A i \in Ids \ Listed : lists["teammates"][i] = {}
          BY DEF Inv, ListsOK, Listed, Lists
        <5>2. \A i \in Ids \ Listed : TeammatesOf(i) = {}
          BY <5>1 DEF TeammatesOf, NamesOf
        <5>. QED
          BY <3>2, <3>3, <3>5, <4>2, <5>2 DEF InReload
      <4>4. Progress(t)'
        BY <4>2, <4>3, GatheredNothing DEF Progress
      <4>. QED
        BY <3>4, <4>2, <4>4 DEF InReload
    <3>8. CASE ListTeammates(t)
      <4>1. PICK i \in req[t].ids :
               req'[t] = [req[t] EXCEPT !.ids = @ \ {i}, !.teammates = @ \union TeammatesOf(i)]
        BY <3>8 DEF ListTeammates, Goto, Inv, Types
      <4>2. req[t].pc = "teammates" /\ i \in Ids
        BY <3>8, <4>1, RequestFields DEF ListTeammates
      <4>. PICK ids \in SUBSET Ids, all \in SUBSET Names :
               ids = req[t].ids \ {i} /\ all = req[t].teammates \union TeammatesOf(i)
        BY <4>2, RequestFields, TeammatesAreNames
      <4>. PICK r \in Request : r = req[t]
        BY RequestFields
      <4>9. req'[t] = [r EXCEPT !.ids = ids, !.teammates = all]
        BY <4>1
      <4>3. /\ req'[t].pc = "teammates" /\ req'[t].ids = req[t].ids \ {i}
            /\ req'[t].teammates = req[t].teammates \union TeammatesOf(i)
        BY <4>2, <4>9 DEF Request
      <4>4. Reloading' # {}
        BY <3>2, <4>3 DEF InReload
      <4>5. Gathered(hist'.mates, req[t].ids, req[t].teammates)
        BY <3>1, <3>5, <4>2, <4>4, GatheredGrows DEF Progress
      <4>6. TeammatesOf(i) \in hist'.mates[i] /\ TeammatesOf(i) \in SUBSET Names
        BY <3>3, <3>5, <4>2, <4>4, TeammatesAreNames
      <4>7. Gathered(hist'.mates, req[t].ids \ {i}, req[t].teammates \union TeammatesOf(i))
        BY <4>2, <4>5, <4>6, GatheredOneMore
      <4>8. Progress(t)'
        BY <4>3, <4>7 DEF Progress
      <4>. QED
        BY <3>4, <4>3, <4>8 DEF InReload
    <3>9. CASE GetMinReviewCount(t)
      <4>1. req[t].pc = "teammates" /\ req[t].ids = {}
        BY <3>9 DEF GetMinReviewCount
      <4>2. /\ req'[t].pc = "pushTeammates" /\ req'[t].min = MinReviewCount
            /\ req'[t].teammates = req[t].teammates
        BY <3>9, MinFields
      <4>3. Gathered(hist'.mates, {}, req[t].teammates)
        BY <3>1, <3>2, <3>5, <4>1, <4>2, GatheredGrows DEF Progress, InReload
      <4>4. Progress(t)'
        BY <3>3, <3>6, <4>2, <4>3 DEF Progress
      <4>. QED
        BY <3>4, <4>2, <4>4 DEF InReload
    <3>10. CASE UpdateTeammates(t)
      <4>1. /\ req'[t] = [req[t] EXCEPT !.pc = "pushMin"] /\ req[t].pc = "pushTeammates"
            /\ fetcher'.teammates = req[t].teammates
        BY <3>10 DEF UpdateTeammates, Goto, Inv, Types, Fetcher
      <4>2. req'[t].pc = "pushMin" /\ req'[t].min = req[t].min
        BY <4>1, RequestFields DEF Request
      <4>3. Gathered(hist'.mates, {}, fetcher'.teammates)
        BY <3>1, <3>2, <3>5, <4>1, <4>2, GatheredGrows DEF Progress, InReload
      <4>4. Progress(t)'
        BY <3>1, <3>6, <4>1, <4>2, <4>3 DEF Progress
      <4>. QED
        BY <3>4, <4>2, <4>4 DEF InReload
    <3>11. CASE UpdateMinReviewCount(t)
      <4>1. /\ req'[t] = NoRequest /\ req[t].pc = "pushMin"
            /\ fetcher'.teammates = fetcher.teammates /\ fetcher'.min = req[t].min
        BY <3>11 DEF UpdateMinReviewCount, Respond, Goto, Inv, Types, Fetcher
      <4>2. Reloading' = {}
        BY <3>2, <4>1, IdleRequest DEF InReload
      <4>3. req[t].min >= 1
        BY <4>1, RequestFields DEF Shape
      <4>. QED
        BY <2>2, <3>1, <4>1, <4>2, <4>3 DEF Progress
    <3>. QED
      BY <2>3, <2>6, <3>7, <3>8, <3>9, <3>10, <3>11
  <2>. QED
    BY <2>5, <2>6
<1>. QED
  BY <1>1, <1>2

\* After a Reload that had no failure and no other at its side the fetcher has
\* what was stored while it ran (LastReloadPushes).
THEOREM ReloadsPush == Spec => []LastReloadPushes
<1>1. Init => ReloadOK
  <2>. SUFFICES ASSUME Init PROVE ReloadOK
    OBVIOUS
  <2>1. req = [t \in Tabs |-> NoRequest] /\ hist = NoHistory
    BY Zenon DEF Init
  <2>2. Reloading = {}
    BY <2>1, IdleRequest DEF Reloading, InReload
  <2>3. ~hist.clean
    BY <2>1 DEF NoHistory
  <2>. QED
    BY <2>2, <2>3 DEF ReloadOK
<1>2. ReloadOK => LastReloadPushes
  <2>. SUFFICES ASSUME ReloadOK, Reloading = {}, hist.clean
                PROVE  /\ fetcher.min \in hist.mins /\ fetcher.min >= 1
                       /\ \E read \in [Ids -> SUBSET Names] :
                             /\ \A i \in Ids : read[i] \in hist.mates[i]
                             /\ fetcher.teammates = UNION {read[i] : i \in Ids}
    BY DEF LastReloadPushes
  <2>1. Gathered(hist.mates, {}, fetcher.teammates) /\ fetcher.min \in hist.mins /\ fetcher.min >= 1
    BY DEF ReloadOK
  <2>. QED
    BY <2>1 DEF Gathered
<1>. QED
  BY <1>1, <1>2, ReloadStep, InvHolds, CountedHolds, PTL DEF Spec

=============================================================================
