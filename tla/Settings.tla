------------------------------ MODULE Settings ------------------------------
(***************************************************************************)
(* The settings page: what its forms post, what the handlers of            *)
(* internal/web/handlers/settings.go make of them, the statements and      *)
(* transactions of the stores, and how Scheduler.refreshFetchers pushes    *)
(* teammates and the minimum review count into the GitHub fetcher.         *)
(*                                                                         *)
(* Browser tabs send requests at any time, so handlers interleave between  *)
(* their statements.  A form is filled from the page a tab loaded, which   *)
(* may be old.  Any statement may fail, and the process may be killed and  *)
(* started again.  A committed statement of one connection waits for the   *)
(* transaction of another (`writer`); readers see what is committed.       *)
(*                                                                         *)
(* `hist` is a history variable, read by no guard.                         *)
(***************************************************************************)
EXTENDS Integers, FiniteSetsExt

CONSTANTS
    Tabs, NoTab,        \* browser tabs
    Ids,                \* integration ids, 1..n, given in this order
    Earlier,            \* those an earlier session has given
    Providers,          \* "github", "jira"
    Tokens,             \* access tokens; "" is none
    Names,              \* what lists hold: user names, repositories
    Blank,              \* a row of a form whose fields are empty
    Boards,             \* board types, "" among them
    GeneralKeys, WeightKeys,    \* the settings and the category weights
    Lowest, Highest,    \* the range a key is clamped to
    Inputs,             \* the numbers a user may enter for a key
    Forms,              \* the forms users send
    MaxRequests,        \* bound: requests
    MaxFailures         \* bound: statements that fail, and crashes

Keys == GeneralKeys \union WeightKeys
Lists == {"spaces", "teammates", "prerequisites"}

ASSUME SettingsAssumption ==
    /\ NoTab \notin Tabs
    /\ Ids = 1..Cardinality(Ids) /\ 1 \in Ids
    /\ Earlier = 1..Cardinality(Earlier) /\ Earlier \subseteq Ids
    /\ "" \notin Providers /\ "" \notin Tokens /\ Blank \notin Names /\ "" \in Boards
    /\ "min_review_count" \in GeneralKeys
    /\ Lowest \in [Keys -> Nat] /\ Highest \in [Keys -> Nat]
    /\ Inputs \in [Keys -> SUBSET Nat]
    /\ Forms \subseteq Lists \union {"integration", "general", "weights", "sync"}
    /\ MaxRequests \in Nat /\ MaxFailures \in Nat

VARIABLES
    rows,       \* table integrations
    lists,      \* tables spaces, teammates and review_prerequisites
    settings,   \* tables settings and category_weights
    writer,     \* the tab whose transaction holds the write lock
    work,       \* what that transaction has inserted
    page,       \* the settings page each tab shows
    req,        \* the request of each tab
    fetcher,    \* the GitHub fetcher's teammates and minReviewCount
    hist,       \* history: see NoHistory
    requests, failures

db == <<rows, lists, settings>>
vars == <<db, writer, work, page, req, fetcher, hist, requests, failures>>

Entry == [name : Names \union {Blank}, board : Boards]
NoRow == [provider |-> "", token |-> ""]
NoPage == [open |-> FALSE, rows |-> [i \in Ids |-> NoRow],
           lists |-> [k \in Lists |-> [i \in Ids |-> {}]], settings |-> [k \in Keys |-> 0]]
NoRequest == [pc |-> "idle", form |-> "", id |-> 1, provider |-> "", token |-> "",
              typed |-> FALSE, entries |-> {}, twice |-> FALSE,
              values |-> [k \in {} |-> 0], left |-> {}, failed |-> FALSE,
              ids |-> {}, teammates |-> {}, min |-> 0]

InReload == {"refresh", "teammates", "pushTeammates", "pushMin"}
Reloading == {t \in Tabs : req[t].pc \in InReload}

-----------------------------------------------------------------------------
(* What is read                                                            *)

Listed == {i \in Ids : rows[i] # NoRow}

NamesOf(entries) == {e.name : e \in entries}

\* What refreshFetchers and main make of the stored text.
MinReviewCount == IF settings["min_review_count"] > 0 THEN settings["min_review_count"] ELSE 1

TeammatesOf(i) == NamesOf(lists["teammates"][i])

-----------------------------------------------------------------------------
(* History                                                                 *)

\* clean: the Reload that began last ran alone and without a failure;
\* mates, mins: what was stored while it ran.  alone: nobody else has
\* changed what a tab's request is about since it began.
NoHistory == [clean |-> FALSE, mates |-> [i \in Ids |-> {}], mins |-> {},
              alone |-> [t \in Tabs |-> FALSE]]

\* What a form is about.
Section(form, i) == CASE form \in Lists -> lists[form][i]
                      [] form = "general" -> [k \in GeneralKeys |-> settings[k]]
                      [] form = "weights" -> [k \in WeightKeys |-> settings[k]]
                      [] OTHER -> rows[i]

Observe ==
    hist' =
      [clean |-> /\ failures' = failures
                 /\ IF Reloading = {} THEN hist.clean \/ Reloading' # {}
                    ELSE hist.clean /\ Reloading' \subseteq Reloading,
       mates |-> IF Reloading = {} /\ Reloading' # {} THEN [i \in Ids |-> {TeammatesOf(i)'}]
                 ELSE IF Reloading' # {} THEN [i \in Ids |-> hist.mates[i] \union {TeammatesOf(i)'}]
                 ELSE hist.mates,
       mins |-> IF Reloading = {} /\ Reloading' # {} THEN {MinReviewCount'}
                ELSE IF Reloading' # {} THEN hist.mins \union {MinReviewCount'}
                ELSE hist.mins,
       alone |-> [t \in Tabs |->
           /\ req'[t].pc # "idle"
           /\ IF req[t].pc = "idle" THEN TRUE
              ELSE hist.alone[t] /\ (req'[t] = req[t] =>
                       Section(req[t].form, req[t].id)' = Section(req[t].form, req[t].id))]]

-----------------------------------------------------------------------------

\* A database of an earlier session, with at most one space, whose board
\* type somebody has set.
Init ==
    /\ rows \in [Ids -> {NoRow} \union [provider : Providers, token : Tokens \union {""}]]
    /\ Listed = Earlier
    /\ \A i, j \in Listed : i # j => rows[i].provider # rows[j].provider
    /\ \E spaces \in {{}} \union {{e} : e \in [name : Names, board : Boards \ {""}]} :
          lists = [k \in Lists |-> [i \in Ids |->
                      IF k = "spaces" /\ i = 1 /\ i \in Listed THEN spaces ELSE {}]]
    /\ settings = [k \in Keys |-> 1]
    /\ writer = NoTab /\ work = {}
    /\ page = [t \in Tabs |-> NoPage]
    /\ req = [t \in Tabs |-> NoRequest]
    /\ fetcher = [teammates |-> {}, min |-> MinReviewCount]
    /\ hist = NoHistory
    /\ requests = 0 /\ failures = 0

-----------------------------------------------------------------------------
(* The browser                                                             *)

\* GET /settings.  No form is filled from two of the queries of
\* buildPageData, so that they are one step.
LoadPage(t) ==
    /\ req[t].pc = "idle" /\ requests < MaxRequests
    /\ page' = [page EXCEPT ![t] = [open |-> TRUE, rows |-> rows, lists |-> lists,
                                    settings |-> settings]]
    /\ UNCHANGED <<db, writer, work, req, fetcher, requests, failures>>

\* A tab loads the page again before its next form: a second form of the
\* same page is that of a tab which loaded the page at the same time.
Send(t, form, r) ==
    /\ form \in Forms /\ requests < MaxRequests
    /\ req[t].pc = "idle"
    /\ req' = [req EXCEPT ![t] = [r EXCEPT !.form = form]]
    /\ page' = [page EXCEPT ![t] = NoPage]
    /\ requests' = requests + 1
    /\ UNCHANGED <<db, writer, work, fetcher, failures>>

\* What SaveIntegration makes of a form: an empty token of a row that is
\* there means the stored one.
SaveIntegration(i, provider, token, new) ==
    [NoRequest EXCEPT !.pc = IF new THEN "create" ELSE IF token = "" THEN "get" ELSE "update",
                      !.id = i, !.provider = provider, !.token = token,
                      !.typed = new \/ token # ""]

\* "Save": the token field of the form is empty, whatever is stored.
UpdateForm(t) ==
    \E i \in Ids, token \in Tokens \union {""} :
        /\ page[t].rows[i] # NoRow
        /\ Send(t, "integration", SaveIntegration(i, page[t].rows[i].provider, token, FALSE))

\* "Connect": there is no integration of the provider on the page.
CreateForm(t) ==
    \E p \in Providers, token \in Tokens \union {""} :
        /\ page[t].open /\ \A i \in Ids : page[t].rows[i].provider # p
        /\ Send(t, "integration", SaveIntegration(1, p, token, TRUE))

\* The rows of a list as the user leaves them: one name removed or none, by
\* emptying its field, and the empty row at the end filled or not.
Field(shown, removed, added) ==
    (shown \ removed) \union {added} \union (IF removed = {} THEN {} ELSE {Blank})

\* The entries of a form; the board type is not in it.
Entries(names) == {[name |-> n, board |-> ""] : n \in names}

\* SaveSpaces stores the empty rows as well.
SaveSpaces(i, names) ==
    [NoRequest EXCEPT !.pc = "spaces", !.id = i, !.entries = Entries(names)]

\* SaveTeammates skips them; a name entered again is there twice.
SaveTeammates(i, names, twice) ==
    [NoRequest EXCEPT !.pc = "delete", !.id = i, !.entries = Entries(names \ {Blank}),
                      !.twice = twice]

SavePrerequisites(i, names, twice) == SaveTeammates(i, names, twice)

SpacesForm(t) ==
    \E i \in Ids, added \in Names \union {Blank} :
        /\ page[t].rows[i] # NoRow
        /\ LET shown == NamesOf(page[t].lists["spaces"][i])
           IN  \E removed \in {{}} \union {{n} : n \in shown} :
                  Send(t, "spaces", SaveSpaces(i, Field(shown, removed, added)))

\* Only GitHub has teammates and prerequisites.
TeammatesForm(t) ==
    \E i \in Ids, added \in Names \union {Blank} :
        /\ page[t].rows[i].provider = "github"
        /\ LET shown == NamesOf(page[t].lists["teammates"][i])
           IN  \E removed \in {{}} \union {{n} : n \in shown} :
                  Send(t, "teammates", SaveTeammates(i, Field(shown, removed, added),
                                                     added \in (shown \ removed) \ {Blank}))

PrerequisitesForm(t) ==
    \E i \in Ids, added \in Names \union {Blank} :
        /\ page[t].rows[i].provider = "github"
        /\ LET shown == NamesOf(page[t].lists["prerequisites"][i])
           IN  \E removed \in {{}} \union {{n} : n \in shown} :
                  Send(t, "prerequisites", SavePrerequisites(i, Field(shown, removed, added),
                                                             added \in (shown \ removed) \ {Blank}))

Clamp(k, n) == IF n < Lowest[k] THEN Lowest[k] ELSE IF n > Highest[k] THEN Highest[k] ELSE n

\* All fields of a section are posted; they are written one by one.
SaveKeys(fields, keys) ==
    [NoRequest EXCEPT !.pc = "set", !.left = keys, !.values = [k \in keys |-> Clamp(k, fields[k])]]

\* An empty field is left out, except the feed columns, which are 0 then.
SaveGeneral(fields, emptied) == SaveKeys(fields, GeneralKeys \ (emptied \ {"feed_columns"}))

SaveWeights(fields, emptied) == SaveKeys(fields, WeightKeys \ emptied)

\* One of the fields changed or emptied.
GeneralForm(t) ==
    \E k \in GeneralKeys : \E n \in Inputs[k], emptied \in {{}, {k}} :
        /\ page[t].open
        /\ Send(t, "general", SaveGeneral([page[t].settings EXCEPT ![k] = IF emptied = {} THEN n ELSE 0],
                                          emptied))

WeightsForm(t) ==
    \E k \in WeightKeys : \E n \in Inputs[k], emptied \in {{}, {k}} :
        /\ page[t].open
        /\ Send(t, "weights", SaveWeights([page[t].settings EXCEPT ![k] = n], emptied))

\* The feed's Sync button, from any page.
SyncButton(t) == Send(t, "sync", [NoRequest EXCEPT !.pc = "refresh"])

-----------------------------------------------------------------------------
(* The handlers                                                            *)

Goto(t, r) == req' = [req EXCEPT ![t] = r]
Respond(t) == Goto(t, NoRequest)

\* GetIntegration: an empty token means the stored one.
GetIntegration(t) ==
    /\ req[t].pc = "get"
    /\ Goto(t, [req[t] EXCEPT !.pc = "update", !.token = rows[req[t].id].token])
    /\ UNCHANGED <<db, writer, work, page, fetcher, requests, failures>>

\* A statement of its own waits for the transaction of another connection.
UpdateIntegration(t) ==
    /\ req[t].pc = "update" /\ writer = NoTab
    /\ rows' = [rows EXCEPT ![req[t].id] = [provider |-> req[t].provider, token |-> req[t].token]]
    /\ Goto(t, [req[t] EXCEPT !.pc = "refresh"])
    /\ UNCHANGED <<lists, settings, writer, work, page, fetcher, requests, failures>>

\* Mutant: without the unique index.
CreateAgain(t) ==
    /\ req[t].pc = "create" /\ writer = NoTab
    /\ \E i \in Ids \ Listed :
          /\ rows' = [rows EXCEPT ![i] = [provider |-> req[t].provider, token |-> req[t].token]]
          /\ Goto(t, [req[t] EXCEPT !.pc = "refresh", !.id = i])
    /\ UNCHANGED <<lists, settings, writer, work, page, fetcher, requests, failures>>

\* A provider has one row: the unique index of migration 003.
CreateIntegration(t) ==
    /\ req[t].pc = "create" /\ writer = NoTab
    /\ \A i \in Listed : rows[i].provider # req[t].provider
    /\ \E i \in Ids \ Listed :
          /\ \A j \in Ids \ Listed : i <= j
          /\ rows' = [rows EXCEPT ![i] = [provider |-> req[t].provider, token |-> req[t].token]]
          /\ Goto(t, [req[t] EXCEPT !.pc = "refresh", !.id = i])
    /\ UNCHANGED <<lists, settings, writer, work, page, fetcher, requests, failures>>

\* "An integration for this provider already exists".
DuplicateProvider(t) ==
    /\ req[t].pc = "create" /\ writer = NoTab
    /\ \E i \in Listed : rows[i].provider = req[t].provider
    /\ Respond(t)
    /\ UNCHANGED <<db, writer, work, page, fetcher, requests, failures>>

\* A space that stays keeps what the form does not show.
Kept(entries, existing) ==
    {IF e.name \in NamesOf(existing) THEN CHOOSE x \in existing : x.name = e.name ELSE e :
        e \in entries}

ListSpaces(t) ==
    /\ req[t].pc = "spaces"
    /\ Goto(t, [req[t] EXCEPT !.pc = "delete",
                    !.entries = Kept(req[t].entries, lists["spaces"][req[t].id])])
    /\ UNCHANGED <<db, writer, work, page, fetcher, requests, failures>>

\* Mutant: the old rows are deleted outside the transaction.
DeleteAtOnce(t) ==
    /\ req[t].pc = "delete" /\ writer = NoTab
    /\ writer' = t /\ work' = {}
    /\ lists' = [lists EXCEPT ![req[t].form][req[t].id] = {}]
    /\ Goto(t, [req[t] EXCEPT !.pc = "insert"])
    /\ UNCHANGED <<rows, settings, page, fetcher, requests, failures>>

\* The first statement of a Replace transaction takes the write lock.
DeleteList(t) ==
    /\ req[t].pc = "delete" /\ writer = NoTab
    /\ writer' = t /\ work' = {}
    /\ Goto(t, [req[t] EXCEPT !.pc = "insert"])
    /\ UNCHANGED <<db, page, fetcher, requests, failures>>

InsertEntry(t) ==
    /\ req[t].pc = "insert"
    /\ \E e \in req[t].entries \ work : work' = work \union {e}
    /\ UNCHANGED <<db, writer, page, req, fetcher, requests, failures>>

\* UNIQUE(integration_id, github_username): a form that repeats a name.
RejectRepeated(t) ==
    /\ req[t].pc = "insert" /\ work = req[t].entries /\ req[t].twice
    /\ writer' = NoTab /\ work' = {}
    /\ Respond(t)
    /\ UNCHANGED <<db, page, fetcher, requests, failures>>

Commit(t) ==
    /\ req[t].pc = "insert" /\ work = req[t].entries /\ ~req[t].twice
    /\ lists' = [lists EXCEPT ![req[t].form][req[t].id] = work]
    /\ writer' = NoTab /\ work' = {}
    /\ Respond(t)
    /\ UNCHANGED <<rows, settings, page, fetcher, requests, failures>>

\* Set and SetCategoryWeight, in the order in which Go ranges over a map;
\* the answer comes after the last key.
SetKey(t) ==
    /\ req[t].pc = "set" /\ writer = NoTab
    /\ \E k \in req[t].left :
          /\ settings' = [settings EXCEPT ![k] = req[t].values[k]]
          /\ Goto(t, [req[t] EXCEPT !.left = @ \ {k}])
    /\ UNCHANGED <<rows, lists, writer, work, page, fetcher, requests, failures>>

Answer(t) ==
    /\ req[t].pc = "set" /\ req[t].left = {}
    /\ Respond(t)
    /\ UNCHANGED <<db, writer, work, page, fetcher, requests, failures>>

-----------------------------------------------------------------------------
(* Reload's refreshFetchers                                                *)

ListIntegrations(t) ==
    /\ req[t].pc = "refresh"
    /\ Goto(t, [req[t] EXCEPT !.pc = "teammates", !.ids = Listed])
    /\ UNCHANGED <<db, writer, work, page, fetcher, requests, failures>>

\* Mutant: the list of the last integration instead of all of them.
LastTeammates(t) ==
    /\ req[t].pc = "teammates"
    /\ \E i \in req[t].ids :
          /\ \A j \in req[t].ids : i <= j
          /\ Goto(t, [req[t] EXCEPT !.ids = @ \ {i}, !.teammates = TeammatesOf(i)])
    /\ UNCHANGED <<db, writer, work, page, fetcher, requests, failures>>

ListTeammates(t) ==
    /\ req[t].pc = "teammates"
    /\ \E i \in req[t].ids :
          /\ \A j \in req[t].ids : i <= j
          /\ Goto(t, [req[t] EXCEPT !.ids = @ \ {i}, !.teammates = @ \union TeammatesOf(i)])
    /\ UNCHANGED <<db, writer, work, page, fetcher, requests, failures>>

GetMinReviewCount(t) ==
    /\ req[t].pc = "teammates" /\ req[t].ids = {}
    /\ Goto(t, [req[t] EXCEPT !.pc = "pushTeammates", !.min = MinReviewCount])
    /\ UNCHANGED <<db, writer, work, page, fetcher, requests, failures>>

\* The fetcher's mutex makes each of the two updates one step, not both.
UpdateTeammates(t) ==
    /\ req[t].pc = "pushTeammates"
    /\ fetcher' = [fetcher EXCEPT !.teammates = req[t].teammates]
    /\ Goto(t, [req[t] EXCEPT !.pc = "pushMin"])
    /\ UNCHANGED <<db, writer, work, page, requests, failures>>

\* Reload starts the workers again, and the handler answers.
UpdateMinReviewCount(t) ==
    /\ req[t].pc = "pushMin"
    /\ fetcher' = [fetcher EXCEPT !.min = req[t].min]
    /\ Respond(t)
    /\ UNCHANGED <<db, writer, work, page, requests, failures>>

-----------------------------------------------------------------------------
(* Failures                                                                *)

\* Mutant: a key that was not written is not remembered.
ForgetFailure(t) == IF req[t].pc = "set" THEN req[t] ELSE NoRequest

\* What a handler does about a statement that fails.
AfterFailure(t) ==
    CASE req[t].pc = "set" -> [req[t] EXCEPT !.failed = TRUE]
      [] req[t].pc = "teammates" /\ req[t].ids = {} ->
            [req[t] EXCEPT !.pc = "pushTeammates", !.min = 1]
      [] OTHER -> NoRequest

\* Mutant: no deferred Rollback.
FailsInTransaction(t) ==
    /\ failures < MaxFailures
    /\ req[t].pc \notin {"idle", "pushTeammates", "pushMin", "set"}
    /\ Goto(t, AfterFailure(t))
    /\ failures' = failures + 1
    /\ UNCHANGED <<db, writer, work, page, fetcher, requests>>

\* The key that fails is skipped; a transaction is rolled back.
Fails(t) ==
    /\ failures < MaxFailures
    /\ req[t].pc \notin {"idle", "pushTeammates", "pushMin"}
    /\ \E skipped \in SUBSET req[t].left :
          /\ IF req[t].pc = "set" THEN Cardinality(skipped) = 1 ELSE skipped = {}
          /\ Goto(t, [AfterFailure(t) EXCEPT !.left = @ \ skipped])
    /\ IF writer = t THEN writer' = NoTab /\ work' = {} ELSE UNCHANGED <<writer, work>>
    /\ failures' = failures + 1
    /\ UNCHANGED <<db, page, fetcher, requests>>

\* Killed and started again: the requests are gone, a transaction is rolled
\* back, and main loads the fetcher's values and ignores every error.
Crash ==
    /\ failures < MaxFailures /\ failures' = failures + 1
    /\ req' = [t \in Tabs |-> NoRequest]
    /\ writer' = NoTab /\ work' = {}
    /\ \E read \in SUBSET Listed, min \in {1, MinReviewCount} :
          fetcher' = [teammates |-> UNION {TeammatesOf(i) : i \in read}, min |-> min]
    /\ UNCHANGED <<db, page, requests>>

-----------------------------------------------------------------------------

Browse(t) ==
    \/ LoadPage(t) \/ UpdateForm(t) \/ CreateForm(t)
    \/ SpacesForm(t) \/ TeammatesForm(t) \/ PrerequisitesForm(t)
    \/ GeneralForm(t) \/ WeightsForm(t) \/ SyncButton(t)

Handle(t) ==
    \/ GetIntegration(t) \/ UpdateIntegration(t) \/ CreateIntegration(t) \/ DuplicateProvider(t)
    \/ ListSpaces(t) \/ DeleteList(t) \/ InsertEntry(t) \/ RejectRepeated(t) \/ Commit(t)
    \/ SetKey(t) \/ Answer(t)
    \/ ListIntegrations(t) \/ ListTeammates(t) \/ GetMinReviewCount(t)
    \/ UpdateTeammates(t) \/ UpdateMinReviewCount(t)

Next ==
    /\ Crash \/ \E t \in Tabs : Browse(t) \/ Handle(t) \/ Fails(t)
    /\ Observe

Spec == Init /\ [][Next]_vars

\* A handler runs on; users need not do anything.
FairSpec == Spec /\ \A t \in Tabs : WF_vars(Handle(t) /\ Observe)

-----------------------------------------------------------------------------
(* Properties                                                              *)

\* Every variable has its type, and a provider has one row.
TypeOK ==
    /\ rows \in [Ids -> {NoRow} \union [provider : Providers, token : Tokens \union {""}]]
    /\ \A i, j \in Listed : i # j => rows[i].provider # rows[j].provider
    /\ lists \in [Lists -> [Ids -> SUBSET Entry]]
    /\ settings \in [Keys -> Nat]
    /\ writer \in Tabs \union {NoTab} /\ work \subseteq Entry
    /\ page \in [Tabs -> [open : BOOLEAN, rows : [Ids -> [provider : Providers \union {""},
                                                        token : Tokens \union {""}]],
                          lists : [Lists -> [Ids -> SUBSET Entry]], settings : [Keys -> Nat]]]
    /\ \A t \in Tabs :
          /\ req[t].id \in Ids /\ req[t].token \in Tokens \union {""}
          /\ req[t].entries \subseteq Entry /\ req[t].left \subseteq Keys
          /\ \A k \in DOMAIN req[t].values : k \in Keys /\ req[t].values[k] \in Nat
          /\ req[t].ids \subseteq Ids /\ req[t].teammates \subseteq Names /\ req[t].min \in Nat
          /\ writer = t <=> req[t].pc = "insert"
    /\ fetcher \in [teammates : SUBSET Names, min : Nat]

\* A list only ever changes to the whole of what one form posted: not to what
\* a transaction has written so far, and not to a mixture of two forms.
WholeLists ==
    [][\A k \in Lists, i \in Ids : lists'[k][i] # lists[k][i] =>
          \E t \in Tabs : /\ req[t].form = k /\ req[t].id = i
                          /\ lists'[k][i] = req[t].entries]_vars

\* After a Reload that had no failure and no other at its side, the fetcher
\* has the teammates of every integration, each list as it was at some time
\* while that Reload ran, and a minimum review count of that time: at least 1.
LastReloadPushes ==
    Reloading = {} /\ hist.clean =>
        /\ fetcher.min \in hist.mins /\ fetcher.min >= 1
        /\ \E read \in [Ids -> SUBSET Names] :
              /\ \A i \in Ids : read[i] \in hist.mates[i]
              /\ fetcher.teammates = UNION {read[i] : i \in Ids}

\* The request that ends was answered with success.
Succeeds(t) ==
    /\ req[t].pc # "idle" /\ req'[t].pc = "idle" /\ failures' = failures
    /\ \/ req[t].pc = "insert" /\ ~req[t].twice
       \/ req[t].pc = "set" /\ ~req[t].failed

\* A save nobody interfered with stores what its form posted, and all of it
\* if it is answered with success; an empty token field leaves the token, and
\* a space that stays keeps its board type.
SavedAsPosted ==
    [][\A t \in Tabs : hist.alone[t] =>
          /\ req[t].form = "integration" /\ req[t].pc # "refresh" /\ req'[t].pc = "refresh" =>
                rows'[req'[t].id] =
                    [provider |-> req[t].provider,
                     token |-> IF req[t].typed THEN req[t].token ELSE rows[req[t].id].token]
          /\ Succeeds(t) /\ req[t].form \in Lists =>
                /\ NamesOf(lists'[req[t].form][req[t].id]) = NamesOf(req[t].entries)
                /\ \A e \in lists[req[t].form][req[t].id], f \in lists'[req[t].form][req[t].id] :
                      e.name = f.name => f.board = e.board
          /\ Succeeds(t) /\ req[t].form \in {"general", "weights"} =>
                \A k \in DOMAIN req[t].values : settings'[k] = req[t].values[k]]_vars

\* In the end every request is answered: a writer gets its turn, and no
\* Reload hangs.
Answered == <>[](\A t \in Tabs : req[t].pc = "idle")

\* What the comment at settings.go:115 says of an empty token field, whoever
\* else saves: the row keeps the token it has.
BlankKeepsToken ==
    [][\A t \in Tabs :
          req[t].pc = "update" /\ req'[t].pc = "refresh" /\ ~req[t].typed =>
              rows'[req[t].id].token = rows[req[t].id].token]_vars

=============================================================================
