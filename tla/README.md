# Verification of churndesk

churndesk is a single Go process with a SQLite database: it polls GitHub and
Jira for one user, turns pull requests, reviews, comments and issues into
*items*, scores them, and shows the ranked feed as a web page. This directory
holds TLA+ models of the parts where goroutines, requests, failures and
restarts interleave, the TLC runs that check them, and TLAPS proofs. `PROJECT.json`
maps every definition to the lines of source it stands for.

## The system

| Component | State | Operations | Called by, calls |
|---|---|---|---|
| Poll scheduler (`internal/app/scheduler.go`) | `s.ctx`, the map `s.cancels` from integration to cancel function, one goroutine per launch | `Start`, `Reload`, `SyncAll`, the loop of `startWorker` | `main`; `SaveIntegration` and the feed's Sync button call `Reload`/`SyncAll`; it calls the stores, the fetchers' setters and `Worker.RunOnce` |
| Sync cycle (`internal/app/worker.go`) | local: `syncStartedAt`, the fetched items; durable: `last_synced_at` | `RunOnce`: fetch, delete, upsert, mark | the poll goroutine |
| Item store (`adapter/sqlite/item_store.go`) | table `items` | `Upsert`, `Delete`, `Dismiss`, `MarkSeen`, `MarkSeenByPR`, `MarkSeenByJiraKey`, `RescoreAll`; reads `ListRanked` | sync cycle, handlers, Scorer |
| Scorer (`internal/app/scorer.go`) | none of its own | `RunOnce` at start and every 60 s | `main`; reads settings, weights, prerequisites, then `RescoreAll` |
| GitHub fetcher (`adapter/github/fetcher.go`) | teammates, `minReviewCount` under a mutex | `Fetch`, `UpdateTeammates`, `UpdateMinReviewCount` | sync cycle, `refreshFetchers` |
| Jira fetcher (`adapter/jira/fetcher.go`) | none | `Fetch` | sync cycle |
| Integration store (`adapter/sqlite/integration_store.go`) | tables `integrations`, `spaces`, `teammates`, `review_prerequisites` | create, update and list integrations, lists and their `Replace*` transactions, `UpdateLastSyncedAt`, `IsOnboardingComplete`; only tests call the others | everyone |
| Settings store (`adapter/sqlite/settings_store.go`) | tables `settings`, `category_weights` | `Get`, `Set`, `GetAll`, weights | handlers, Scorer, scheduler |
| Settings handlers (`web/handlers/settings.go`) | none | the page, one form handler per section, `Rescore` | browser; they call the stores and `Reload` |
| Feed, PR and Jira handlers (`web/handlers/`) | none | pages, the feed's poll, Dismiss, Seen, Sync, comments, reviews | browser; they call the stores and the API clients |
| Onboarding gate (`web/middleware.go`) | none | a redirect while no enabled integration has an enabled space | every request but those of `/settings`, `/static/`, `/items/`, `/feed` and `/sync` |
| API clients (`adapter/github/client.go`, `adapter/jira/client.go`) | none | listings page by page, details, posts | fetchers and handlers |
| Templates and `app.js` | the open tabs | forms, polls, what an answer replaces | user |
| Link store (`adapter/sqlite/link_store.go`) | table `pr_jira_links`, always empty: nothing calls `UpsertPRJiraLinks` | two lookups | PR and Jira pages |
| Migrations (`internal/db`) | table `schema_migrations` | `runMigrations` at start | `main` |
| Markdown, configuration, domain types | none | rendering, environment, declarations | - |

Hard behaviours: several goroutines poll, rescore and serve requests over one
database without a lock around their read-then-write sequences; `Reload` cancels
goroutines in the middle of a cycle and launches others from a fresh listing;
any database or API call may fail; the process may stop at any point and
resumes from `last_synced_at`; creation times come from another clock.

What makes each component correct:

* **Scheduler**: one poller per enabled integration and none that cannot be
  stopped, but for those lost in two ways that are named; none left out; each
  syncs for ever; shutdown ends all.
* **Sync cycle**: no comment is passed over, in whatever order cycles fail,
  overlap and restart, but for late ones and those a first sync or a slip in the
  listings kept from a cycle; each other comment reaches the feed.
* **Item store and Scorer**: score columns belong together; what the user did
  lasts; a stale rescore revives nothing and is made good.
* **GitHub and Jira fetchers**: what a Fetch reports held while it ran, and what
  held all along is reported, although lists, details and settings are read one
  after the other; what is warranted in the end is stored.
* **Settings and integrations**: a list is replaced whole or not at all; a save
  nobody interferes with stores what was posted; what a Reload gives the fetcher
  was stored while it ran; nobody waits for ever.
* **Pages**: nothing is posted twice or past the gate; a page tells what its tab
  has posted; items become seen for a page about which everything was fetched;
  feeds converge.

## Plan

Every module of the plan is here but one.

| | Module | Composes | Abstract specification | Theorems |
|---|---|---|---|---|
| A | `Scheduler` (with `Polling`) | calls, goroutines, cancel map | `Polling`: one known poller per integration, and strays that were replaced or forgotten | types, map, coverage, one poller, stop-all, refinement |
| B | `SyncCycle` (with `CommentFeed`) | cycles, listings that change, restarts | `CommentFeed`: no comment owed is passed over, and what is waived has a cause | types, no loss, refinement |
| C | `ItemStore` | upserts, clicks, two rescores, settings | - | types, consistency, marks, deletions |
| D1 | `GitHubItems` | what a Fetch reports of pull requests that change while it reads them | each item's condition, said of the present state | types, every report was so, what lasts is reported |
| D2 | `JiraItems` | the same for issues of sprints and searches | the same | types, every report was so, what lasts is reported |
| E, F | `Settings` | tabs, form handlers, transactions, crashes, `refreshFetchers` of overlapping Reloads | a form is saved as a whole | types, whole lists, saves as posted, last Reload |
| H | `Pages` | tabs, polls, gate, handlers, API calls that fail or come late, restarts with and without a Jira client, workers | - | types, posts, threads, gate, seen |

The plan also had a module for the migrations. It is not written: `runMigrations`
is one loop that ends before anything else starts, and each script commits in
one transaction with its record, so that no step of another actor and no crash
can come between the two. What is left for later is what the provers cannot
do, which the end of the chapter on proofs names.

## Modules and the code

### Scheduler, Polling

A call (`Start` or one `Reload`) launches at most one goroutine per integration,
so a worker is the pair of both. `call` is the position in `Start`/`Reload`,
`worker` the position in the goroutine of `startWorker`: first `ListSpaces`
(`spaces`), giving up (`drop`, between `cancel()` and the locked `delete`),
`RunOnce` (`sync`), the `select` (`select`). `cancels` is `s.cancels` with the worker a cancel
function belongs to, `cancelled` the workers whose function was called, `down`
the server context. Each critical section of `s.mu` and each database read is
one step. `SyncAll` is a `Reload` without a save. `enabled` only grows, as no
handler disables or deletes an integration.

`logged` is what the process has logged about the last start attempt of each
integration. `overlapped` and `stripped` are history variables: the calls that
launched while another one did, and the workers whose entry another worker
deleted when it gave up. A worker of such a call, or whose entry went, is `Lost`: the
map need not lead to it any more, so that a Reload may leave it running. No guard
reads one of the three.

### SyncCycle, CommentFeed

One integration, one kind of item: comments of others. `Post` is the world's
step; `Launch(w)` is a Reload, a manual sync or a restart of the process, which
cancels earlier goroutines and captures `mark`; `Begin`, `Fetch`, `Upsert`,
`UpdateLastSyncedAt`, `Fails`, `Aborts` are `RunOnce`. A comment belongs to a
conversation, the pull request or issue it is on, and a Fetch reaches it only
through the listings, which are read page by page and are shorter or longer by
the time the next page is read. `listed` are the conversations listed now in
which the user takes part. While a goroutine fetches, `sure` are those it cannot
miss: listed since it began, and not slipped past its reader (`Leave`, `Slip`);
`reach` are those it may read, with the ones that entered meanwhile (`Enter`).
`Fetch` reads every comment that was written before the cycle began in a
conversation it is sure of, and any of the others. `RunOnce` stores the mark
in either case; the history variable `missed` notes what it may have passed, and
`moved` the conversations that were ever out of a Fetch's sight.
How a listing slips past its reader, page by page, is in GitHubItems and JiraItems.

A cancelled goroutine may still complete the database call it is in, after its
successor has begun: `Upsert` and `UpdateLastSyncedAt` do not require `Live`.
Of the other items only `jira_new_bug` depends on the mark (JiraItems).

### ItemStore

Rows carry the columns that matter. `Upsert`, `Delete`, `Dismiss`, `Seen` (for
`MarkSeen`, `MarkSeenByPR`, `MarkSeenByJiraKey`) and `WriteScores` are the
statements and transactions of the store; `ReadSettings`, `ReadWeights`,
`ReadPrerequisites`, `ReadRows` are the separate queries of a rescore. What
`RescoreAll` computes between its read and its write is local to it, so the
scores are computed in the step that reads the rows. `RunOnce` deletes what a
fetcher flags, and no fetcher of today flags anything: `Delete` models the
store's and the worker's support for it, which the worker's tests exercise.

### GitHubItems

`open`, `reviews`, `head`, `failing`, `commented` are GitHub, where anybody may
open, close, review, dismiss, push, rerun a check or comment between any two
requests. `teammates` and `minReviewCount` are the fetcher's fields. `pc` names
the request that comes next and `got` holds the local variables of `Fetch` and
`processPR`: the settings copied by `Begin`, the page, the pull requests listed
and not yet done (each with the head commit it was listed with), the one in
hand, its reviews and whether a check of that commit failed. `ListPRComments` is
the last request of a pull request, so it gathers that one's items (`ProcessPR`) in `batch`. `Upsert` is the
rest of `RunOnce`, `Fails` its early return: any request that fails ends the
Fetch without items. The order within a page is left open. Listed pull requests
come in pages of `PageSize`, newest first, as `ListPRsForRepo` asks for them;
the other lists are read as one page.

`Holds` and `Stands` are the reference: they say an item's condition of the
present state, by quantifiers over reviews, where the code folds a list into a
map. `seen` is a history variable, updated in every step and read by no guard:
the items whose condition has held under the Fetch's settings, those whose
condition has always held, the heads there were, the pull requests that were open at
some time and all the time, and those that were closed while their space was listed.

### JiraItems

`sprint`, `active`, `assignee` and `comments` are Jira, where anybody may move,
assign and comment on issues, and start or complete sprints, between any two
requests. Of a scrum space a Fetch reads the active sprints (`ListSprints`),
then of each sprint a page of issue keys (`SprintIssues`) and each of these
issues by itself (`GetIssue`), which is how `GetActiveSprintIssues` does it; of
a kanban space it reads pages of a search with the issues on them
(`SearchIssues`). A page is found by its offset in a result that changes
between two pages. The order of the issues is fixed, so that a page shifts when
an issue leaves the list before it, not when somebody ranks issues anew. `ProcessIssue` gives the types of items an issue warrants as it is
read, `HoldsFor` says the same by sets, as the reference. One board per space is
modelled, and lists of a space are disjoint: an issue is in one sprint.

A space without a board type is an error of the whole Fetch (`StartSpace`), also
for the spaces after and before it. Nothing in the code stores a board type, so
the runs start from databases in which somebody has set it, or not. `Reported`
says what remains true then: nothing is stored at all.

`accountID` is what the issue's display names are compared with. `Created` and
the `new` of a comment are relative to the one `LastSyncedAt` of the goroutine;
`Relaunch` is the Reload that gives a goroutine the mark of a first sync. A bug
that is older than the mark when it enters a sprint is never reported as new
(`fetcher.go:85`): the condition is about its creation.

### Settings

`rows`, `lists` and `settings` are the tables, `page` what each tab was served
and `req` the request it waits for: `pc` is the statement that comes next, the
other fields are the handler's variables. Forms are built from `page`, which may
be old, with at most one field changed by the user; what a template does not put
into a form (board types, the token) is not in it, and what the user cannot reach
(an integration the page does not show) is not posted. `SaveIntegration`,
`SaveSpaces`, `SaveTeammates`, `SavePrerequisites`, `SaveGeneral` and
`SaveWeights` are what each handler makes of its form before its first statement.

A statement outside a transaction is one step, and waits while another
connection's transaction holds the write lock (`writer`). A `Replace*`
transaction is its delete (`DeleteList`, which takes the lock), one insert per
entry (`InsertEntry`, into `work`, which no one else sees), and `Commit`, the
rollback of a repeated name (`RejectRepeated`) or of a failure (`Fails`).
`Set` is called key by key (`SetKey`) and goes on after an error.

`ListIntegrations` to `UpdateMinReviewCount` are `refreshFetchers`: each list is a
query of its own, and the fetcher's two setters are two critical sections.
`Crash` ends all requests and loads the fetcher as `main` does, which ignores
errors. What `Reload` does to goroutines is in Scheduler; nothing here depends on
it. `hist` is a history variable: for each request whether anybody else changed
what it is about since it began, and for Reloads the values stored while they ran.

### Pages

`tab` is what each tab shows, `poll` the poll of its feed, `req` the request a
user waits for, `log` every request made, with how often it took effect at GitHub
or Jira (`posted`) and what the browser was told. A comment is known by the
number of its request. `First` and `After` give the order of the calls of every
handler: the gate, the fetches of a detail page, the mark, the listing, the post.
`Gate`, `FetchPR`, ..., `RequestReviewers` are these calls, `FeedPage` to
`ShowError` what the browser does with the answer. The answer to a dismissal is a
grid that takes the place of one card (`InsertGrid`, the card's hx-swap), so that
cards can appear twice until the next poll replaces everything (`SwapFeed`).

`CallFails` is an error of any call: a post may have taken effect nevertheless,
and a page whose items could not be marked is served all the same. `GivesUp` is
the 15 s of `app.js`, or a user who leaves: the context is cancelled and the
handler stops. `Upsert` and `SaveSpaces` are the workers and the settings page.

`jira` says what the process has for Jira: a client, or the no-op one `main` puts
in its place when none could be made at the start (`main.go:53-58`, `78-83`,
`170-181`). The no-op client never fails (`Noop`), fetches nothing, so that an issue
page is answered as an error, and reports success for a comment it has posted
nowhere (`NoopPostComment`, noted in `dropped`). `Restart` ends the process and
starts it again, with either. Tabs outlive it, so they may show from the beginning
what an earlier session served (`Opened`).

## Runs

| Run | Question | Result |
|---|---|---|
| `Scheduler` | Start and 2 Reloads overlapping, failing listings, a provider without fetcher: is the map true, is every integration covered, is a second poller or one that a Reload leaves running always `Lost`, is `Polling` implemented, do stopped pollers exit and the others keep syncing? | holds |
| `SchedulerStaleDelete` | Reloads one after the other: does a Reload stop all? | **violated** |
| `SyncCycle` | 3 launches, 2 comments, a clock that trails, a failure, a listing that changes: does the mark pass an unshown comment for another reason than the three that are named, and does every comment reach the feed or get lost for one of them? | holds |
| `SyncFirst` | is only the first sync suppressed? | **violated** |
| `Items` | two rescores among syncs, saves, clicks and failures: consistent scores, lasting marks, no revival, and fresh scores once writes pause? | holds |
| `GitHubItems` | did all that a Fetch reports hold during it, is all that held throughout reported, and is what is warranted in the end stored? | holds |
| `JiraItems` | the same of issues in sprints and searches | holds |
| `JiraOthers` | is only the user's work reported as assigned to the user? | **violated** |
| `Settings` | two tabs and a crash: whole lists, saves as posted, a Reload that pushes what is stored, an answer to everyone? | holds |
| `SettingsToken` | does an empty token field keep the token? | **violated** |
| `Pages` | two tabs, failing and late calls, restarts with and without a Jira client: posts once, threads told, gate held, seen only for pages that were fetched, feeds that converge? | holds |
| `PagesNoJira` | is a comment that is answered with success posted? | **violated** |

What the violations show:

* `SchedulerStaleDelete`: Reload 1 launches a worker; Reload 2 cancels it while
  it lists its spaces and launches another; the first fails on its dead context
  and deletes the entry of the second (`scheduler.go:90`). Reload 3 finds nothing
  to cancel.
* `SyncFirst`: the loop passes the row captured at launch to each cycle, so a
  goroutine launched before the first sync suppresses comments until it is
  relaunched, while `last_synced_at` moves past them.
* `JiraOthers`: no form posts an account ID, so it is stored empty, and the client
  gives an issue nobody is assigned to an empty name: the two are equal
  (`fetcher.go:70`), and unassigned issues are reported as the user's.
* `SettingsToken`: a save with an empty token field reads the stored token; another
  save stores a new one; the first writes back what it read (`settings.go:129`).
* `PagesNoJira`: the process is restarted and cannot make a Jira client; a comment
  sent from an issue page that is still open is answered with success
  (`main.go:181`, `jira.go:92-105`) and appended to the page, and posted nowhere.

What else shows in these models, without a run of its own:

* `Start` publishes the context, a Reload lists and launches, then `Start`
  launches too: `startWorker` overwrites the entry without cancelling
  (`scheduler.go:75`), and the first goroutine runs until the shutdown. Two
  Reloads at once do the same. `OnePollerPerIntegration` and `ReloadStopsAll`
  except such goroutines (`Lost`), and TLC finds them when they do not.
* A Fetch that misses a pull request or an issue, because a listing changed
  between two pages, succeeds: `RunOnce` stores the mark (`worker.go:56`). The
  goroutine reports its comments on a later cycle, as it keeps the mark it was
  launched with, but one launched after that does not any more.
* `Upsert` resets `prerequisites_met` and the scores of known rows
  (`item_store.go:44`); `EventuallyFresh` shows that the next rescore repairs it.
* A pull request is approved and upserted, then the approval is dismissed: later
  Fetches leave the item out and never flag one as deleted, so `RunOnce` has
  nothing to delete (`worker.go:37`).
* One space without a board type blocks the items of all spaces of its
  integration on every cycle (`jira/fetcher.go:56`).

Exceptions inside the properties, each of which TLC finds at once when it is
taken out: `ReportsWhatLasts` of GitHubItems and of JiraItems excuses what slips
between two pages because something before it left the list while that list was
read (`Shifted`); what enters a list, leaves it earlier or later, or leaves another
one, excuses nothing. The next Fetch finds what slipped, as `Reported` shows,
but for the comments, once a Reload or a restart has captured the mark: that is
why `NoneSkipped` excuses what a cycle was not sure to have read (`missed`), beside
comments whose creation time trails the local clock (`Late`). A first sync counts
as such a cycle for all comments. `EveryCommentShown` says that these are the
only ones lost in the end.
`ReportsWhatHeld` claims less than a reader may expect: the condition, the list and its being live may each be true at a different moment of
the Fetch, and a failed check may be of a commit that a push has since replaced.
`LastReloadPushes` is about a Reload with no other at its side: of two, the older
values may be pushed last. `SavedAsPosted` is about saves with nobody else
changing the same section, and says nothing of a crash or a failure that is
answered as such. `PostedOnce` counts each submission of a form: who submits
again after a timeout has posted twice. It and `PageTellsThread` excuse what the
no-op Jira client dropped. `SeenOnSuccess` is about what was fetched: items stay
seen when the browser gives up, or the process ends, between the mark and the page.

### Bounds

Scheduler: the races found need Start and two Reloads; pollers of different integrations
share only the calls and the map, hence two integrations, one of them without a
fetcher. SyncCycle: three launches give two cancelled goroutines with late writes;
two comments and three launches put one comment before or during a cycle and one
after it, and a creation time one behind the clock is on the other side of a mark
(`MaxLag = 1`). One conversation may be missed once (`MaxMoves = 1`), and so may be
passed over or found by the next cycle; one failure is at any call. What happens to
one conversation does not depend on another: a cycle has one mark for all.
SyncFirst needs one goroutine, three comments, one clock and listings that stay.
ItemStore: one PR item, which needs prerequisites
and approvals (an issue is scored like a PR item that needs none), one reviewer, two weights, one hour
(an age of zero, at the limit of the boost or not), two age settings, one with a
multiplier of zero, two integrations, so that prerequisites are really a union,
two changes (a creation and a deletion, or an upsert over an existing row), one
failure, two rescores at a time. GitHubItems: one pull
request of the user and one of a teammate cover both branches of the
classification; on pages of one they are listed in two requests, after a first
space that has none. Two changes give a review and its dismissal, a push and a
failed check, or two reviewers who disagree, placed anywhere in or between
Fetches. Thresholds of one and two approvals lie on both sides of what two
changes can reach. JiraItems: two issues that share the lists of one space and one
of another, two sprints, pages of one, so that an issue can shift to an earlier
page; both kinds of boards and a space that has none, in either order; two
changes and a failure at any request. Settings: two tabs, each request of any form
with any change of one field; two requests are what any race of two handlers
needs, a third integration id leaves room for both to create one, one failure is a statement or a crash.
Pages: two tabs with any two requests and one failure or restart; a page of somebody
else's pull request, of one's own and of an issue; two items and a feed of one
(`Limit`), so that a dismissal brings another one up. One tab starts with an issue
page of an earlier session, so that a comment can be the first request and a page that
reads its thread, or a post after the configuration has gone, the second; the
other tab starts with that page or the feed. One item is stored (`Stored`), the
other may come. No run uses symmetry. The runs that check deadlock off are those
where the bounded system legitimately stops.

### Fairness

Scheduler: every step of a goroutine that has begun (weak fairness), never the
requests or the signal. The ticker fires for ever; Go's `select` picks at random
among ready channels, so `Exit` is weakly fair on its own; the model allows a tick
only while the worker is not stopped. Database calls and syncs return: queries
have a busy timeout of 5 s and the GitHub client a timeout of 30 s. SyncCycle:
each goroutine's steps, and some launch. ItemStore: the Scorer's steps for ever,
a request's once it has begun. GitHubItems and JiraItems: the steps of the sync
cycle, which the poll loop begins again and again. Settings: the steps of each
request's handler, none of the users': an http.Server runs every handler in a
goroutine of its own. Pages: only the polls of open feeds, which a timer of the
browser sends again and again. Failures are finitely many in the runs (`MaxFailures`, or
`DBErrors = FALSE`), which is what "as long as failures end" means.

## Proofs

Each proof module EXTENDS the component's module; the theorems hold for all
values of the constants that satisfy the modules' named assumptions.

* `SchedulerProofs`: types; `RegisteredIsRunning`; `Covered`;
  `OnePollerPerIntegration`; and `ReloadStopsAll`, for calls that overlap in any way.
  `Covered` is not inductive: the strengthening says what a call that is under
  way still owes to each integration, which is that it is yet to be listed, in
  some call's `todo`, live, or excused by a logged error. For the last two the
  invariant is `Tracked`: a live worker is the one in the map, or `Lost`. It
  needs that two calls that launch at the same time are both in `overlapped`
  (`LaunchersOverlap`), that nothing is launched before Start
  (`NothingBeforeStart`), and that an entry a launching call finds in the map, if
  not its own, is of a call that overlapped (`EntriesOfOthers`).
* `SchedulerRefinement`: `Spec => Abstract!Spec`, without restriction, step by step:
  each action of `Scheduler` is an action of `Polling` or changes neither `poll`,
  `stray` nor `over`. Overwriting an entry is `Replace`, the deferred delete of
  another's entry `Forget`.
* `SyncCycleProofs`: types; `NoneSkipped`; and `ImplementsFeed`, for any number of
  launches, conversations, comments, moves and failures, and clocks however far
  apart. The invariant relates each goroutine's `base`, `began`, `sure` and `batch` to
  `shown`: everything up to `base` is shown, missed or late, and what was written
  between `base` and `began` in a conversation of `sure` is in the batch, or shown
  by the time the mark is written. For the refinement, `Sight` adds that what a
  cycle under way is not sure of is in `moved`.
* `ItemStoreProofs`: types, `ScoresConsistent`, `UserMarksLast`,
  `OnlyUpsertCreates`, for any number of concurrent rescores. The invariant adds
  that the scores a rescore is about to write are consistent; one lemma says what
  any writer may do to a row (`RowStep`), and the three properties follow from it.
* `GitHubItemsProofs`: types, `ReportsWhatHeld` and `ReportsWhatLasts`, for any
  number of pull requests, users, spaces and changes, and any page size. `CollapsedIsLast`
  relates the folded map to the last review of each user (by the well-foundedness
  of `<`, as `Max` picks the last position), and `ReviewsClassified` what
  `processPR` makes of a list to the conditions in the state it was read in. The
  invariant is about what was read and not yet reported (`ReadHeld`): a listed
  pull request was open with its head commit in a state of this Fetch, and once
  its reviews are read, every type they give is noted in `seen.held`. For
  `ReportsWhatLasts` it says of each item that has held all along, on a pull request
  that has stayed open, that it is reported, shifted, or still ahead (`Coming`): in
  a space or on a page to come, in the queue, or being read with its type found or
  its request outstanding (`ReadLasts`). The page is found by counting, as a pull
  request lies behind at most the newer ones that were seen open (`NewerSeen`), and
  these are all there when a page is read, or one was closed and it is shifted. A
  failed check lasts only without a push, since a new head has no checks yet; so
  the head that was listed is the one whose checks failed (`HeadsListed`).
* `JiraItemsProofs`: types, `ReportsWhatHeld` and `ReportsWhatLasts`, for any
  number of issues, spaces and sprints, and any page size. The invariant (`Reading`) says what a Fetch knows
  of the lists it has yet to read from: the sprints that are left were active when
  they were listed (`Ran`), and the keys on a page were in their sprint when it was
  read, each noted in `seen`; so that an issue that is read later, and may have
  moved since, is reported of a list it was in during this Fetch. For
  `ReportsWhatLasts` the invariant (`Coming`) says of each item that has held all
  along, on an issue that has stayed in a live list, that it is in the batch, was
  shifted, or is `Ahead`: its space, sprint, page or turn is still to come. What
  makes this inductive is a count: the offset never exceeds the number of issues
  before it that were seen in its list (`EarlierSeen`), and these are all there
  when a page is read, or one has left and it is shifted.
* `SettingsProofs`: types, `WholeLists`, `SavedAsPosted` and `LastReloadPushes`, for
  any number of tabs, integrations, names, keys, requests and failures. `Inv` says
  what a handler holds at each statement (`Shape`), that the row it is about is
  there (`AboutRow`), and that lists name nobody twice and belong to rows
  (`ListsOK`); without the last a space that stays could find two board types to
  keep. `AloneOK` relates a request nobody has interfered with to what it has written
  so far (`Written`): its `Section` changes by its own steps only. `ReloadOK` says
  of a Reload without company that its teammates are a union of lists noted in
  `hist` (`Gathered`), the unread ones being empty.
* `PagesProofs`: types, `PostedOnce`, `PageTellsThread`, `GateHolds` and
  `SeenOnSuccess`, for any number of tabs, items, pages, requests and failures. The
  invariant says of every request under way which entry of the log is its own and
  that nobody else's is (`Matches`), what the stage it has reached entails
  (`StageOK`: past the gate it is admitted, before the post nothing is posted,
  after it one is, before the mark everything was fetched), what a thread that was
  read but not yet shown lacks (`Tells`), and of the entries nobody works on any
  more what was true when they were answered (`LogOK`). What a user sends is posted or
  dropped at most once (`Done`), also across a `Restart`. The proof rests on one
  observation: a step of one tab leaves the others `Untouched` and the log only
  `Grows`, so one lemma carries everybody else's part over, and each class of
  actions needs only a lemma about its own tab.

Only model-checked: liveness (`StoppedExits`, `KeepsSyncing`, `EveryCommentShown`,
`EventuallyFresh`, `Reported`, `Answered`, `FeedConverges`), which needs fairness
and `ENABLED`; and the violations. Of the fetchers' assumptions one is there for
the proofs only: there are finitely many pull requests and issues, so that what is
counted has a number.

## Not modelled

Link store: its table is empty in every state of the program. Migrations: see the
plan. Domain types, Markdown, configuration and routing keep no state. Markup,
texts and badges of the templates, toasts and animations of `app.js`, and the
metadata attached to items (titles, links, avatars) are data no property is about;
`ExtractJiraKeys` computes some that nothing uses. The operations only tests call
are left out: `ListBoards`, `Count`, `DeleteIntegration` and the stores' operations
on single spaces, teammates and prerequisites. Settings are numbers: `ParseFloat`
also accepts NaN and infinities, which `PROJECT.json` lists as a hazard.
Writes of SQLite are serialised by the database; a statement or a transaction is
one step everywhere but in Settings, where a transaction's statements are steps.
A busy timeout shows as a failure.
