------------------------------- MODULE Pages --------------------------------
(***************************************************************************)
(* The feed and the detail pages as a user meets them: browser tabs, the   *)
(* requests their forms, links and timers send, the onboarding gate, and   *)
(* the handlers of internal/web/handlers/feed.go, pr.go and jira.go, which *)
(* read and post at GitHub and Jira and mark items in the store.           *)
(*                                                                         *)
(* A handler makes one call after the other (`pc` is the next); requests   *)
(* of different tabs, the polls of their feeds and the workers interleave  *)
(* between calls.  Any call may fail, a post also after it took effect,    *)
(* a browser may give up before the answer, and the process may be stopped *)
(* and started again between any two calls.                                *)
(*                                                                         *)
(* `log` numbers the requests users made; what a post wrote is known by    *)
(* the number of its request.                                              *)
(***************************************************************************)
EXTENDS Integers, Sequences, FiniteSets

CONSTANTS
    Tabs,           \* browser tabs
    Opened,         \* what tabs may show at first, each function a possibility
    Items,          \* item IDs
    Stored,         \* those in the table at first
    PRs, Issues,    \* pull requests and Jira issues: the detail pages
    Mine,           \* the pull requests of the user
    ThingOf,        \* the page of each item
    Rank,           \* the order of their scores: higher comes first
    Limit,          \* ListRanked's limit (200)
    MaxRequests,    \* bound: requests, polls not counted
    MaxFailures     \* bound: calls that fail, and timeouts

Things == PRs \union Issues
Views == Things \union {"feed", "error", "settings"}
Posts == {"comment", "review", "reviewers"}
Kinds == Posts \union {"home", "page", "dismiss", "seen"}

ASSUME PagesAssumption ==
    /\ Opened \subseteq [Tabs -> Views]
    /\ Stored \subseteq Items
    /\ PRs \intersect Issues = {} /\ Mine \subseteq PRs
    /\ Things \intersect {"feed", "error", "settings"} = {}
    /\ ThingOf \in [Items -> Things]
    /\ Rank \in [Items -> Nat]
    /\ \A i, j \in Items : Rank[i] = Rank[j] => i = j
    /\ Limit \in Nat /\ MaxRequests \in Nat /\ MaxFailures \in Nat

VARIABLES
    row,        \* the items table: "none", "live" or "dismissed"
    seen,       \* its rows with seen = 1
    configured, \* an enabled integration has an enabled space
    jira,       \* "client", or "noop" if none could be made when the process started
    tab,        \* what each tab shows
    poll,       \* the feed poll of each tab
    req,        \* the request a user of each tab waits for
    log,        \* those made so far, what each posted, whether it was dropped, its answer
    admitted,   \* history: those during which configured was TRUE
    failures

vars == <<row, seen, configured, jira, tab, poll, req, log, admitted, failures>>

NoCards == [i \in Items |-> 0]
NoPoll == [pc |-> "idle", items |-> {}]
NoRequest == [pc |-> "idle", kind |-> "", n |-> 0, item |-> {}, thing |-> {}, got |-> {},
              items |-> {}, comments |-> {}, card |-> FALSE]

-----------------------------------------------------------------------------
(* What is read                                                            *)

\* At most Limit items that are not dismissed, the highest scores first.
ListRanked ==
    LET live == {i \in Items : row[i] = "live"}
    IN  {i \in live : Cardinality({j \in live : Rank[j] > Rank[i]}) < Limit}

\* The comments of the application on a pull request or an issue.
Thread(x) ==
    {n \in DOMAIN log : log[n].kind = "comment" /\ log[n].thing = x /\ log[n].posted > 0}

\* The comments that were answered with success and posted nowhere.
Dropped(x) ==
    {n \in DOMAIN log : log[n].kind = "comment" /\ log[n].thing = x /\ log[n].dropped}

Grid(items) == [i \in Items |-> IF i \in items THEN 1 ELSE 0]

-----------------------------------------------------------------------------

\* Tabs show the feed or a detail page from an earlier session, also one
\* with a Jira client when this has none.
Init ==
    /\ row = [i \in Items |-> IF i \in Stored THEN "live" ELSE "none"] /\ seen = {}
    /\ configured \in BOOLEAN /\ jira \in {"client", "noop"}
    /\ \E view \in Opened :
          tab = [t \in Tabs |-> [view |-> view[t], comments |-> {},
                                 cards |-> IF view[t] = "feed" THEN Grid(ListRanked) ELSE NoCards]]
    /\ poll = [t \in Tabs |-> NoPoll]
    /\ req = [t \in Tabs |-> NoRequest]
    /\ log = <<>> /\ admitted = {}
    /\ failures = 0

Active(t) == req[t].pc # "idle"
Goto(t, r) == req' = [req EXCEPT ![t] = r]

-----------------------------------------------------------------------------
(* The calls of the handlers                                               *)

\* What a detail page fetches.
Reads(x) == IF x \in PRs THEN {"get", "comments", "reviews", "checks"} ELSE {"get", "comments"}

\* /items/ and /feed are exempt from the gate, / and the detail pages not.
First(kind) == IF kind \in {"dismiss", "seen"} THEN kind ELSE "gate"

\* As After, marking the items before everything is fetched.
AfterMarksFirst(kind, x, pc) ==
    CASE pc = "gate" -> IF kind = "page" THEN "get" ELSE IF kind = "home" THEN "list" ELSE "post"
      [] pc = "get" -> "mark"
      [] pc = "mark" -> "comments"
      [] pc = "comments" -> IF x \in PRs THEN "reviews" ELSE "reply"
      [] pc = "reviews" -> "checks"
      [] pc = "dismiss" -> "list"
      [] OTHER -> "reply"

\* What follows each call.
After(kind, x, pc) ==
    CASE pc = "gate" -> IF kind = "page" THEN "get" ELSE IF kind = "home" THEN "list" ELSE "post"
      [] pc = "get" -> "comments"
      [] pc = "comments" -> IF x \in PRs THEN "reviews" ELSE "mark"
      [] pc = "reviews" -> "checks"
      [] pc = "checks" -> "mark"
      [] pc = "dismiss" -> "list"
      [] OTHER -> "reply"

Advance(t) == [req[t] EXCEPT !.pc = After(req[t].kind, req[t].thing, req[t].pc)]
Error(t) == [req[t] EXCEPT !.pc = "error"]

-----------------------------------------------------------------------------
(* The user                                                                *)

Send(t, kind, item, thing) ==
    /\ Len(log) < MaxRequests /\ ~Active(t)
    /\ Goto(t, [NoRequest EXCEPT !.kind = kind, !.n = Len(log) + 1, !.item = item, !.thing = thing,
                                 !.pc = First(kind), !.card = TRUE])
    /\ log' = Append(log, [tab |-> t, kind |-> kind, thing |-> thing, posted |-> 0, dropped |-> FALSE,
                           answer |-> "none"])
    /\ UNCHANGED <<row, seen, configured, jira, tab, poll, failures>>

\* GET /, by the link of a detail page or by hand.
Home(t) == Send(t, "home", {}, {})

\* A card, the pill of a linked issue or pull request, or by hand.
OpenPage(t) == \E x \in Things : Send(t, "page", {}, x)

\* The dismiss button of a card, and a click on it.
ClickCard(t) ==
    \E i \in Items, kind \in {"dismiss", "seen"} :
        /\ tab[t].view = "feed" /\ tab[t].cards[i] > 0
        /\ Send(t, kind, i, {})

\* The forms of the page of a pull request: one for reviews of others' and
\* one for reviewers of one's own.
CommentForm(t) ==
    \E x \in PRs : tab[t].view = x /\ Send(t, "comment", {}, x)

ReviewForm(t) ==
    \E x \in PRs \ Mine : tab[t].view = x /\ Send(t, "review", {}, x)

ReviewersForm(t) ==
    \E x \in Mine : tab[t].view = x /\ Send(t, "reviewers", {}, x)

\* The form of the page of an issue.
IssueCommentForm(t) ==
    \E x \in Issues : tab[t].view = x /\ Send(t, "comment", {}, x)

-----------------------------------------------------------------------------
(* The server                                                              *)

\* As Gate, with the prefixes of the detail pages among the exempt ones.
GateExemptsPages(t) ==
    /\ req[t].pc = "gate"
    /\ Goto(t, IF configured \/ req[t].kind # "home" THEN Advance(t)
               ELSE [req[t] EXCEPT !.pc = "redirect"])
    /\ UNCHANGED <<row, seen, configured, jira, tab, poll, log, failures>>

\* The gate sends whoever has nothing configured to the settings page.
Gate(t) ==
    /\ req[t].pc = "gate"
    /\ Goto(t, IF configured THEN Advance(t) ELSE [req[t] EXCEPT !.pc = "redirect"])
    /\ UNCHANGED <<row, seen, configured, jira, tab, poll, log, failures>>

\* A call of the GitHub or the Jira client for a detail page.
Fetched(t) ==
    /\ Goto(t, [Advance(t) EXCEPT !.got = @ \union {req[t].pc},
                   !.comments = IF req[t].pc = "comments" THEN Thread(req[t].thing) ELSE @])
    /\ UNCHANGED <<row, seen, configured, jira, tab, poll, log, failures>>

FetchPR(t) ==
    /\ req[t].pc \in {"get", "comments", "reviews", "checks"} /\ req[t].thing \in PRs
    /\ Fetched(t)

\* The no-op client finds no issue, for which there is the error page.
FetchIssue(t) ==
    /\ req[t].pc \in {"get", "comments"} /\ req[t].thing \in Issues
    /\ \/ jira = "client" /\ Fetched(t)
       \/ /\ jira = "noop" /\ Goto(t, Error(t))
          /\ UNCHANGED <<row, seen, configured, jira, tab, poll, log, failures>>

\* MarkSeenByPR and MarkSeenByJiraKey: every item of the page there is by now.
MarkSeenByThing(t) ==
    /\ req[t].pc = "mark"
    /\ seen' = seen \union {i \in Items : row[i] # "none" /\ ThingOf[i] = req[t].thing}
    /\ Goto(t, Advance(t))
    /\ UNCHANGED <<row, configured, jira, tab, poll, log, failures>>

ReadFeed(t) ==
    /\ req[t].pc = "list"
    /\ Goto(t, [Advance(t) EXCEPT !.items = ListRanked])
    /\ UNCHANGED <<row, seen, configured, jira, tab, poll, log, failures>>

Dismiss(t) ==
    /\ req[t].pc = "dismiss"
    /\ row' = [row EXCEPT ![req[t].item] = "dismissed"]
    /\ Goto(t, Advance(t))
    /\ UNCHANGED <<seen, configured, jira, tab, poll, log, failures>>

MarkSeen(t) ==
    /\ req[t].pc = "seen"
    /\ seen' = seen \union {req[t].item}
    /\ Goto(t, Advance(t))
    /\ UNCHANGED <<row, configured, jira, tab, poll, log, failures>>

\* The request has taken effect at GitHub or Jira once more.
Posted(t) == [log EXCEPT ![req[t].n].posted = @ + 1]

\* A form without a body, a verdict or a name is refused before anything is
\* sent on.
SendOn(t) ==
    /\ req[t].pc = "post"
    /\ \/ log' = Posted(t) /\ Goto(t, Advance(t))
       \/ UNCHANGED log /\ Goto(t, Error(t))
    /\ UNCHANGED <<row, seen, configured, jira, tab, poll, failures>>

PostPRComment(t) == req[t].kind = "comment" /\ req[t].thing \in PRs /\ SendOn(t)

\* The no-op client reports success, and has posted nothing.
NoopPostComment(t) ==
    /\ req[t].pc = "post"
    /\ \/ log' = [log EXCEPT ![req[t].n].dropped = TRUE] /\ Goto(t, Advance(t))
       \/ UNCHANGED log /\ Goto(t, Error(t))
    /\ UNCHANGED <<row, seen, configured, jira, tab, poll, failures>>

PostIssueComment(t) ==
    /\ req[t].kind = "comment" /\ req[t].thing \in Issues
    /\ IF jira = "client" THEN SendOn(t) ELSE NoopPostComment(t)

SubmitReview(t) == req[t].kind = "review" /\ SendOn(t)
RequestReviewers(t) == req[t].kind = "reviewers" /\ SendOn(t)

-----------------------------------------------------------------------------
(* The browser                                                             *)

Answered(t, answer) == log' = [log EXCEPT ![req[t].n].answer = answer]

\* As Show, leaving the poll of the feed that was there.
ShowKeepsPoll(t, view, cards, comments, answer) ==
    /\ tab' = [tab EXCEPT ![t] = [view |-> view, cards |-> cards, comments |-> comments]]
    /\ Answered(t, answer)
    /\ Goto(t, NoRequest)
    /\ UNCHANGED <<row, seen, configured, jira, poll, failures>>

\* A page, served whole: what the tab did before is gone.
Show(t, view, cards, comments, answer) ==
    /\ tab' = [tab EXCEPT ![t] = [view |-> view, cards |-> cards, comments |-> comments]]
    /\ poll' = [poll EXCEPT ![t] = NoPoll]
    /\ Answered(t, answer)
    /\ Goto(t, NoRequest)
    /\ UNCHANGED <<row, seen, configured, jira, failures>>

FeedPage(t) ==
    /\ req[t].pc = "reply" /\ req[t].kind = "home"
    /\ Show(t, "feed", Grid(req[t].items), {}, "success")

PRPage(t) ==
    /\ req[t].pc = "reply" /\ req[t].kind = "page" /\ req[t].thing \in PRs
    /\ Show(t, req[t].thing, NoCards, req[t].comments, "success")

JiraPage(t) ==
    /\ req[t].pc = "reply" /\ req[t].kind = "page" /\ req[t].thing \in Issues
    /\ Show(t, req[t].thing, NoCards, req[t].comments, "success")

ErrorPage(t) ==
    /\ req[t].pc = "error" /\ req[t].kind \in {"home", "page"}
    /\ Show(t, "error", NoCards, {}, "error")

\* The settings page instead, also of what a form sends that was open
\* before the gate closed.
Redirect(t) ==
    /\ req[t].pc = "redirect"
    /\ Show(t, "settings", NoCards, {}, "error")

\* The grid in the answer to a dismissal takes the place of the card, inside
\* the grid that is there; of a card no longer there, nowhere.
InsertGrid(t) ==
    /\ req[t].pc = "reply" /\ req[t].kind = "dismiss"
    /\ tab' = [tab EXCEPT ![t].cards =
          IF ~req[t].card THEN @
          ELSE [i \in Items |-> @[i] + Grid(req[t].items)[i] - Grid({req[t].item})[i]]]
    /\ Answered(t, "success")
    /\ Goto(t, NoRequest)
    /\ UNCHANGED <<row, seen, configured, jira, poll, failures>>

\* CommentPartial at the end of the comments; other answers change nothing.
AppendPartial(t) ==
    /\ req[t].pc = "reply" /\ req[t].kind \in Posts \union {"seen"}
    /\ tab' = [tab EXCEPT ![t].comments = IF req[t].kind = "comment" THEN @ \union {req[t].n} ELSE @]
    /\ Answered(t, "success")
    /\ Goto(t, NoRequest)
    /\ UNCHANGED <<row, seen, configured, jira, poll, failures>>

\* As ShowError, appending the comment that was to be posted.
ShowErrorAppends(t) ==
    /\ req[t].pc = "error" /\ req[t].kind \notin {"home", "page"}
    /\ tab' = [tab EXCEPT ![t].comments = IF req[t].kind = "comment" THEN @ \union {req[t].n} ELSE @]
    /\ Answered(t, "error")
    /\ Goto(t, NoRequest)
    /\ UNCHANGED <<row, seen, configured, jira, poll, failures>>

\* An answer with an error status swaps nothing.
ShowError(t) ==
    /\ req[t].pc = "error" /\ req[t].kind \notin {"home", "page"}
    /\ Answered(t, "error")
    /\ Goto(t, NoRequest)
    /\ UNCHANGED <<row, seen, configured, jira, tab, poll, failures>>

-----------------------------------------------------------------------------
(* The poll of the feed: every few seconds, one at a time                  *)

SendPoll(t) ==
    /\ tab[t].view = "feed" /\ poll[t].pc = "idle"
    /\ poll' = [poll EXCEPT ![t].pc = "list"]
    /\ UNCHANGED <<row, seen, configured, jira, tab, req, log, failures>>

Fragment(t) ==
    /\ poll[t].pc = "list"
    /\ poll' = [poll EXCEPT ![t] = [pc |-> "reply", items |-> ListRanked]]
    /\ UNCHANGED <<row, seen, configured, jira, tab, req, log, failures>>

\* As SwapFeed, adding the grid to the feed (hx-swap="beforeend").
SwapFeedAppends(t) ==
    /\ poll[t].pc = "reply"
    /\ tab' = [tab EXCEPT ![t].cards = [i \in Items |-> @[i] + Grid(poll[t].items)[i]]]
    /\ poll' = [poll EXCEPT ![t] = NoPoll]
    /\ req' = [req EXCEPT ![t].card = FALSE]
    /\ UNCHANGED <<row, seen, configured, jira, log, failures>>

\* The new grid replaces all there is in the feed, the card whose dismissal
\* is under way included.
SwapFeed(t) ==
    /\ poll[t].pc = "reply"
    /\ tab' = [tab EXCEPT ![t].cards = Grid(poll[t].items)]
    /\ poll' = [poll EXCEPT ![t] = NoPoll]
    /\ req' = [req EXCEPT ![t].card = FALSE]
    /\ UNCHANGED <<row, seen, configured, jira, log, failures>>

-----------------------------------------------------------------------------
(* Failures                                                                *)

Fault == failures < MaxFailures /\ failures' = failures + 1

\* The calls that go to the no-op client, which never fails.
Noop(t) ==
    /\ jira = "noop" /\ req[t].thing \in Issues
    /\ req[t].pc \in {"get", "comments", "post"}

\* As CallFails, trying a post that failed once more.
CallFailsRetries(t) ==
    /\ req[t].pc \in {"gate", "get", "comments", "reviews", "checks", "mark", "list",
                    "dismiss", "seen", "post"}
    /\ ~Noop(t)
    /\ Goto(t, CASE req[t].pc = "mark" -> Advance(t)
                 [] req[t].pc = "post" -> req[t]
                 [] OTHER -> Error(t))
    /\ \/ UNCHANGED log
       \/ req[t].pc = "post" /\ log' = Posted(t)
    /\ Fault
    /\ UNCHANGED <<row, seen, configured, jira, tab, poll>>

\* The handler answers with an error, except that a detail page is served
\* all the same if its items could not be marked.  GitHub or Jira may have
\* carried out a post they did not confirm.
CallFails(t) ==
    /\ req[t].pc \in {"gate", "get", "comments", "reviews", "checks", "mark", "list",
                    "dismiss", "seen", "post"}
    /\ ~Noop(t)
    /\ Goto(t, IF req[t].pc = "mark" THEN Advance(t) ELSE Error(t))
    /\ \/ UNCHANGED log
       \/ req[t].pc = "post" /\ log' = Posted(t)
    /\ Fault
    /\ UNCHANGED <<row, seen, configured, jira, tab, poll>>

\* htmx gives up after 15 s, a user perhaps sooner: the context of the
\* request is cancelled with whatever it has not done yet.
GivesUp(t) ==
    /\ Active(t)
    /\ Answered(t, "none")
    /\ Goto(t, NoRequest)
    /\ Fault
    /\ UNCHANGED <<row, seen, configured, jira, tab, poll>>

PollFails(t) ==
    /\ poll[t].pc # "idle"
    /\ poll' = [poll EXCEPT ![t] = NoPoll]
    /\ Fault
    /\ UNCHANGED <<row, seen, configured, jira, tab, req, log>>

\* The process ends and starts again: what was under way is not answered.
\* Only the start decides between a Jira client and none.
Restart ==
    /\ jira' \in {"client", "noop"}
    /\ poll' = [t \in Tabs |-> NoPoll] /\ req' = [t \in Tabs |-> NoRequest]
    /\ Fault
    /\ UNCHANGED <<row, seen, configured, tab, log>>

-----------------------------------------------------------------------------
(* Others                                                                  *)

\* A worker stores an item it has fetched for the first time.
Upsert(i) ==
    /\ row[i] = "none"
    /\ row' = [row EXCEPT ![i] = "live"]
    /\ UNCHANGED <<seen, configured, jira, tab, poll, req, log, failures>>

\* The settings page: the first space, or none any more.
SaveSpaces ==
    /\ Len(log) < MaxRequests
    /\ configured' = ~configured
    /\ UNCHANGED <<row, seen, jira, tab, poll, req, log, failures>>

Handle(t) ==
    \/ Gate(t) \/ FetchPR(t) \/ FetchIssue(t) \/ MarkSeenByThing(t)
    \/ ReadFeed(t) \/ Dismiss(t) \/ MarkSeen(t)
    \/ PostPRComment(t) \/ PostIssueComment(t) \/ SubmitReview(t) \/ RequestReviewers(t)
    \/ FeedPage(t) \/ PRPage(t) \/ JiraPage(t) \/ ErrorPage(t) \/ Redirect(t)
    \/ InsertGrid(t) \/ AppendPartial(t) \/ ShowError(t)

Act(t) ==
    \/ Home(t) \/ OpenPage(t) \/ ClickCard(t)
    \/ CommentForm(t) \/ IssueCommentForm(t) \/ ReviewForm(t) \/ ReviewersForm(t)

Poll(t) == SendPoll(t) \/ Fragment(t) \/ SwapFeed(t)

Observe ==
    admitted' = {n \in DOMAIN log' :
                    n \in admitted \/ (configured' /\ \E t \in Tabs : req'[t].n = n)}

Next ==
    /\ \/ \E t \in Tabs : \/ Act(t) \/ Handle(t) \/ Poll(t)
                          \/ CallFails(t) \/ GivesUp(t) \/ PollFails(t)
       \/ \E i \in Items : Upsert(i)
       \/ SaveSpaces \/ Restart
    /\ Observe

Spec == Init /\ [][Next]_vars

\* The timers of open feeds go on and are answered.  What becomes of a
\* request, no property asks.
FairSpec == Spec /\ \A t \in Tabs : WF_vars(Poll(t) /\ Observe)

-----------------------------------------------------------------------------
(* Properties                                                              *)

\* Every variable has its type, and a tab shows only items there are.
TypeOK ==
    /\ row \in [Items -> {"none", "live", "dismissed"}]
    /\ seen \subseteq {i \in Items : row[i] # "none"} /\ configured \in BOOLEAN
    /\ jira \in {"client", "noop"}
    /\ \A t \in Tabs :
          /\ tab[t].view \in Views
          /\ tab[t].cards \in [Items -> Nat] /\ tab[t].comments \subseteq DOMAIN log
          /\ poll[t].pc \in {"idle", "list", "reply"} /\ poll[t].items \subseteq Items
          /\ poll[t].pc # "idle" => tab[t].view = "feed"
          /\ Active(t) => req[t].n \in DOMAIN log /\ log[req[t].n].tab = t
    /\ \A n \in DOMAIN log : log[n].kind \in Kinds /\ log[n].posted \in Nat
    /\ admitted \subseteq DOMAIN log

\* A comment, a review or a request for reviewers reaches GitHub or Jira at
\* most once for each time the user sends its form, whatever fails; it has
\* done so when the answer is a success, unless it was a comment on an issue
\* in a process without a Jira client.  That one is posted never.
PostedOnce ==
    \A n \in DOMAIN log :
        /\ log[n].posted <= 1
        /\ log[n].kind \in Posts /\ log[n].answer = "success" => log[n].posted = 1 \/ log[n].dropped
        /\ log[n].dropped => log[n].posted = 0 /\ log[n].kind = "comment" /\ log[n].thing \in Issues

\* "PostComment posts a Jira comment and returns a comment HTML partial"
\* (jira.go:82): what is answered with success has been posted.
SuccessIsPosted ==
    \A n \in DOMAIN log : log[n].kind \in Posts /\ log[n].answer = "success" => log[n].posted = 1

\* A detail page shows nothing of the application's that is not in the
\* thread, whose page it is, but what the same tab sent in vain in a process
\* without a Jira client; and it shows everything the same tab has posted
\* there with success.
PageTellsThread ==
    \A t \in Tabs : tab[t].view \in Things =>
        LET Own(S) == {n \in S : log[n].tab = t}
            x == tab[t].view
        IN  /\ tab[t].comments \subseteq Thread(x) \union Own(Dropped(x))
            /\ Own({n \in Thread(x) : log[n].answer = "success"}) \subseteq tab[t].comments

\* An item becomes seen by a click on its card, or for a page about which
\* everything the page shows has been fetched, whether or not the browser
\* still waits for it: never for one that fails.
SeenOnSuccess ==
    [][\A i \in seen' \ seen :
          \E t \in Tabs :
             \/ req[t].kind = "seen" /\ req[t].item = i
             \/ /\ req[t].kind = "page" /\ req[t].thing = ThingOf[i]
                /\ Reads(ThingOf[i]) \subseteq req[t].got]_vars

\* While nothing is configured nobody gets to a feed or a detail page, and
\* nothing is posted: only by requests during which something was.
GateHolds ==
    /\ \A n \in DOMAIN log : log[n].posted > 0 => n \in admitted
    /\ \A n \in DOMAIN log :
          log[n].kind \in {"home", "page"} /\ log[n].answer = "success" => n \in admitted

\* In the end every open feed shows the highest ranked items nobody has
\* dismissed, each once: answers that came late, or were swapped into the
\* wrong place, do not last.
FeedConverges == <>[](\A t \in Tabs : tab[t].view = "feed" => tab[t].cards = Grid(ListRanked))

=============================================================================
