---------------------------- MODULE PagesProofs ----------------------------
(***************************************************************************)
(* Proofs about Pages for any number of tabs, items, pages and requests.   *)
(***************************************************************************)
EXTENDS Pages, SequenceTheorems, TLAPS

-----------------------------------------------------------------------------
(* The invariant                                                           *)

Stages == {"idle", "gate", "get", "comments", "reviews", "checks", "mark", "list",
           "dismiss", "seen", "post", "reply", "redirect", "error"}
Calls == {"get", "comments", "reviews", "checks"}
View == [view : Views, cards : [Items -> Nat], comments : SUBSET Nat]
PollState == [pc : {"idle", "list", "reply"}, items : SUBSET Items]
Request == [pc : Stages, kind : Kinds \union {""}, n : Nat, item : Items \union {{}},
            thing : Things \union {{}}, got : SUBSET Calls, items : SUBSET Items,
            comments : SUBSET Nat, card : BOOLEAN]
Entry == [tab : Tabs, kind : Kinds, thing : Things \union {{}}, posted : Nat,
          dropped : BOOLEAN, answer : {"none", "success", "error"}]

Types ==
    /\ row \in [Items -> {"none", "live", "dismissed"}]
    /\ configured \in BOOLEAN /\ jira \in {"client", "noop"}
    /\ tab \in [Tabs -> View]
    /\ poll \in [Tabs -> PollState]
    /\ req \in [Tabs -> Request]
    /\ log \in Seq(Entry)
    /\ failures \in Nat

\* A request belongs to its entry in the log and its tab.
Matches(t) ==
    LET r == req[t] IN
    /\ r.n \in DOMAIN log
    /\ log[r.n].tab = t /\ log[r.n].kind = r.kind /\ log[r.n].thing = r.thing
    /\ log[r.n].answer = "none"
    /\ r.kind \in {"seen", "dismiss"} => r.item \in Items /\ row[r.item] # "none"
    /\ r.kind = "dismiss" /\ r.card => tab[t].cards[r.item] > 0
    /\ r.kind \in Posts \union {"page"} => r.thing \in Things
    /\ r.kind = "comment" => tab[t].view = r.thing

\* How often the request of an entry has been posted or dropped.
Done(e) == e.posted + (IF e.dropped THEN 1 ELSE 0)

\* How far the request r has got, which was posted or dropped p times and
\* let through if `in` is TRUE.
StageOK(r, p, in) ==
    /\ r.kind = "seen" => r.pc \in {"seen", "reply", "error"}
    /\ r.kind = "dismiss" => r.pc \in {"dismiss", "list", "reply", "error"}
    /\ r.kind = "home" => r.pc \in {"gate", "list", "reply", "redirect", "error"}
    /\ r.kind \in Posts => r.pc \in {"gate", "post", "reply", "redirect", "error"}
    /\ r.kind = "page" => r.pc \in Calls \union {"gate", "mark", "reply", "redirect", "error"}
    /\ r.kind \in Posts /\ r.pc \in {"gate", "post"} => p = 0
    /\ r.kind \in Posts /\ r.pc = "reply" => p = 1
    /\ r.kind \in Posts \union {"home", "page"} /\ r.pc \notin {"gate", "redirect", "error"} => in
    /\ r.pc \in {"reviews", "checks"} => r.thing \in PRs
    /\ r.pc \in {"comments", "reviews", "checks"} => "get" \in r.got
    /\ r.pc \in {"reviews", "checks"} => "comments" \in r.got
    /\ r.pc = "checks" => "reviews" \in r.got
    /\ r.kind = "page" /\ r.pc \in {"mark", "reply"} => Reads(r.thing) \subseteq r.got

ReqOK(t) ==
    req[t].pc # "idle" =>
        Matches(t) /\ StageOK(req[t], Done(log[req[t].n]), req[t].n \in admitted)

\* The comments tab t sent to no one.
Vain(t, x) == {n \in Dropped(x) : log[n].tab = t}

\* What has been read of a thread, or is shown of it, is as PageTellsThread says.
Tells(t, x, comments) ==
    /\ comments \subseteq Thread(x) \union Vain(t, x)
    /\ \A n \in Thread(x) : log[n].tab = t /\ log[n].answer = "success" => n \in comments

TabOK(t) ==
    /\ poll[t].pc # "idle" => tab[t].view = "feed"
    /\ tab[t].comments \subseteq DOMAIN log
    /\ \A i \in Items : tab[t].cards[i] > 0 => row[i] # "none"
    /\ \A i \in req[t].items \union poll[t].items : row[i] # "none"
    /\ tab[t].view \in Things => Tells(t, tab[t].view, tab[t].comments)
    /\ req[t].pc # "idle" /\ "comments" \in req[t].got => Tells(t, req[t].thing, req[t].comments)

LogOK(n) ==
    /\ Done(log[n]) <= 1
    /\ log[n].kind \in Posts /\ log[n].answer = "success" => Done(log[n]) = 1
    /\ log[n].dropped => log[n].kind = "comment" /\ log[n].thing \in Issues
    /\ log[n].posted > 0 => n \in admitted
    /\ log[n].kind \in {"home", "page"} /\ log[n].answer = "success" => n \in admitted

Inv ==
    /\ Types
    /\ seen \subseteq {i \in Items : row[i] # "none"}
    /\ admitted \subseteq DOMAIN log
    /\ \A t \in Tabs : TabOK(t) /\ ReqOK(t)
    /\ \A n \in DOMAIN log : LogOK(n)

-----------------------------------------------------------------------------
(* Lemmas about records and grids                                          *)

(* A grid has each item at most once.                                        *)
LEMMA GridType ==
    ASSUME NEW S \in SUBSET Items
    PROVE  /\ Grid(S) \in [Items -> Nat]
           /\ \A i \in Items : Grid(S)[i] = IF i \in S THEN 1 ELSE 0
BY DEF Grid

(* The next call of a request, and what stays as it was.                     *)
LEMMA Advanced ==
    ASSUME NEW t \in Tabs, req[t] \in Request
    PROVE  /\ Advance(t) \in Request
           /\ Advance(t).pc = After(req[t].kind, req[t].thing, req[t].pc)
           /\ Advance(t).kind = req[t].kind /\ Advance(t).n = req[t].n
           /\ Advance(t).item = req[t].item /\ Advance(t).thing = req[t].thing
           /\ Advance(t).got = req[t].got /\ Advance(t).items = req[t].items
           /\ Advance(t).comments = req[t].comments /\ Advance(t).card = req[t].card
<1> DEFINE pc == After(req[t].kind, req[t].thing, req[t].pc)
<1>1. pc \in Stages
  BY DEF After, Stages
<1>2. Advance(t) = [req[t] EXCEPT !.pc = pc]
  BY DEF Advance
<1> HIDE DEF pc
<1>3. /\ [req[t] EXCEPT !.pc = pc] \in Request
      /\ [req[t] EXCEPT !.pc = pc].pc = pc
  BY <1>1 DEF Request
<1> QED BY <1>2, <1>3 DEF Request, pc

(* A request that ends early.                                                *)
LEMMA Ended ==
    ASSUME NEW t \in Tabs, req[t] \in Request, NEW pc \in {"error", "redirect"}
    PROVE  LET r == [req[t] EXCEPT !.pc = pc] IN
           /\ r \in Request /\ r.pc = pc
           /\ r.kind = req[t].kind /\ r.n = req[t].n
           /\ r.item = req[t].item /\ r.thing = req[t].thing
           /\ r.got = req[t].got /\ r.items = req[t].items
           /\ r.comments = req[t].comments /\ r.card = req[t].card
BY DEF Request, Stages

(* A tab without a request.                                                  *)
LEMMA NoRequestType == NoRequest \in Request /\ NoRequest.pc = "idle" /\ NoRequest.items = {}
BY DEF NoRequest, Request, Stages

(* A request that goes on leaves those of other tabs.                        *)
LEMMA Gone ==
    ASSUME Types, NEW t \in Tabs, NEW r \in Request, Goto(t, r)
    PROVE  /\ req' \in [Tabs -> Request] /\ req'[t] = r
           /\ \A u \in Tabs : u # t => req'[u] = req[u]
BY DEF Types, Goto

(* What is in the log is an entry.                                           *)
LEMMA EntryOf ==
    ASSUME NEW l \in Seq(Entry), NEW n \in DOMAIN l
    PROVE  l[n] \in Entry /\ l[n].posted \in Nat /\ l[n].dropped \in BOOLEAN
<1>1. l[n] \in Entry
  OBVIOUS
<1> QED BY <1>1 DEF Entry

(* Each call leads a request to its next stage.                              *)
LEMMA NextStage ==
    ASSUME NEW r \in Request, NEW q \in Request, NEW p, NEW in \in BOOLEAN,
           StageOK(r, p, in), r.kind \in Kinds,
           r.pc \notin {"idle", "reply", "redirect", "error"},
           q.pc = After(r.kind, r.thing, r.pc), q.kind = r.kind, q.thing = r.thing,
           q.got = IF r.pc \in Calls THEN r.got \union {r.pc} ELSE r.got,
           NEW p2, r.pc # "post" => p2 = p, r.pc = "post" => p2 = 1,
           NEW in2 \in BOOLEAN, in \/ r.pc = "gate" => in2
    PROVE  StageOK(q, p2, in2)
<1> USE DEF Stages, Calls, Posts, Kinds
<1>0. r.pc \in Stages
  BY DEF Request
<1>1. CASE r.kind = "seen"
  BY <1>0, <1>1 DEF StageOK, After
<1>2. CASE r.kind = "dismiss"
  BY <1>0, <1>2 DEF StageOK, After
<1>3. CASE r.kind = "home"
  BY <1>0, <1>3 DEF StageOK, After
<1>4. CASE r.kind \in Posts
  BY <1>0, <1>4 DEF StageOK, After
<1>5. CASE r.kind = "page"
  <2>1. CASE r.pc = "gate"
    BY <1>5, <2>1 DEF StageOK, After
  <2>2. CASE r.pc = "get"
    BY <1>5, <2>2 DEF StageOK, After
  <2>3. CASE r.pc = "comments"
    BY <1>5, <2>3 DEF StageOK, After, Reads
  <2>4. CASE r.pc = "reviews"
    BY <1>5, <2>4 DEF StageOK, After, Reads
  <2>5. CASE r.pc = "checks"
    BY <1>5, <2>5 DEF StageOK, After, Reads
  <2>6. CASE r.pc = "mark"
    BY <1>5, <2>6 DEF StageOK, After, Reads
  <2> QED BY <1>5, <2>1, <2>2, <2>3, <2>4, <2>5, <2>6 DEF StageOK
<1> QED BY <1>1, <1>2, <1>3, <1>4, <1>5

(* A request may always end early, at the gate by a redirect.                *)
LEMMA LastStage ==
    ASSUME NEW r \in Request, NEW q \in Request, NEW p, NEW in,
           StageOK(r, p, in), r.kind \in Kinds,
           q.pc = "error" \/ (q.pc = "redirect" /\ r.pc = "gate"),
           q.kind = r.kind, q.thing = r.thing, q.got = r.got,
           NEW p2, NEW in2
    PROVE  StageOK(q, p2, in2)
BY DEF StageOK, Kinds, Posts, Calls

(* One entry of the log takes another answer.                                *)
LEMMA AnsweredLog ==
    ASSUME Types, NEW t \in Tabs, req[t].n \in DOMAIN log,
           NEW answer \in {"none", "success", "error"}, Answered(t, answer)
    PROVE  /\ log' \in Seq(Entry) /\ DOMAIN log' = DOMAIN log
           /\ \A n \in DOMAIN log :
                 /\ log'[n].tab = log[n].tab /\ log'[n].kind = log[n].kind
                 /\ log'[n].thing = log[n].thing /\ log'[n].posted = log[n].posted
                 /\ log'[n].dropped = log[n].dropped
                 /\ n # req[t].n => log'[n] = log[n]
           /\ log'[req[t].n].answer = answer
<1> DEFINE k == req[t].n
           e == [log[k] EXCEPT !.answer = answer]
<1>1. log \in Seq(Entry) /\ DOMAIN log = 1..Len(log) /\ k \in 1..Len(log) /\ log[k] \in Entry
  BY DEF Types
<1>2. log' = [log EXCEPT ![k] = e]
  BY DEF Answered
<1> HIDE DEF k
<1>3. /\ e \in Entry /\ e.tab = log[k].tab /\ e.kind = log[k].kind /\ e.thing = log[k].thing
      /\ e.posted = log[k].posted /\ e.dropped = log[k].dropped /\ e.answer = answer
  BY <1>1 DEF Entry
<1> HIDE DEF e
<1>4. /\ log' \in Seq(Entry) /\ Len(log') = Len(log)
      /\ \A j \in 1..Len(log) : log'[j] = IF j = k THEN e ELSE log[j]
  BY <1>1, <1>2, <1>3, ExceptSeq
<1>5. DOMAIN log' = DOMAIN log
  BY <1>1, <1>4
<1> QED BY <1>1, <1>3, <1>4, <1>5 DEF k

\* The request of tab t has been posted or dropped once more.
Sent(t) ==
    LET k == req[t].n IN
    /\ log' \in Seq(Entry) /\ DOMAIN log' = DOMAIN log
    /\ \A n \in DOMAIN log :
          /\ log'[n].tab = log[n].tab /\ log'[n].kind = log[n].kind
          /\ log'[n].thing = log[n].thing /\ log'[n].answer = log[n].answer
          /\ log'[n].posted >= log[n].posted /\ (log[n].dropped => log'[n].dropped)
          /\ n # k => log'[n] = log[n]
    /\ Done(log'[k]) = Done(log[k]) + 1
    /\ log'[k].posted > log[k].posted \/ ~log[k].dropped
    /\ log'[k].dropped => log[k].dropped \/ (log[k].kind = "comment" /\ log[k].thing \in Issues)

(* One entry of the log changes for another of the same request.             *)
LEMMA SentLog ==
    ASSUME Types, NEW t \in Tabs, req[t].n \in DOMAIN log,
           NEW e \in Entry, log' = [log EXCEPT ![req[t].n] = e],
           LET o == log[req[t].n] IN
           /\ e.tab = o.tab /\ e.kind = o.kind /\ e.thing = o.thing /\ e.answer = o.answer
           /\ \/ e.posted = o.posted + 1 /\ e.dropped = o.dropped
              \/ /\ ~o.dropped /\ e.dropped /\ e.posted = o.posted
                 /\ o.kind = "comment" /\ o.thing \in Issues
    PROVE  Sent(t)
<1> DEFINE k == req[t].n
           o == log[k]
<1>1. log \in Seq(Entry) /\ DOMAIN log = 1..Len(log) /\ k \in 1..Len(log) /\ o \in Entry
  BY DEF Types
<1>2. \A n \in DOMAIN log : log[n].posted \in Nat
  BY EntryOf DEF Types
<1>3. /\ e.posted \in Nat /\ e.dropped \in BOOLEAN /\ o.posted \in Nat /\ o.dropped \in BOOLEAN
  BY <1>1 DEF Entry
<1>4. /\ e.tab = o.tab /\ e.kind = o.kind /\ e.thing = o.thing /\ e.answer = o.answer
      /\ e.posted >= o.posted /\ (o.dropped => e.dropped) /\ Done(e) = Done(o) + 1
      /\ e.posted > o.posted \/ ~o.dropped
      /\ e.dropped => o.dropped \/ (o.kind = "comment" /\ o.thing \in Issues)
  BY <1>3 DEF Done
<1>5. log' = [log EXCEPT ![k] = e]
  OBVIOUS
<1> HIDE DEF k
<1>6. /\ log' \in Seq(Entry) /\ Len(log') = Len(log)
      /\ \A j \in 1..Len(log) : log'[j] = IF j = k THEN e ELSE log[j]
  BY <1>1, <1>5, ExceptSeq
<1>7. DOMAIN log' = DOMAIN log
  BY <1>1, <1>6
<1>8. \A n \in DOMAIN log : log[n].posted >= log[n].posted
  BY <1>2
<1> HIDE DEF Sent
<1> QED BY <1>1, <1>4, <1>6, <1>7, <1>8 DEF Sent, k

(* A post takes effect.                                                      *)
LEMMA PostedLog ==
    ASSUME Types, NEW t \in Tabs, req[t].n \in DOMAIN log, log' = Posted(t)
    PROVE  Sent(t)
<1> DEFINE o == log[req[t].n]
           p == o.posted + 1
           e == [o EXCEPT !.posted = p]
<1>1. o \in Entry /\ o.posted \in Nat
  BY EntryOf DEF Types
<1>2. log' = [log EXCEPT ![req[t].n] = e]
  BY DEF Posted
<1> HIDE DEF o
<1>3. p \in Nat /\ p = o.posted + 1
  BY <1>1
<1> HIDE DEF p
<1>4. /\ e \in Entry /\ e.tab = o.tab /\ e.kind = o.kind /\ e.thing = o.thing
      /\ e.answer = o.answer /\ e.posted = p /\ e.dropped = o.dropped
  BY <1>1, <1>3 DEF Entry
<1> HIDE DEF e
<1> QED BY <1>2, <1>3, <1>4, SentLog DEF o

(* A comment on an issue is dropped.                                         *)
LEMMA DroppedLog ==
    ASSUME Types, NEW t \in Tabs, req[t].n \in DOMAIN log,
           ~log[req[t].n].dropped, log[req[t].n].kind = "comment", log[req[t].n].thing \in Issues,
           log' = [log EXCEPT ![req[t].n].dropped = TRUE]
    PROVE  Sent(t)
<1> DEFINE o == log[req[t].n]
           e == [o EXCEPT !.dropped = TRUE]
<1>1. o \in Entry
  BY EntryOf DEF Types
<1>2. log' = [log EXCEPT ![req[t].n] = e]
  OBVIOUS
<1>3. ~o.dropped /\ o.kind = "comment" /\ o.thing \in Issues
  OBVIOUS
<1> HIDE DEF o
<1>4. /\ e \in Entry /\ e.tab = o.tab /\ e.kind = o.kind /\ e.thing = o.thing
      /\ e.answer = o.answer /\ e.posted = o.posted /\ e.dropped
  BY <1>1 DEF Entry
<1> HIDE DEF e
<1> QED BY <1>2, <1>3, <1>4, SentLog DEF o

-----------------------------------------------------------------------------
(* What a step leaves alone                                                *)

\* No entry of the log is taken back, and no request thrown out again.
Grows ==
    /\ \A n \in DOMAIN log :
          /\ n \in DOMAIN log'
          /\ log'[n].tab = log[n].tab /\ log'[n].kind = log[n].kind
          /\ log'[n].thing = log[n].thing /\ log'[n].posted >= log[n].posted
          /\ log[n].dropped => log'[n].dropped
    /\ admitted \subseteq admitted'
    /\ \A i \in Items : row[i] # "none" => row'[i] # "none"

\* A step of another tab, or of a worker.
Untouched(u) ==
    /\ tab'[u] = tab[u] /\ poll'[u] = poll[u] /\ req'[u] = req[u]
    /\ \A n \in DOMAIN log : log[n].tab = u => log'[n] = log[n]
    /\ \A n \in DOMAIN log' \ DOMAIN log : log'[n].tab # u

(* Comments stay in their thread.                                            *)
LEMMA ThreadGrows ==
    ASSUME Types, Grows, NEW x, Types'
    PROVE  Thread(x) \subseteq Thread(x)'
<1> SUFFICES ASSUME NEW n \in Thread(x) PROVE n \in Thread(x)'
  OBVIOUS
<1>1. n \in DOMAIN log /\ log[n].kind = "comment" /\ log[n].thing = x /\ log[n].posted > 0
  BY DEF Thread
<1>2. log[n].posted \in Nat /\ log'[n].posted \in Nat
  <2>1. n \in DOMAIN log'
    BY <1>1 DEF Grows
  <2> QED BY <1>1, <2>1, EntryOf DEF Types
<1>3. log'[n].posted > 0
  BY <1>1, <1>2 DEF Grows
<1> QED BY <1>1, <1>3 DEF Thread, Grows

(* What was sent in vain stays so.                                           *)
LEMMA VainGrows ==
    ASSUME Grows, NEW t, NEW x
    PROVE  Vain(t, x) \subseteq Vain(t, x)'
BY DEF Grows, Vain, Dropped

(* What a tab may show of a thread, it still may after others' steps.        *)
LEMMA TellsStill ==
    ASSUME Types, Types', Grows, NEW u \in Tabs, NEW x, NEW c, Tells(u, x, c),
           \A n \in DOMAIN log' :
              log'[n].tab = u /\ log'[n].answer = "success" => n \in DOMAIN log /\ log'[n] = log[n]
    PROVE  Tells(u, x, c)'
<1>1. c \subseteq (Thread(x) \union Vain(u, x))'
  BY ThreadGrows, VainGrows DEF Tells
<1>2. ASSUME NEW n \in Thread(x)', log'[n].tab = u, log'[n].answer = "success"
      PROVE  n \in c
  <2>1. n \in DOMAIN log' /\ log'[n].kind = "comment" /\ log'[n].thing = x /\ log'[n].posted > 0
    BY <1>2 DEF Thread
  <2>2. n \in DOMAIN log /\ log'[n] = log[n]
    BY <1>2, <2>1
  <2>3. n \in Thread(x)
    BY <2>1, <2>2 DEF Thread
  <2> QED BY <1>2, <2>2, <2>3 DEF Tells
<1> QED BY <1>1, <1>2 DEF Tells

(* A tab that is left alone stays as it should be.                           *)
LEMMA OthersKeep ==
    ASSUME Types, Types', Grows, NEW u \in Tabs, TabOK(u), ReqOK(u), Untouched(u)
    PROVE  TabOK(u)' /\ ReqOK(u)'
<1>1. \A n \in DOMAIN log' : log'[n].tab = u => n \in DOMAIN log /\ log'[n] = log[n]
  BY DEF Untouched, Grows
<1>2. ASSUME NEW x, NEW c, Tells(u, x, c) PROVE Tells(u, x, c)'
  BY <1>1, <1>2, TellsStill
<1>3. TabOK(u)'
  <2>1. (poll[u].pc # "idle" => tab[u].view = "feed")'
    BY DEF TabOK, Untouched
  <2>2. (tab[u].comments \subseteq DOMAIN log)'
    BY DEF TabOK, Untouched, Grows
  <2>3. (\A i \in Items : tab[u].cards[i] > 0 => row[i] # "none")'
    BY DEF TabOK, Untouched, Grows
  <2>4. (\A i \in req[u].items \union poll[u].items : row[i] # "none")'
    <3>1. req[u].items \union poll[u].items \subseteq Items
      BY DEF Types, Request, PollState
    <3> QED BY <3>1 DEF TabOK, Untouched, Grows
  <2>5. (tab[u].view \in Things => Tells(u, tab[u].view, tab[u].comments))'
    <3>1. ASSUME NEW x, NEW c, x = tab[u].view, c = tab[u].comments, x \in Things
          PROVE  Tells(u, x, c)'
      <4>1. Tells(u, x, c)
        BY <3>1 DEF TabOK
      <4> QED BY <1>2, <4>1
    <3> QED BY <3>1 DEF Tells, Thread, Vain, Dropped, Untouched
  <2>6. (req[u].pc # "idle" /\ "comments" \in req[u].got => Tells(u, req[u].thing, req[u].comments))'
    <3>1. ASSUME NEW x, NEW c, x = req[u].thing, c = req[u].comments,
                 req[u].pc # "idle" /\ "comments" \in req[u].got
          PROVE  Tells(u, x, c)'
      <4>1. Tells(u, x, c)
        BY <3>1 DEF TabOK
      <4> QED BY <1>2, <4>1
    <3> QED BY <3>1 DEF Tells, Thread, Vain, Dropped, Untouched
  <2> QED BY <2>1, <2>2, <2>3, <2>4, <2>5, <2>6 DEF TabOK
<1>4. ReqOK(u)'
  <2>1. CASE req[u].pc = "idle"
    BY <2>1 DEF ReqOK, Untouched
  <2>2. CASE req[u].pc # "idle"
    <3> DEFINE n == req[u].n
    <3>1. n \in DOMAIN log /\ log[n].tab = u
      BY <2>2 DEF ReqOK, Matches
    <3>2. req'[u] = req[u] /\ tab'[u] = tab[u] /\ n \in DOMAIN log' /\ log'[n] = log[n]
      BY <3>1 DEF Untouched, Grows
    <3>3. n \in admitted => n \in admitted'
      BY DEF Grows
    <3>4. \A i \in Items : row[i] # "none" => row'[i] # "none"
      BY DEF Grows
    <3>5. Matches(u)'
      BY <2>2, <3>2, <3>4 DEF ReqOK, Matches
    <3>6. StageOK(req'[u], Done(log'[req'[u].n]), req'[u].n \in admitted')
      BY <2>2, <3>2, <3>3 DEF ReqOK, StageOK
    <3> QED BY <3>2, <3>5, <3>6 DEF ReqOK
  <2> QED BY <2>1, <2>2
<1> QED BY <1>3, <1>4

-----------------------------------------------------------------------------
(* The steps of a tab                                                      *)

(* An entry that is left alone stays as it should be.                        *)
LEMMA LogStill ==
    ASSUME Types, Grows, NEW n \in DOMAIN log, LogOK(n), log'[n] = log[n]
    PROVE  LogOK(n)'
BY DEF LogOK, Grows

(* What remains to be shown of a step of tab t.                              *)
LEMMA StepKeeps ==
    ASSUME Inv, NEW t \in Tabs, Types', Grows, Observe,
           \A u \in Tabs : u # t => Untouched(u),
           (seen \subseteq {i \in Items : row[i] # "none"})',
           TabOK(t)', ReqOK(t)',
           \A n \in DOMAIN log' : n \notin DOMAIN log \/ log'[n] # log[n] => LogOK(n)'
    PROVE  Inv'
<1>1. ASSUME NEW u \in Tabs, u # t PROVE TabOK(u)' /\ ReqOK(u)'
  BY <1>1, OthersKeep DEF Inv
<1>2. ASSUME NEW n \in DOMAIN log' PROVE LogOK(n)'
  BY <1>2, LogStill DEF Inv
<1>3. (admitted \subseteq DOMAIN log)'
  BY DEF Observe
<1> QED BY <1>1, <1>2, <1>3 DEF Inv

(* A call that writes at most rows and marks.                                *)
LEMMA CallKeeps ==
    ASSUME Inv, NEW t \in Tabs, NEW r \in Request, Goto(t, r), Observe, req[t].pc # "idle",
           UNCHANGED <<jira, tab, poll, log>>, configured' \in BOOLEAN, failures' \in Nat,
           row' \in [Items -> {"none", "live", "dismissed"}],
           \A i \in Items : row[i] # "none" => row'[i] # "none",
           (seen \subseteq {i \in Items : row[i] # "none"})',
           r.n = req[t].n, r.kind = req[t].kind, r.item = req[t].item,
           r.thing = req[t].thing, r.card = req[t].card,
           \A i \in r.items : row'[i] # "none",
           "comments" \in r.got => Tells(t, r.thing, r.comments),
           StageOK(r, Done(log[r.n]), r.n \in admitted')
    PROVE  Inv'
<1>1. Types /\ TabOK(t) /\ ReqOK(t) /\ Matches(t) /\ admitted \subseteq DOMAIN log
  BY DEF Inv, ReqOK
<1>2. req' \in [Tabs -> Request] /\ req'[t] = r /\ \A u \in Tabs : u # t => req'[u] = req[u]
  BY <1>1, Gone
<1>3. Types'
  BY <1>1, <1>2 DEF Types
<1>4. Grows
  <2>1. \A n \in DOMAIN log : log[n].posted >= log[n].posted
    BY <1>1, EntryOf DEF Types
  <2>2. admitted \subseteq admitted'
    BY <1>1 DEF Observe
  <2> QED BY <2>1, <2>2 DEF Grows
<1>5. \A u \in Tabs : u # t => Untouched(u)
  BY <1>2 DEF Untouched
<1>6. TabOK(t)'
  <2>1. (tab[t].view \in Things => Tells(t, tab[t].view, tab[t].comments))'
    BY <1>1 DEF TabOK, Tells, Thread, Vain, Dropped
  <2>2. (req[t].pc # "idle" /\ "comments" \in req[t].got => Tells(t, req[t].thing, req[t].comments))'
    BY <1>2 DEF Tells, Thread, Vain, Dropped
  <2>3. \A i \in poll[t].items : i \in Items
    BY <1>1 DEF Types, PollState
  <2> QED BY <1>1, <1>2, <2>1, <2>2, <2>3 DEF TabOK
<1>7. ReqOK(t)'
  <2>1. Matches(t)'
    BY <1>1, <1>2 DEF Matches
  <2>2. StageOK(req'[t], Done(log'[req'[t].n]), req'[t].n \in admitted')
    BY <1>2
  <2> QED BY <2>1, <2>2 DEF ReqOK
<1> QED BY <1>3, <1>4, <1>5, <1>6, <1>7, StepKeeps

(* What is known of a request under way.                                     *)
LEMMA UnderWay ==
    ASSUME Inv, NEW t \in Tabs, req[t].pc # "idle"
    PROVE  /\ Types /\ TabOK(t) /\ Matches(t)
           /\ StageOK(req[t], Done(log[req[t].n]), req[t].n \in admitted)
           /\ req[t] \in Request /\ req[t].kind \in Kinds /\ req[t].pc \in Stages
           /\ req[t].n \in DOMAIN log /\ LogOK(req[t].n)
<1>1. Types /\ TabOK(t) /\ Matches(t) /\ req[t] \in Request
  BY DEF Inv, ReqOK, Types
<1>2. req[t].n \in DOMAIN log
  BY <1>1 DEF Matches
<1>3. log[req[t].n] \in Entry
  BY <1>1, <1>2, EntryOf DEF Types
<1>4. req[t].kind \in Kinds
  BY <1>1, <1>3 DEF Entry, Matches
<1> QED BY <1>1, <1>2, <1>4 DEF Inv, ReqOK, Request

(* A call that succeeds.                                                     *)
LEMMA AdvanceKeeps ==
    ASSUME Inv, NEW t \in Tabs, NEW r \in Request, Goto(t, r), Observe,
           req[t].pc \notin {"idle", "reply", "redirect", "error", "post"},
           UNCHANGED <<jira, tab, poll, log, configured>>, failures' \in Nat,
           row' \in [Items -> {"none", "live", "dismissed"}],
           \A i \in Items : row[i] # "none" => row'[i] # "none",
           (seen \subseteq {i \in Items : row[i] # "none"})',
           req[t].pc = "gate" => configured,
           r.pc = After(req[t].kind, req[t].thing, req[t].pc),
           r.n = req[t].n, r.kind = req[t].kind, r.item = req[t].item,
           r.thing = req[t].thing, r.card = req[t].card,
           r.got = IF req[t].pc \in Calls THEN req[t].got \union {req[t].pc} ELSE req[t].got,
           \A i \in r.items : row'[i] # "none",
           "comments" \in r.got => Tells(t, r.thing, r.comments)
    PROVE  Inv'
<1>1. /\ Types /\ StageOK(req[t], Done(log[req[t].n]), req[t].n \in admitted)
      /\ req[t] \in Request /\ req[t].kind \in Kinds /\ req[t].n \in DOMAIN log
  BY UnderWay
<1>2. req'[t] = r
  BY <1>1, Gone
<1>3. req[t].n \in admitted \/ req[t].pc = "gate" => req[t].n \in admitted'
  BY <1>1, <1>2 DEF Observe
<1> DEFINE p == Done(log[req[t].n])
           in == req[t].n \in admitted
           in2 == req[t].n \in admitted'
<1>4. in \in BOOLEAN /\ in2 \in BOOLEAN
  OBVIOUS
<1> HIDE DEF p, in, in2
<1>5. StageOK(req[t], p, in)
  BY <1>1 DEF p, in
<1>6. in \/ req[t].pc = "gate" => in2
  BY <1>3 DEF in, in2
<1>7. StageOK(r, p, in2)
  BY <1>1, <1>4, <1>5, <1>6, NextStage
<1>8. StageOK(r, Done(log[r.n]), r.n \in admitted')
  BY <1>7 DEF p, in2
<1>9. configured' \in BOOLEAN
  BY <1>1 DEF Types
<1> QED BY <1>8, <1>9, CallKeeps

(* A call that fails, or the gate that is closed.                            *)
LEMMA EndKeeps ==
    ASSUME Inv, NEW t \in Tabs, NEW pc \in {"error", "redirect"},
           Goto(t, [req[t] EXCEPT !.pc = pc]), Observe, req[t].pc # "idle",
           pc = "redirect" => req[t].pc = "gate",
           UNCHANGED <<row, seen, configured, jira, tab, poll, log>>, failures' \in Nat
    PROVE  Inv'
<1> DEFINE r == [req[t] EXCEPT !.pc = pc]
<1>1. /\ Types /\ StageOK(req[t], Done(log[req[t].n]), req[t].n \in admitted)
      /\ req[t] \in Request /\ req[t].kind \in Kinds /\ TabOK(t)
  BY UnderWay
<1>2. /\ r \in Request /\ r.pc = pc
      /\ r.kind = req[t].kind /\ r.n = req[t].n
      /\ r.item = req[t].item /\ r.thing = req[t].thing
      /\ r.got = req[t].got /\ r.items = req[t].items
      /\ r.comments = req[t].comments /\ r.card = req[t].card
  BY <1>1, Ended
<1>3. Goto(t, r)
  OBVIOUS
<1> HIDE DEF r
<1>4. StageOK(r, Done(log[r.n]), r.n \in admitted')
  BY <1>1, <1>2, LastStage
<1>5. (seen \subseteq {i \in Items : row[i] # "none"})'
  BY DEF Inv
<1>6. \A i \in r.items : row'[i] # "none"
  BY <1>1, <1>2 DEF TabOK
<1>7. "comments" \in r.got => Tells(t, r.thing, r.comments)
  BY <1>1, <1>2 DEF TabOK
<1>8. configured' \in BOOLEAN /\ row' \in [Items -> {"none", "live", "dismissed"}]
  BY <1>1 DEF Types
<1> QED BY <1>2, <1>3, <1>4, <1>5, <1>6, <1>7, <1>8, CallKeeps

(* The gate, open or closed.                                                 *)
LEMMA GateKeeps ==
    ASSUME Inv, NEW t \in Tabs, Gate(t), Observe
    PROVE  Inv'
<1>1. /\ req[t].pc = "gate" /\ req[t].pc \notin Calls
      /\ UNCHANGED <<row, seen, configured, jira, tab, poll, log, failures>>
  BY DEF Gate, Calls
<1>2. Types /\ TabOK(t) /\ req[t] \in Request
  BY <1>1, UnderWay
<1>3. /\ failures' \in Nat /\ row' \in [Items -> {"none", "live", "dismissed"}]
      /\ (seen \subseteq {i \in Items : row[i] # "none"})'
  BY <1>1, <1>2 DEF Inv, Types
<1>4. CASE configured
  <2>1. Goto(t, Advance(t))
    BY <1>4 DEF Gate
  <2>2. \A i \in Advance(t).items : row'[i] # "none"
    BY <1>1, <1>2, Advanced DEF TabOK
  <2>3. "comments" \in Advance(t).got => Tells(t, Advance(t).thing, Advance(t).comments)
    BY <1>1, <1>2, Advanced DEF TabOK
  <2> QED BY <1>1, <1>2, <1>3, <1>4, <2>1, <2>2, <2>3, Advanced, AdvanceKeeps
<1>5. CASE ~configured
  <2>1. Goto(t, [req[t] EXCEPT !.pc = "redirect"])
    BY <1>5 DEF Gate
  <2> QED BY <1>1, <1>3, <2>1, EndKeeps
<1> QED BY <1>4, <1>5

(* Comments are read as they are in the thread, the tab's own included.      *)
LEMMA ThreadTells ==
    ASSUME NEW t, NEW x
    PROVE  Tells(t, x, Thread(x))
BY DEF Tells

(* A call for a detail page.                                                 *)
LEMMA FetchedKeeps ==
    ASSUME Inv, NEW t \in Tabs, Fetched(t), req[t].pc \in Calls, Observe
    PROVE  Inv'
<1> DEFINE c == IF req[t].pc = "comments" THEN Thread(req[t].thing) ELSE req[t].comments
           g == req[t].got \union {req[t].pc}
           r == [Advance(t) EXCEPT !.got = g, !.comments = c]
<1>1. /\ req[t].pc # "idle" /\ req[t].pc \notin {"gate", "reply", "redirect", "error", "post"}
      /\ UNCHANGED <<row, seen, configured, jira, tab, poll, log, failures>>
  BY DEF Fetched, Calls
<1>2. Types /\ TabOK(t) /\ Matches(t) /\ req[t] \in Request
  BY <1>1, UnderWay
<1>3. c \in SUBSET Nat /\ g \in SUBSET Calls
  <2>1. DOMAIN log \subseteq Nat
    BY <1>2 DEF Types
  <2> QED BY <1>2, <2>1 DEF Thread, Request
<1>4. Advance(t).comments = req[t].comments /\ Advance(t).got = req[t].got
  BY <1>2, Advanced
<1>5. Goto(t, r)
  BY <1>4 DEF Fetched
<1>6. "comments" \in g => Tells(t, req[t].thing, c)
  <2>1. CASE req[t].pc = "comments"
    BY <2>1, ThreadTells
  <2>2. CASE req[t].pc # "comments"
    BY <1>1, <1>2, <2>2 DEF TabOK
  <2> QED BY <2>1, <2>2
<1>7. g = IF req[t].pc \in Calls THEN req[t].got \union {req[t].pc} ELSE req[t].got
  OBVIOUS
<1> HIDE DEF c, g
<1>8. /\ r \in Request /\ r.pc = After(req[t].kind, req[t].thing, req[t].pc)
      /\ r.n = req[t].n /\ r.kind = req[t].kind /\ r.item = req[t].item
      /\ r.thing = req[t].thing /\ r.card = req[t].card /\ r.got = g /\ r.comments = c
      /\ r.items = req[t].items
  <2> DEFINE a == Advance(t)
  <2>1. /\ a \in Request /\ a.pc = After(req[t].kind, req[t].thing, req[t].pc)
        /\ a.kind = req[t].kind /\ a.n = req[t].n
        /\ a.item = req[t].item /\ a.thing = req[t].thing
        /\ a.items = req[t].items /\ a.card = req[t].card
    BY <1>2, Advanced
  <2>2. r = [a EXCEPT !.got = g, !.comments = c]
    OBVIOUS
  <2> HIDE DEF a, r
  <2> QED BY <1>3, <2>1, <2>2 DEF Request
<1> HIDE DEF r
<1>9. /\ failures' \in Nat /\ row' \in [Items -> {"none", "live", "dismissed"}]
      /\ (seen \subseteq {i \in Items : row[i] # "none"})'
  BY <1>1, <1>2 DEF Inv, Types
<1>10. \A i \in r.items : row'[i] # "none"
  BY <1>1, <1>2, <1>8 DEF TabOK
<1> QED BY <1>1, <1>5, <1>6, <1>7, <1>8, <1>9, <1>10, AdvanceKeeps

(* The items of a page are marked.                                           *)
LEMMA MarkKeeps ==
    ASSUME Inv, NEW t \in Tabs, MarkSeenByThing(t), Observe
    PROVE  Inv'
<1>1. /\ req[t].pc = "mark" /\ req[t].pc \notin Calls /\ Goto(t, Advance(t))
      /\ UNCHANGED <<row, configured, jira, tab, poll, log, failures>>
  BY DEF MarkSeenByThing, Calls
<1>2. Types /\ TabOK(t) /\ req[t] \in Request
  BY <1>1, UnderWay
<1>3. /\ failures' \in Nat /\ row' \in [Items -> {"none", "live", "dismissed"}]
      /\ (seen \subseteq {i \in Items : row[i] # "none"})'
  BY <1>1, <1>2 DEF Inv, Types, MarkSeenByThing
<1>4. /\ \A i \in Advance(t).items : row'[i] # "none"
      /\ "comments" \in Advance(t).got => Tells(t, Advance(t).thing, Advance(t).comments)
  BY <1>1, <1>2, Advanced DEF TabOK
<1> QED BY <1>1, <1>2, <1>3, <1>4, Advanced, AdvanceKeeps

(* The item of a card is marked: it is one there is.                         *)
LEMMA MarkSeenKeeps ==
    ASSUME Inv, NEW t \in Tabs, MarkSeen(t), Observe
    PROVE  Inv'
<1>1. /\ req[t].pc = "seen" /\ req[t].pc \notin Calls /\ Goto(t, Advance(t))
      /\ UNCHANGED <<row, configured, jira, tab, poll, log, failures>>
  BY DEF MarkSeen, Calls
<1>2. /\ Types /\ TabOK(t) /\ req[t] \in Request /\ Matches(t) /\ req[t].kind \in Kinds
      /\ StageOK(req[t], Done(log[req[t].n]), req[t].n \in admitted)
  BY <1>1, UnderWay
<1>3. req[t].kind = "seen"
  BY <1>1, <1>2 DEF StageOK, Kinds, Posts, Calls
<1>4. req[t].item \in Items /\ row[req[t].item] # "none"
  BY <1>2, <1>3 DEF Matches
<1>5. /\ failures' \in Nat /\ row' \in [Items -> {"none", "live", "dismissed"}]
      /\ (seen \subseteq {i \in Items : row[i] # "none"})'
  BY <1>1, <1>2, <1>4 DEF Inv, Types, MarkSeen
<1>6. /\ \A i \in Advance(t).items : row'[i] # "none"
      /\ "comments" \in Advance(t).got => Tells(t, Advance(t).thing, Advance(t).comments)
  BY <1>1, <1>2, Advanced DEF TabOK
<1> QED BY <1>1, <1>2, <1>5, <1>6, Advanced, AdvanceKeeps

(* A dismissed row is still a row.                                           *)
LEMMA DismissKeeps ==
    ASSUME Inv, NEW t \in Tabs, Dismiss(t), Observe
    PROVE  Inv'
<1>1. /\ req[t].pc = "dismiss" /\ req[t].pc \notin Calls /\ Goto(t, Advance(t))
      /\ UNCHANGED <<seen, configured, jira, tab, poll, log, failures>>
      /\ row' = [row EXCEPT ![req[t].item] = "dismissed"]
  BY DEF Dismiss, Calls
<1>2. Types /\ TabOK(t) /\ req[t] \in Request
  BY <1>1, UnderWay
<1>3. /\ failures' \in Nat /\ row' \in [Items -> {"none", "live", "dismissed"}]
      /\ \A i \in Items : row[i] # "none" => row'[i] # "none"
  BY <1>1, <1>2 DEF Types
<1>4. (seen \subseteq {i \in Items : row[i] # "none"})'
  BY <1>1, <1>3 DEF Inv
<1>5. Advance(t).items = req[t].items /\ req[t].items \subseteq Items
  BY <1>2, Advanced DEF Request
<1>6. /\ \A i \in Advance(t).items : row'[i] # "none"
      /\ "comments" \in Advance(t).got => Tells(t, Advance(t).thing, Advance(t).comments)
  BY <1>1, <1>2, <1>3, <1>5, Advanced DEF TabOK
<1> QED BY <1>1, <1>2, <1>3, <1>4, <1>6, Advanced, AdvanceKeeps

(* The feed shows items there are.                                           *)
LEMMA RankedLive ==
    /\ ListRanked \in SUBSET Items
    /\ \A i \in ListRanked : row[i] # "none"
BY DEF ListRanked

(* The feed is read.                                                         *)
LEMMA ReadFeedKeeps ==
    ASSUME Inv, NEW t \in Tabs, ReadFeed(t), Observe
    PROVE  Inv'
<1> DEFINE a == Advance(t)
           l == ListRanked
           r == [a EXCEPT !.items = l]
<1>1. /\ req[t].pc = "list" /\ req[t].pc \notin Calls /\ Goto(t, r)
      /\ UNCHANGED <<row, seen, configured, jira, tab, poll, log, failures>>
  BY DEF ReadFeed, Calls
<1>2. Types /\ TabOK(t) /\ req[t] \in Request
  BY <1>1, UnderWay
<1>3. /\ failures' \in Nat /\ row' \in [Items -> {"none", "live", "dismissed"}]
      /\ (seen \subseteq {i \in Items : row[i] # "none"})'
  BY <1>1, <1>2 DEF Inv, Types
<1>4. l \in SUBSET Items /\ \A i \in l : row[i] # "none"
  BY RankedLive
<1>5. /\ a \in Request /\ a.pc = After(req[t].kind, req[t].thing, req[t].pc)
      /\ a.kind = req[t].kind /\ a.n = req[t].n
      /\ a.item = req[t].item /\ a.thing = req[t].thing
      /\ a.got = req[t].got /\ a.comments = req[t].comments /\ a.card = req[t].card
  BY <1>2, Advanced
<1> HIDE DEF a, l
<1>6. /\ r \in Request /\ r.pc = After(req[t].kind, req[t].thing, req[t].pc)
      /\ r.kind = req[t].kind /\ r.n = req[t].n
      /\ r.item = req[t].item /\ r.thing = req[t].thing
      /\ r.got = req[t].got /\ r.comments = req[t].comments /\ r.card = req[t].card
      /\ r.items = l
  BY <1>4, <1>5 DEF Request
<1> HIDE DEF r
<1>7. /\ \A i \in r.items : row'[i] # "none"
      /\ "comments" \in r.got => Tells(t, r.thing, r.comments)
  BY <1>1, <1>2, <1>4, <1>6 DEF TabOK
<1> QED BY <1>1, <1>3, <1>6, <1>7, AdvanceKeeps

(* A post that has taken effect, confirmed or not, or was dropped.            *)
LEMMA PostKeeps ==
    ASSUME Inv, NEW t \in Tabs, req[t].pc = "post", Sent(t),
           Goto(t, Advance(t)) \/ Goto(t, Error(t)), Observe,
           UNCHANGED <<row, seen, configured, jira, tab, poll>>, failures' \in Nat
    PROVE  Inv'
<1> DEFINE n == req[t].n
<1>1. /\ Types /\ TabOK(t) /\ req[t] \in Request /\ Matches(t) /\ req[t].kind \in Kinds
      /\ StageOK(req[t], Done(log[n]), n \in admitted)
      /\ n \in DOMAIN log /\ LogOK(n)
  BY UnderWay
<1>2. req[t].kind \in Posts /\ Done(log[n]) = 0 /\ n \in admitted
  BY <1>1 DEF StageOK, Kinds, Calls
<1>3. /\ log' \in Seq(Entry) /\ DOMAIN log' = DOMAIN log
      /\ \A k \in DOMAIN log :
            /\ log'[k].tab = log[k].tab /\ log'[k].kind = log[k].kind
            /\ log'[k].thing = log[k].thing /\ log'[k].answer = log[k].answer
            /\ log'[k].posted >= log[k].posted /\ (log[k].dropped => log'[k].dropped)
            /\ k # n => log'[k] = log[k]
      /\ Done(log'[n]) = 1
      /\ log'[n].dropped => log[n].dropped \/ (log[n].kind = "comment" /\ log[n].thing \in Issues)
  BY <1>1, <1>2 DEF Sent
<1>4. PICK r \in Request :
        /\ Goto(t, r) /\ r.pc \in {"reply", "error"}
        /\ r.kind = req[t].kind /\ r.n = n /\ r.item = req[t].item /\ r.thing = req[t].thing
        /\ r.got = req[t].got /\ r.items = req[t].items /\ r.comments = req[t].comments
        /\ r.card = req[t].card
  <2>1. After(req[t].kind, req[t].thing, req[t].pc) = "reply"
    BY DEF After
  <2>2. CASE Goto(t, Advance(t))
    BY <1>1, <2>1, <2>2, Advanced
  <2>3. CASE Goto(t, Error(t))
    <3> DEFINE r == [req[t] EXCEPT !.pc = "error"]
    <3>1. /\ r \in Request /\ r.pc = "error"
          /\ r.kind = req[t].kind /\ r.n = n /\ r.item = req[t].item /\ r.thing = req[t].thing
          /\ r.got = req[t].got /\ r.items = req[t].items /\ r.comments = req[t].comments
          /\ r.card = req[t].card
      BY <1>1, Ended
    <3>2. Goto(t, r)
      BY <2>3 DEF Error
    <3> HIDE DEF r
    <3> QED BY <3>1, <3>2
  <2> QED BY <2>2, <2>3
<1>5. req' \in [Tabs -> Request] /\ req'[t] = r /\ \A u \in Tabs : u # t => req'[u] = req[u]
  BY <1>1, <1>4, Gone
<1>6. Types'
  BY <1>1, <1>3, <1>5 DEF Types
<1>7. admitted \subseteq admitted'
  BY <1>3 DEF Observe, Inv
<1>8. Grows
  BY <1>3, <1>7 DEF Grows
<1>9. ASSUME NEW u \in Tabs, u # t PROVE Untouched(u)
  BY <1>1, <1>3, <1>5, <1>9 DEF Untouched, Matches
<1>10. \A k \in DOMAIN log' : log'[k].answer = "success" => k \in DOMAIN log /\ log'[k] = log[k]
  BY <1>1, <1>3 DEF Matches
<1>11. TabOK(t)'
  <2>1. ASSUME NEW x, NEW c, Tells(t, x, c) PROVE Tells(t, x, c)'
    BY <1>1, <1>6, <1>8, <1>10, <2>1, TellsStill
  <2>2. (tab[t].view \in Things => Tells(t, tab[t].view, tab[t].comments))'
    <3>1. ASSUME NEW x, NEW c, x = tab[t].view, c = tab[t].comments, x \in Things
          PROVE  Tells(t, x, c)'
      BY <1>1, <2>1, <3>1 DEF TabOK
    <3> QED BY <3>1 DEF Tells, Thread, Vain, Dropped
  <2>3. (req[t].pc # "idle" /\ "comments" \in req[t].got => Tells(t, req[t].thing, req[t].comments))'
    <3>1. ASSUME NEW x, NEW c, x = r.thing, c = r.comments, "comments" \in r.got
          PROVE  Tells(t, x, c)'
      BY <1>1, <1>4, <2>1, <3>1 DEF TabOK
    <3> QED BY <1>5, <3>1 DEF Tells, Thread, Vain, Dropped
  <2> QED BY <1>1, <1>3, <1>4, <1>5, <2>2, <2>3 DEF TabOK
<1>12. ReqOK(t)'
  <2>1. Matches(t)'
    BY <1>1, <1>3, <1>4, <1>5 DEF Matches
  <2>2. StageOK(r, 1, n \in admitted')
    BY <1>1, <1>2, <1>4, <1>7 DEF StageOK, Posts, Calls
  <2> QED BY <1>3, <1>4, <1>5, <2>1, <2>2 DEF ReqOK
<1>13. ASSUME NEW k \in DOMAIN log', k \notin DOMAIN log \/ log'[k] # log[k] PROVE LogOK(k)'
  <2>1. k = n /\ k \in DOMAIN log /\ LogOK(k)
    BY <1>1, <1>3, <1>13
  <2>2. Done(log'[k]) = 1 /\ log'[k].kind \in Posts /\ k \in admitted'
    BY <1>1, <1>2, <1>3, <1>7, <2>1 DEF Matches
  <2>3. log'[k].dropped => log'[k].kind = "comment" /\ log'[k].thing \in Issues
    BY <1>3, <2>1 DEF LogOK
  <2> QED BY <2>2, <2>3 DEF LogOK, Posts
<1> QED BY <1>6, <1>8, <1>9, <1>11, <1>12, <1>13, StepKeeps DEF Inv

(* The end of a request: an answer, what the tab shows then, and its poll.   *)
LEMMA AnswerKeeps ==
    ASSUME Inv, NEW t \in Tabs, req[t].pc # "idle", Observe,
           NEW answer \in {"none", "success", "error"}, Answered(t, answer),
           Goto(t, NoRequest), UNCHANGED <<row, seen, configured, jira>>, failures' \in Nat,
           NEW v \in View, tab' = [tab EXCEPT ![t] = v],
           NEW p \in PollState, poll' = [poll EXCEPT ![t] = p],
           p.pc # "idle" => v.view = "feed",
           \A i \in p.items : row[i] # "none",
           \A i \in Items : v.cards[i] > 0 => row[i] # "none",
           v.comments \subseteq DOMAIN log,
           v.view \in Things =>
              /\ v.comments \subseteq Thread(v.view) \union Vain(t, v.view)
              /\ \A n \in Thread(v.view) :
                    /\ log[n].tab = t
                    /\ log[n].answer = "success" \/ (n = req[t].n /\ answer = "success")
                    => n \in v.comments,
           answer = "success" /\ req[t].kind \in Posts \union {"home", "page"} => req[t].pc = "reply"
    PROVE  Inv'
<1>1. /\ Types /\ req[t] \in Request /\ Matches(t)
      /\ StageOK(req[t], Done(log[req[t].n]), req[t].n \in admitted)
      /\ req[t].n \in DOMAIN log /\ LogOK(req[t].n)
  BY UnderWay
<1>2. /\ log' \in Seq(Entry) /\ DOMAIN log' = DOMAIN log
      /\ \A k \in DOMAIN log :
            /\ log'[k].tab = log[k].tab /\ log'[k].kind = log[k].kind
            /\ log'[k].thing = log[k].thing /\ log'[k].posted = log[k].posted
            /\ log'[k].dropped = log[k].dropped
            /\ k # req[t].n => log'[k] = log[k]
      /\ log'[req[t].n].answer = answer
  BY <1>1, AnsweredLog
<1>3. /\ req' \in [Tabs -> Request] /\ req'[t] = NoRequest
      /\ \A u \in Tabs : u # t => req'[u] = req[u]
  BY <1>1, NoRequestType, Gone
<1>4. /\ tab' \in [Tabs -> View] /\ tab'[t] = v /\ \A u \in Tabs : u # t => tab'[u] = tab[u]
      /\ poll' \in [Tabs -> PollState] /\ poll'[t] = p
      /\ \A u \in Tabs : u # t => poll'[u] = poll[u]
  BY <1>1 DEF Types
<1>5. Types'
  BY <1>1, <1>2, <1>3, <1>4 DEF Types
<1>6. admitted \subseteq admitted'
  BY <1>2 DEF Observe, Inv
<1>7. Grows
  <2>1. \A k \in DOMAIN log : log[k].posted >= log[k].posted
    BY <1>1, EntryOf DEF Types
  <2> QED BY <1>2, <1>6, <2>1 DEF Grows
<1>8. ASSUME NEW u \in Tabs, u # t PROVE Untouched(u)
  BY <1>1, <1>2, <1>3, <1>4, <1>8 DEF Untouched, Matches
<1>9. TabOK(t)'
  <2>1. ASSUME NEW x, x = v.view, x \in Things PROVE Tells(t, x, v.comments)'
    <3>1. v.comments \subseteq (Thread(x) \union Vain(t, x))'
      BY <1>1, <1>5, <1>7, <2>1, ThreadGrows, VainGrows
    <3>2. ASSUME NEW n \in Thread(x)', log'[n].tab = t, log'[n].answer = "success"
          PROVE  n \in v.comments
      <4>1. n \in Thread(x)
        BY <1>2 DEF Thread
      <4>2. log[n].tab = t /\ (log[n].answer = "success" \/ (n = req[t].n /\ answer = "success"))
        BY <1>2, <3>2, <4>1 DEF Thread
      <4> QED BY <2>1, <4>1, <4>2
    <3> QED BY <3>1, <3>2 DEF Tells
  <2>2. (tab[t].view \in Things => Tells(t, tab[t].view, tab[t].comments))'
    BY <1>4, <2>1 DEF Tells, Thread, Vain, Dropped
  <2>3. \A i \in req'[t].items \union poll'[t].items : row'[i] # "none"
    BY <1>3, <1>4, NoRequestType
  <2> QED BY <1>2, <1>3, <1>4, <2>2, <2>3, NoRequestType DEF TabOK
<1>10. ReqOK(t)'
  BY <1>3, NoRequestType DEF ReqOK
<1>11. ASSUME NEW k \in DOMAIN log', k \notin DOMAIN log \/ log'[k] # log[k] PROVE LogOK(k)'
  <2>1. k = req[t].n /\ k \in DOMAIN log /\ LogOK(k)
    BY <1>1, <1>2, <1>11
  <2>2. /\ log'[k].posted = log[k].posted /\ log'[k].kind = log[k].kind
        /\ log'[k].dropped = log[k].dropped /\ log'[k].thing = log[k].thing
        /\ log'[k].answer = answer /\ log[k].kind = req[t].kind
    BY <1>1, <1>2, <2>1 DEF Matches
  <2>3. answer = "success" /\ req[t].kind \in Posts => Done(log[k]) = 1
    BY <1>1, <2>1 DEF StageOK, Posts
  <2>5. Done(log'[k]) = Done(log[k])
    BY <2>2 DEF Done
  <2>4. answer = "success" /\ req[t].kind \in {"home", "page"} => k \in admitted
    BY <1>1, <2>1 DEF StageOK
  <2> QED BY <1>6, <2>1, <2>2, <2>3, <2>4, <2>5 DEF LogOK
<1>12. (seen \subseteq {i \in Items : row[i] # "none"})'
  BY DEF Inv
<1> QED BY <1>5, <1>7, <1>8, <1>9, <1>10, <1>11, <1>12, StepKeeps

(* A tab that does not poll.                                                 *)
LEMMA NoPollType == NoPoll \in PollState /\ NoPoll.pc = "idle" /\ NoPoll.items = {}
BY DEF NoPoll, PollState

(* A page, served whole.                                                     *)
LEMMA ShowKeeps ==
    ASSUME Inv, NEW t \in Tabs, req[t].pc # "idle", Observe,
           NEW view \in Views, NEW cards \in [Items -> Nat], NEW comments \in SUBSET Nat,
           NEW answer \in {"success", "error"}, Show(t, view, cards, comments, answer),
           \A i \in Items : cards[i] > 0 => row[i] # "none",
           comments \subseteq DOMAIN log, view \in Things => Tells(t, view, comments),
           answer = "success" => req[t].pc = "reply" /\ req[t].kind # "comment"
    PROVE  Inv'
<1> DEFINE v == [view |-> view, cards |-> cards, comments |-> comments]
<1>1. /\ Answered(t, answer) /\ Goto(t, NoRequest) /\ UNCHANGED <<row, seen, configured, jira, failures>>
      /\ tab' = [tab EXCEPT ![t] = v] /\ poll' = [poll EXCEPT ![t] = NoPoll]
  BY DEF Show
<1>2. v \in View /\ v.view = view /\ v.cards = cards /\ v.comments = comments
  BY DEF View
<1> HIDE DEF v
<1>3. Types /\ Matches(t)
  BY UnderWay
<1>4. failures' \in Nat
  BY <1>1, <1>3 DEF Types
<1>5. view \in Things =>
              /\ comments \subseteq Thread(view) \union Vain(t, view)
              /\ \A n \in Thread(view) :
                    /\ log[n].tab = t
                    /\ log[n].answer = "success" \/ (n = req[t].n /\ answer = "success")
                    => n \in comments
  BY <1>3 DEF Tells, Thread, Matches
<1> QED BY <1>1, <1>2, <1>4, <1>5, NoPollType, AnswerKeeps

(* A page without cards.                                                     *)
LEMMA NoCardsType == NoCards \in [Items -> Nat] /\ \A i \in Items : ~(NoCards[i] > 0)
BY DEF NoCards

(* All pages that are served whole.                                          *)
LEMMA PageKeeps ==
    ASSUME Inv, NEW t \in Tabs, Observe,
           FeedPage(t) \/ PRPage(t) \/ JiraPage(t) \/ ErrorPage(t) \/ Redirect(t)
    PROVE  Inv'
<1>1. req[t].pc # "idle"
  BY DEF FeedPage, PRPage, JiraPage, ErrorPage, Redirect
<1>2. /\ Types /\ TabOK(t) /\ Matches(t) /\ req[t] \in Request
      /\ StageOK(req[t], Done(log[req[t].n]), req[t].n \in admitted)
  BY <1>1, UnderWay
<1>3. {} \subseteq DOMAIN log /\ {} \in SUBSET Nat
  OBVIOUS
<1>4. "feed" \notin Things /\ "error" \notin Things /\ "settings" \notin Things
  BY PagesAssumption
<1>5. CASE FeedPage(t)
  <2>1. req[t].items \in SUBSET Items
    BY <1>2 DEF Request
  <2>2. /\ Grid(req[t].items) \in [Items -> Nat]
        /\ \A i \in Items : Grid(req[t].items)[i] > 0 => i \in req[t].items
    BY <2>1, GridType
  <2>3. \A i \in Items : Grid(req[t].items)[i] > 0 => row[i] # "none"
    BY <1>2, <2>2 DEF TabOK
  <2>4. /\ Show(t, "feed", Grid(req[t].items), {}, "success")
        /\ req[t].pc = "reply" /\ req[t].kind # "comment"
    BY <1>5 DEF FeedPage
  <2>5. "feed" \in Views
    BY DEF Views
  <2> QED BY <1>1, <1>3, <1>4, <2>2, <2>3, <2>4, <2>5, ShowKeeps
<1>6. CASE PRPage(t) \/ JiraPage(t)
  <2>1. /\ Show(t, req[t].thing, NoCards, req[t].comments, "success")
        /\ req[t].pc = "reply" /\ req[t].kind = "page"
    BY <1>6 DEF PRPage, JiraPage
  <2>2. req[t].thing \in Things /\ req[t].thing \in Views
    BY <1>2, <2>1 DEF Matches, Views
  <2>3. "comments" \in req[t].got
    BY <1>2, <2>1 DEF StageOK, Reads
  <2>4. Tells(t, req[t].thing, req[t].comments) /\ req[t].comments \in SUBSET Nat
    BY <1>1, <1>2, <2>3 DEF TabOK, Request
  <2>5. req[t].comments \subseteq DOMAIN log
    BY <2>4 DEF Tells, Thread, Vain, Dropped
  <2> QED BY <1>1, <2>1, <2>2, <2>4, <2>5, NoCardsType, ShowKeeps
<1>7. CASE ErrorPage(t)
  <2>1. Show(t, "error", NoCards, {}, "error") /\ "error" \in Views
    BY <1>7 DEF ErrorPage, Views
  <2> QED BY <1>1, <1>3, <1>4, <2>1, NoCardsType, ShowKeeps
<1>8. CASE Redirect(t)
  <2>1. Show(t, "settings", NoCards, {}, "error") /\ "settings" \in Views
    BY <1>8 DEF Redirect, Views
  <2> QED BY <1>1, <1>3, <1>4, <2>1, NoCardsType, ShowKeeps
<1> QED BY <1>5, <1>6, <1>7, <1>8

(* The end of a request that leaves what the tab shows.                      *)
LEMMA SilentEndKeeps ==
    ASSUME Inv, NEW t \in Tabs, Observe, ShowError(t) \/ GivesUp(t)
    PROVE  Inv'
<1>1. req[t].pc # "idle"
  BY DEF ShowError, GivesUp, Active
<1>2. Types /\ TabOK(t) /\ Matches(t)
  BY <1>1, UnderWay
<1>3. PICK answer \in {"none", "error"} : Answered(t, answer)
  BY DEF ShowError, GivesUp
<1>4. /\ Goto(t, NoRequest) /\ UNCHANGED <<row, seen, configured, jira, tab, poll>>
      /\ failures' \in Nat
  BY <1>2 DEF ShowError, GivesUp, Fault, Types
<1> DEFINE v == tab[t]
           p == poll[t]
<1>5. v \in View /\ p \in PollState
  BY <1>2 DEF Types
<1>6. tab' = [tab EXCEPT ![t] = v] /\ poll' = [poll EXCEPT ![t] = p]
  BY <1>2, <1>4 DEF Types
<1>7. /\ p.pc # "idle" => v.view = "feed"
      /\ \A i \in p.items : row[i] # "none"
      /\ \A i \in Items : v.cards[i] > 0 => row[i] # "none"
      /\ v.comments \subseteq DOMAIN log
      /\ v.view \in Things => Tells(t, v.view, v.comments)
  BY <1>2 DEF TabOK
<1>8. v.view \in Things =>
              /\ v.comments \subseteq Thread(v.view) \union Vain(t, v.view)
              /\ \A n \in Thread(v.view) :
                    /\ log[n].tab = t
                    /\ log[n].answer = "success" \/ (n = req[t].n /\ answer = "success")
                    => n \in v.comments
  BY <1>7 DEF Tells
<1> HIDE DEF v, p
<1> QED BY <1>1, <1>3, <1>4, <1>5, <1>6, <1>7, <1>8, AnswerKeeps

(* The grid that takes the place of a card: the card was there.              *)
LEMMA InsertGridKeeps ==
    ASSUME Inv, NEW t \in Tabs, Observe, InsertGrid(t)
    PROVE  Inv'
<1>1. /\ req[t].pc = "reply" /\ req[t].kind = "dismiss" /\ Answered(t, "success")
      /\ Goto(t, NoRequest) /\ UNCHANGED <<row, seen, configured, jira, poll, failures>>
  BY DEF InsertGrid
<1>2. Types /\ TabOK(t) /\ Matches(t) /\ req[t] \in Request
  BY <1>1, UnderWay
<1> DEFINE new == Grid(req[t].items)
           old == Grid({req[t].item})
           shown == tab[t].cards
           cards == IF ~req[t].card THEN shown
                    ELSE [i \in Items |-> shown[i] + new[i] - old[i]]
           v == [tab[t] EXCEPT !.cards = cards]
<1>3. /\ req[t].items \in SUBSET Items /\ {req[t].item} \in SUBSET Items
      /\ shown \in [Items -> Nat] /\ tab[t] \in View /\ poll[t] \in PollState
  BY <1>1, <1>2 DEF Types, Request, View, Matches
<1>4. /\ new \in [Items -> Nat] /\ \A i \in Items : new[i] = IF i \in req[t].items THEN 1 ELSE 0
      /\ \A i \in Items : old[i] = IF i = req[t].item THEN 1 ELSE 0
  BY <1>3, GridType
<1>5. req[t].card => shown[req[t].item] > 0
  BY <1>1, <1>2 DEF Matches
<1>6. tab' = [tab EXCEPT ![t] = v]
  BY DEF InsertGrid
<1> HIDE DEF new, old, shown
<1>7. \A i \in Items : req[t].card => shown[i] + new[i] - old[i] \in Nat
  BY <1>3, <1>4, <1>5
<1>8. cards \in [Items -> Nat]
  BY <1>3, <1>7
<1>9. ASSUME NEW i \in Items, cards[i] > 0 PROVE row[i] # "none"
  <2>1. shown[i] > 0 \/ i \in req[t].items
    BY <1>3, <1>4, <1>9
  <2> QED BY <1>2, <2>1 DEF TabOK, shown
<1> HIDE DEF cards
<1>10. v \in View /\ v.view = tab[t].view /\ v.comments = tab[t].comments /\ v.cards = cards
  BY <1>3, <1>8 DEF View
<1> HIDE DEF v
<1>11. poll' = [poll EXCEPT ![t] = poll[t]] /\ failures' \in Nat
  BY <1>1, <1>2 DEF Types
<1>12. /\ poll[t].pc # "idle" => v.view = "feed"
       /\ \A i \in poll[t].items : row[i] # "none"
       /\ \A i \in Items : v.cards[i] > 0 => row[i] # "none"
       /\ v.comments \subseteq DOMAIN log
  BY <1>2, <1>9, <1>10 DEF TabOK
<1>13. v.view \in Things =>
              /\ v.comments \subseteq Thread(v.view) \union Vain(t, v.view)
              /\ \A n \in Thread(v.view) :
                    /\ log[n].tab = t
                    /\ log[n].answer = "success" \/ (n = req[t].n /\ "success" = "success")
                    => n \in v.comments
  BY <1>1, <1>2, <1>10 DEF TabOK, Tells, Thread, Matches
<1> QED BY <1>1, <1>3, <1>6, <1>10, <1>11, <1>12, <1>13, AnswerKeeps

(* What is appended to the comments has been posted or dropped.              *)
LEMMA AppendKeeps ==
    ASSUME Inv, NEW t \in Tabs, Observe, AppendPartial(t)
    PROVE  Inv'
<1> DEFINE n == req[t].n
<1>1. /\ req[t].pc = "reply" /\ req[t].kind \in Posts \union {"seen"} /\ Answered(t, "success")
      /\ Goto(t, NoRequest) /\ UNCHANGED <<row, seen, configured, jira, poll, failures>>
  BY DEF AppendPartial
<1>2. /\ Types /\ TabOK(t) /\ Matches(t) /\ req[t] \in Request /\ n \in DOMAIN log
      /\ StageOK(req[t], Done(log[n]), n \in admitted)
  BY <1>1, UnderWay
<1> DEFINE c == IF req[t].kind = "comment" THEN tab[t].comments \union {n} ELSE tab[t].comments
           v == [tab[t] EXCEPT !.comments = c]
<1>3. tab' = [tab EXCEPT ![t] = v]
  BY DEF AppendPartial
<1>4. n \in Nat /\ tab[t] \in View /\ poll[t] \in PollState
  BY <1>2 DEF Types
<1>5. c \in SUBSET Nat /\ c \subseteq DOMAIN log
  BY <1>2, <1>4 DEF View, TabOK
<1>6. ASSUME tab[t].view \in Things
      PROVE  /\ c \subseteq Thread(tab[t].view) \union Vain(t, tab[t].view)
             /\ \A k \in Thread(tab[t].view) :
                    /\ log[k].tab = t
                    /\ log[k].answer = "success" \/ (k = n /\ "success" = "success")
                    => k \in c
  <2>1. Tells(t, tab[t].view, tab[t].comments)
    BY <1>2, <1>6 DEF TabOK
  <2>2. CASE req[t].kind = "comment"
    <3>1. Done(log[n]) = 1 /\ log[n].posted \in Nat
      BY <1>1, <1>2, <2>2, EntryOf DEF StageOK, Posts, Types
    <3>5. log[n].posted > 0 \/ log[n].dropped
      BY <3>1 DEF Done
    <3>2. log[n].kind = "comment" /\ log[n].thing = tab[t].view
      BY <1>2, <2>2 DEF Matches
    <3>3. n \in Thread(tab[t].view) \union Vain(t, tab[t].view)
      BY <1>2, <3>2, <3>5 DEF Thread, Vain, Dropped, Matches
    <3>4. c = tab[t].comments \union {n}
      BY <2>2
    <3> HIDE DEF c, n
    <3> QED BY <2>1, <3>3, <3>4 DEF Tells
  <2>3. CASE req[t].kind # "comment"
    BY <1>2, <2>1, <2>3 DEF Tells, Thread, Matches
  <2> QED BY <2>2, <2>3
<1> HIDE DEF c
<1>7. v \in View /\ v.view = tab[t].view /\ v.comments = c /\ v.cards = tab[t].cards
  BY <1>4, <1>5 DEF View
<1> HIDE DEF v
<1>8. poll' = [poll EXCEPT ![t] = poll[t]] /\ failures' \in Nat
  BY <1>1, <1>2 DEF Types
<1>9. /\ poll[t].pc # "idle" => v.view = "feed"
      /\ \A i \in poll[t].items : row[i] # "none"
      /\ \A i \in Items : v.cards[i] > 0 => row[i] # "none"
  BY <1>2, <1>7 DEF TabOK
<1>10. v.view \in Things =>
              /\ v.comments \subseteq Thread(v.view) \union Vain(t, v.view)
              /\ \A k \in Thread(v.view) :
                    /\ log[k].tab = t
                    /\ log[k].answer = "success" \/ (k = req[t].n /\ "success" = "success")
                    => k \in v.comments
  BY <1>6, <1>7
<1>11. v.comments \subseteq DOMAIN log
  BY <1>5, <1>7
<1> HIDE DEF n
<1> QED BY <1>1, <1>3, <1>4, <1>7, <1>8, <1>9, <1>10, <1>11, AnswerKeeps

(* A post that succeeds or fails.                                            *)
LEMMA SendOnKeeps ==
    ASSUME Inv, NEW t \in Tabs, Observe, SendOn(t)
    PROVE  Inv'
<1>1. req[t].pc = "post" /\ UNCHANGED <<row, seen, configured, jira, tab, poll, failures>>
  BY DEF SendOn
<1>2. failures' \in Nat
  BY <1>1 DEF Inv, Types
<1>3. CASE log' = Posted(t) /\ Goto(t, Advance(t))
  BY <1>1, <1>2, <1>3, UnderWay, PostedLog, PostKeeps
<1>4. CASE UNCHANGED log /\ Goto(t, Error(t))
  BY <1>1, <1>2, <1>4, EndKeeps DEF Error
<1> QED BY <1>3, <1>4 DEF SendOn

(* A comment that is dropped, or refused.                                    *)
LEMMA NoopKeeps ==
    ASSUME Inv, NEW t \in Tabs, Observe, NoopPostComment(t), req[t].kind = "comment",
           req[t].thing \in Issues
    PROVE  Inv'
<1>1. req[t].pc = "post" /\ UNCHANGED <<row, seen, configured, jira, tab, poll, failures>>
  BY DEF NoopPostComment
<1>2. /\ failures' \in Nat /\ Types /\ Matches(t) /\ req[t].n \in DOMAIN log
      /\ StageOK(req[t], Done(log[req[t].n]), req[t].n \in admitted)
  BY <1>1, UnderWay DEF Types
<1>3. CASE log' = [log EXCEPT ![req[t].n].dropped = TRUE] /\ Goto(t, Advance(t))
  <2>1. Done(log[req[t].n]) = 0 /\ log[req[t].n].posted \in Nat
    BY <1>1, <1>2, EntryOf DEF StageOK, Posts, Types
  <2>2. ~log[req[t].n].dropped
    BY <2>1 DEF Done
  <2>3. log[req[t].n].kind = "comment" /\ log[req[t].n].thing \in Issues
    BY <1>2 DEF Matches
  <2>4. Sent(t)
    BY <1>2, <1>3, <2>2, <2>3, DroppedLog
  <2> QED BY <1>1, <1>2, <1>3, <2>4, PostKeeps
<1>4. CASE UNCHANGED log /\ Goto(t, Error(t))
  BY <1>1, <1>2, <1>4, EndKeeps DEF Error
<1> QED BY <1>3, <1>4 DEF NoopPostComment

(* A call that fails, perhaps after a post took effect.                      *)
LEMMA CallFailsKeeps ==
    ASSUME Inv, NEW t \in Tabs, Observe, CallFails(t)
    PROVE  Inv'
<1>1. /\ req[t].pc \notin {"idle", "reply", "redirect", "error"}
      /\ UNCHANGED <<row, seen, configured, jira, tab, poll>>
  BY DEF CallFails
<1>2. Types /\ TabOK(t) /\ req[t] \in Request
  BY <1>1, UnderWay
<1>3. /\ failures' \in Nat /\ row' \in [Items -> {"none", "live", "dismissed"}]
      /\ (seen \subseteq {i \in Items : row[i] # "none"})'
  BY <1>1, <1>2 DEF Inv, Types, CallFails, Fault
<1>4. CASE req[t].pc = "mark"
  <2>1. Goto(t, Advance(t)) /\ UNCHANGED log
    BY <1>4 DEF CallFails
  <2>2. /\ \A i \in Advance(t).items : row'[i] # "none"
        /\ "comments" \in Advance(t).got => Tells(t, Advance(t).thing, Advance(t).comments)
    BY <1>1, <1>2, Advanced DEF TabOK
  <2> QED BY <1>1, <1>2, <1>3, <1>4, <2>1, <2>2, Advanced, AdvanceKeeps DEF Calls
<1>5. CASE req[t].pc # "mark"
  <2>1. Goto(t, Error(t))
    BY <1>5 DEF CallFails
  <2>2. CASE UNCHANGED log
    BY <1>1, <1>3, <2>1, <2>2, EndKeeps DEF Error
  <2>3. CASE req[t].pc = "post" /\ log' = Posted(t)
    BY <1>1, <1>3, <2>1, <2>3, UnderWay, PostedLog, PostKeeps
  <2> QED BY <2>2, <2>3 DEF CallFails
<1> QED BY <1>4, <1>5

(* A request of the user.                                                    *)
LEMMA SendKeeps ==
    ASSUME Inv, NEW t \in Tabs, Observe,
           NEW kind \in Kinds, NEW item \in Items \union {{}}, NEW thing \in Things \union {{}},
           Send(t, kind, item, thing),
           kind \in {"seen", "dismiss"} => item \in Items /\ tab[t].cards[item] > 0,
           kind \in Posts \union {"page"} => thing \in Things,
           kind = "comment" => tab[t].view = thing
    PROVE  Inv'
<1> DEFINE n == Len(log) + 1
           e == [tab |-> t, kind |-> kind, thing |-> thing, posted |-> 0, dropped |-> FALSE,
                 answer |-> "none"]
           r == [NoRequest EXCEPT !.kind = kind, !.n = n, !.item = item, !.thing = thing,
                                  !.pc = First(kind), !.card = TRUE]
<1>1. /\ Types /\ TabOK(t) /\ admitted \subseteq DOMAIN log
      /\ log \in Seq(Entry) /\ DOMAIN log = 1..Len(log) /\ Len(log) \in Nat
  BY DEF Inv, Types
<1>2. /\ Goto(t, r) /\ log' = Append(log, e) /\ req[t].pc = "idle"
      /\ UNCHANGED <<row, seen, configured, jira, tab, poll, failures>>
  BY DEF Send, Active
<1>3. e \in Entry /\ e.tab = t /\ e.kind = kind /\ e.thing = thing /\ e.posted = 0
      /\ e.dropped = FALSE /\ e.answer = "none"
  BY DEF Entry
<1> HIDE DEF e
<1>4. /\ log' \in Seq(Entry) /\ Len(log') = n
      /\ \A k \in 1..Len(log) : log'[k] = log[k]
      /\ log'[n] = e
  BY <1>1, <1>2, <1>3, AppendProperties
<1>5. /\ DOMAIN log' = 1..n /\ n \in Nat /\ n \in DOMAIN log'
      /\ \A k \in DOMAIN log' : k \notin DOMAIN log => k = n
  BY <1>1, <1>4
<1> HIDE DEF n
<1>6. /\ First(kind) \in Stages
      /\ r = [pc |-> First(kind), kind |-> kind, n |-> n, item |-> item, thing |-> thing, got |-> {},
              items |-> {}, comments |-> {}, card |-> TRUE]
  <2>1. First(kind) \in Stages
    BY DEF First, Stages
  <2> DEFINE f == First(kind)
  <2>2. r = [NoRequest EXCEPT !.kind = kind, !.n = n, !.item = item, !.thing = thing,
                              !.pc = f, !.card = TRUE]
    OBVIOUS
  <2> HIDE DEF f, r
  <2>3. r = [pc |-> f, kind |-> kind, n |-> n, item |-> item, thing |-> thing, got |-> {},
             items |-> {}, comments |-> {}, card |-> TRUE]
    BY <2>2 DEF NoRequest
  <2> QED BY <2>1, <2>3 DEF f
<1>7. /\ r \in Request /\ r.pc = First(kind) /\ r.kind = kind /\ r.n = n /\ r.item = item
      /\ r.thing = thing /\ r.got = {} /\ r.items = {}
  BY <1>5, <1>6 DEF Request
<1> HIDE DEF r
<1>8. req' \in [Tabs -> Request] /\ req'[t] = r /\ \A u \in Tabs : u # t => req'[u] = req[u]
  BY <1>1, <1>2, <1>7, Gone
<1>9. Types'
  BY <1>1, <1>2, <1>4, <1>8 DEF Types
<1>10. \A k \in DOMAIN log : k \in DOMAIN log' /\ log'[k] = log[k]
  BY <1>1, <1>4 DEF n
<1>11. admitted \subseteq admitted'
  BY <1>1, <1>10 DEF Observe
<1>12. Grows
  <2>1. \A k \in DOMAIN log : log[k].posted >= log[k].posted
    BY <1>1, EntryOf DEF Types
  <2> QED BY <1>2, <1>10, <1>11, <2>1 DEF Grows
<1>13. \A u \in Tabs : u # t => Untouched(u)
  BY <1>2, <1>3, <1>4, <1>5, <1>8, <1>10 DEF Untouched
<1>14. TabOK(t)'
  <2>1. ASSUME NEW x, NEW c, Tells(t, x, c) PROVE Tells(t, x, c)'
    <3>1. \A k \in DOMAIN log' : log'[k].answer = "success" => k \in DOMAIN log /\ log'[k] = log[k]
      BY <1>3, <1>4, <1>5, <1>10
    <3> QED BY <1>1, <1>9, <1>12, <2>1, <3>1, TellsStill
  <2>2. (tab[t].view \in Things => Tells(t, tab[t].view, tab[t].comments))'
    <3>1. ASSUME NEW x, NEW c, x = tab[t].view, c = tab[t].comments, x \in Things
          PROVE  Tells(t, x, c)'
      BY <1>1, <2>1, <3>1 DEF TabOK
    <3> QED BY <1>2, <3>1 DEF Tells, Thread, Vain, Dropped
  <2>3. \A i \in req'[t].items \union poll'[t].items : row'[i] # "none"
    BY <1>1, <1>2, <1>7, <1>8 DEF TabOK
  <2> QED BY <1>1, <1>2, <1>7, <1>8, <1>10, <2>2, <2>3 DEF TabOK
<1>15. ReqOK(t)'
  <2>1. Matches(t)'
    <3>1. kind \in {"seen", "dismiss"} => item \in Items /\ row[item] # "none"
      BY <1>1 DEF TabOK
    <3> QED BY <1>2, <1>3, <1>4, <1>5, <1>7, <1>8, <3>1 DEF Matches
  <2>2. StageOK(r, 0, n \in admitted')
    BY <1>7 DEF StageOK, First, Kinds, Posts, Calls
  <2>3. Done(e) = 0
    BY <1>3 DEF Done
  <2> QED BY <1>3, <1>4, <1>7, <1>8, <2>1, <2>2, <2>3 DEF ReqOK
<1>16. ASSUME NEW k \in DOMAIN log', k \notin DOMAIN log \/ log'[k] # log[k] PROVE LogOK(k)'
  <2>1. log'[k] = e
    BY <1>4, <1>5, <1>10, <1>16
  <2> QED BY <1>3, <2>1 DEF LogOK, Done
<1>17. (seen \subseteq {i \in Items : row[i] # "none"})'
  BY <1>2 DEF Inv
<1> QED BY <1>9, <1>12, <1>13, <1>14, <1>15, <1>16, <1>17, StepKeeps

(* Everything a user can do.                                                 *)
LEMMA ActKeeps ==
    ASSUME Inv, NEW t \in Tabs, Observe, Act(t)
    PROVE  Inv'
<1> USE DEF Kinds, Posts, Things
<1>1. CASE Home(t)
  BY <1>1, SendKeeps DEF Home
<1>2. CASE OpenPage(t)
  BY <1>2, SendKeeps DEF OpenPage
<1>3. CASE ClickCard(t)
  <2>1. PICK i \in Items, kind \in {"dismiss", "seen"} :
           tab[t].cards[i] > 0 /\ Send(t, kind, i, {})
    BY <1>3 DEF ClickCard
  <2> QED BY <2>1, SendKeeps
<1>4. CASE CommentForm(t)
  BY <1>4, SendKeeps DEF CommentForm
<1>5. CASE IssueCommentForm(t)
  BY <1>5, SendKeeps DEF IssueCommentForm
<1>6. CASE ReviewForm(t)
  BY <1>6, SendKeeps DEF ReviewForm
<1>7. CASE ReviewersForm(t)
  <2>1. PICK x \in Mine : tab[t].view = x /\ Send(t, "reviewers", {}, x)
    BY <1>7 DEF ReviewersForm
  <2>2. x \in Things
    BY PagesAssumption
  <2> QED BY <2>1, <2>2, SendKeeps
<1> QED BY <1>1, <1>2, <1>3, <1>4, <1>5, <1>6, <1>7 DEF Act

\* What a poll does to its tab and to the request that is under way there.
PollStep(t, p, v, r) ==
    /\ poll' = [poll EXCEPT ![t] = p] /\ tab' = [tab EXCEPT ![t] = v] /\ Goto(t, r)
    /\ p.pc # "idle" => v.view = "feed"
    /\ \A i \in p.items : row[i] # "none"
    /\ v.view = tab[t].view /\ v.comments = tab[t].comments
    /\ \A i \in Items : v.cards[i] > 0 => row[i] # "none"
    /\ r.pc = req[t].pc /\ r.kind = req[t].kind /\ r.n = req[t].n /\ r.item = req[t].item
    /\ r.thing = req[t].thing /\ r.got = req[t].got /\ r.items = req[t].items
    /\ r.comments = req[t].comments
    /\ r.card => req[t].card /\ v.cards = tab[t].cards

(* A step of the poll of a tab.                                              *)
LEMMA PollKeeps ==
    ASSUME Inv, NEW t \in Tabs, Observe, Poll(t) \/ PollFails(t)
    PROVE  Inv'
<1>1. Types /\ TabOK(t) /\ ReqOK(t) /\ admitted \subseteq DOMAIN log
  BY DEF Inv
<1>2. UNCHANGED <<row, seen, configured, jira, log>> /\ failures' \in Nat
  BY <1>1 DEF Poll, SendPoll, Fragment, SwapFeed, PollFails, Fault, Types
<1>3. req[t] \in Request /\ poll[t] \in PollState /\ tab[t] \in View
  BY <1>1 DEF Types
<1>4. PICK p \in PollState, v \in View, r \in Request : PollStep(t, p, v, r)
  <2>1. ASSUME UNCHANGED <<tab, req>>, NEW p \in PollState, poll' = [poll EXCEPT ![t] = p],
               p.pc # "idle" => tab[t].view = "feed", \A i \in p.items : row[i] # "none"
        PROVE  PollStep(t, p, tab[t], req[t])
    <3>1. tab' = [tab EXCEPT ![t] = tab[t]] /\ Goto(t, req[t])
      BY <1>1, <2>1 DEF Types, Goto
    <3> QED BY <1>1, <2>1, <3>1 DEF TabOK, PollStep
  <2>2. CASE SendPoll(t)
    <3> DEFINE p == [poll[t] EXCEPT !.pc = "list"]
    <3>1. p \in PollState /\ p.items = poll[t].items
      BY <1>3 DEF PollState
    <3>2. poll' = [poll EXCEPT ![t] = p] /\ tab[t].view = "feed" /\ UNCHANGED <<tab, req>>
      BY <2>2 DEF SendPoll
    <3> HIDE DEF p
    <3>3. PollStep(t, p, tab[t], req[t])
      BY <1>1, <2>1, <3>1, <3>2 DEF TabOK
    <3> QED BY <1>3, <3>1, <3>3
  <2>3. CASE Fragment(t)
    <3> DEFINE p == [pc |-> "reply", items |-> ListRanked]
    <3>1. p \in PollState /\ p.items = ListRanked
      BY RankedLive DEF PollState
    <3>2. poll' = [poll EXCEPT ![t] = p] /\ tab[t].view = "feed" /\ UNCHANGED <<tab, req>>
      BY <1>1, <2>3 DEF Fragment, TabOK
    <3> HIDE DEF p
    <3>3. PollStep(t, p, tab[t], req[t])
      BY <2>1, <3>1, <3>2, RankedLive
    <3> QED BY <1>3, <3>1, <3>3
  <2>4. CASE PollFails(t)
    <3>1. poll' = [poll EXCEPT ![t] = NoPoll] /\ UNCHANGED <<tab, req>>
      BY <2>4 DEF PollFails
    <3>2. PollStep(t, NoPoll, tab[t], req[t])
      BY <2>1, <3>1, NoPollType
    <3> QED BY <1>3, <3>2, NoPollType
  <2>5. CASE SwapFeed(t)
    <3> DEFINE g == Grid(poll[t].items)
               v == [tab[t] EXCEPT !.cards = g]
               r == [req[t] EXCEPT !.card = FALSE]
    <3>1. /\ poll' = [poll EXCEPT ![t] = NoPoll] /\ tab' = [tab EXCEPT ![t] = v] /\ Goto(t, r)
      BY <2>5 DEF SwapFeed, Goto
    <3>2. g \in [Items -> Nat] /\ \A i \in Items : g[i] > 0 => i \in poll[t].items
      BY <1>3, GridType DEF PollState
    <3> HIDE DEF g
    <3>3. v \in View /\ v.view = tab[t].view /\ v.comments = tab[t].comments /\ v.cards = g
      BY <1>3, <3>2 DEF View
    <3> HIDE DEF v
    <3>4. /\ r \in Request /\ r.pc = req[t].pc /\ r.kind = req[t].kind /\ r.n = req[t].n
          /\ r.item = req[t].item /\ r.thing = req[t].thing /\ r.got = req[t].got
          /\ r.items = req[t].items /\ r.comments = req[t].comments /\ r.card = FALSE
      BY <1>3 DEF Request
    <3> HIDE DEF r
    <3>5. \A i \in Items : v.cards[i] > 0 => row[i] # "none"
      BY <1>1, <3>2, <3>3 DEF TabOK
    <3> QED BY <3>1, <3>3, <3>4, <3>5, NoPollType DEF PollStep
  <2> QED BY <2>2, <2>3, <2>4, <2>5 DEF Poll
<1> USE DEF PollStep
<1>5. req' \in [Tabs -> Request] /\ req'[t] = r /\ \A u \in Tabs : u # t => req'[u] = req[u]
  BY <1>1, <1>4, Gone
<1>6. /\ tab' \in [Tabs -> View] /\ tab'[t] = v /\ \A u \in Tabs : u # t => tab'[u] = tab[u]
      /\ poll' \in [Tabs -> PollState] /\ poll'[t] = p
      /\ \A u \in Tabs : u # t => poll'[u] = poll[u]
  BY <1>1, <1>4 DEF Types
<1>7. Types'
  BY <1>1, <1>2, <1>5, <1>6 DEF Types
<1>8. Grows
  <2>1. \A k \in DOMAIN log : log[k].posted >= log[k].posted
    BY <1>1, EntryOf DEF Types
  <2>2. admitted \subseteq admitted'
    BY <1>1, <1>2 DEF Observe
  <2> QED BY <1>2, <2>1, <2>2 DEF Grows
<1>9. \A u \in Tabs : u # t => Untouched(u)
  BY <1>2, <1>5, <1>6 DEF Untouched
<1>10. TabOK(t)'
  <2>1. (tab[t].view \in Things => Tells(t, tab[t].view, tab[t].comments))'
    BY <1>1, <1>2, <1>4, <1>6 DEF TabOK, Tells, Thread, Vain, Dropped
  <2>2. (req[t].pc # "idle" /\ "comments" \in req[t].got => Tells(t, req[t].thing, req[t].comments))'
    BY <1>1, <1>2, <1>4, <1>5 DEF TabOK, Tells, Thread, Vain, Dropped
  <2> QED BY <1>1, <1>2, <1>4, <1>5, <1>6, <2>1, <2>2 DEF TabOK
<1>11. ReqOK(t)'
  <2>1. CASE req[t].pc = "idle"
    BY <1>4, <1>5, <2>1 DEF ReqOK
  <2>2. CASE req[t].pc # "idle"
    <3>1. Matches(t)'
      BY <1>1, <1>2, <1>4, <1>5, <1>6, <2>2 DEF ReqOK, Matches
    <3>2. StageOK(r, Done(log[r.n]), r.n \in admitted')
      BY <1>1, <1>4, <1>8, <2>2 DEF ReqOK, StageOK, Grows
    <3> QED BY <1>2, <1>5, <3>1, <3>2 DEF ReqOK
  <2> QED BY <2>1, <2>2
<1>12. (seen \subseteq {i \in Items : row[i] # "none"})'
  BY <1>2 DEF Inv
<1> QED BY <1>2, <1>7, <1>8, <1>9, <1>10, <1>11, <1>12, StepKeeps

(* A worker, or the settings page.                                           *)
LEMMA OutsideKeeps ==
    ASSUME Inv, Observe, (\E i \in Items : Upsert(i)) \/ SaveSpaces
    PROVE  Inv'
<1>1. Types /\ admitted \subseteq DOMAIN log
  BY DEF Inv
<1>2. /\ UNCHANGED <<seen, jira, tab, poll, req, log, failures>>
      /\ row' \in [Items -> {"none", "live", "dismissed"}]
      /\ \A i \in Items : row[i] # "none" => row'[i] # "none"
  BY <1>1 DEF Upsert, SaveSpaces, Types
<1>3. configured' \in BOOLEAN
  BY <1>1 DEF Upsert, SaveSpaces, Types
<1>4. Types'
  BY <1>1, <1>2, <1>3 DEF Types
<1>5. Grows
  <2>1. \A k \in DOMAIN log : log[k].posted >= log[k].posted
    BY <1>1, EntryOf DEF Types
  <2>2. admitted \subseteq admitted'
    BY <1>1, <1>2 DEF Observe
  <2> QED BY <1>2, <2>1, <2>2 DEF Grows
<1>6. \A u \in Tabs : Untouched(u)
  BY <1>2 DEF Untouched
<1>7. \A u \in Tabs : TabOK(u)' /\ ReqOK(u)'
  BY <1>1, <1>4, <1>5, <1>6, OthersKeep DEF Inv
<1>8. \A n \in DOMAIN log' : LogOK(n)'
  BY <1>1, <1>2, <1>5, LogStill DEF Inv
<1>9. (seen \subseteq {i \in Items : row[i] # "none"})' /\ (admitted \subseteq DOMAIN log)'
  BY <1>2 DEF Inv, Observe
<1> QED BY <1>4, <1>7, <1>8, <1>9 DEF Inv

(* Nothing is under way after a restart.                                     *)
LEMMA RestartKeeps ==
    ASSUME Inv, Observe, Restart
    PROVE  Inv'
<1>1. /\ jira' \in {"client", "noop"} /\ UNCHANGED <<row, seen, configured, tab, log>>
      /\ poll' = [t \in Tabs |-> NoPoll] /\ req' = [t \in Tabs |-> NoRequest]
  BY DEF Restart
<1>2. Types /\ admitted \subseteq DOMAIN log /\ failures' \in Nat
  BY DEF Inv, Restart, Fault, Types
<1>3. Types'
  BY <1>1, <1>2, NoPollType, NoRequestType DEF Types
<1>4. Grows
  <2>1. \A k \in DOMAIN log : log[k].posted >= log[k].posted
    BY <1>2, EntryOf DEF Types
  <2>2. admitted \subseteq admitted'
    BY <1>1, <1>2 DEF Observe
  <2> QED BY <1>1, <2>1, <2>2 DEF Grows
<1>5. ASSUME NEW t \in Tabs PROVE TabOK(t)' /\ ReqOK(t)'
  <2>1. /\ poll'[t].pc = "idle" /\ poll'[t].items = {}
        /\ req'[t].pc = "idle" /\ req'[t].items = {}
    BY <1>1, NoPollType, NoRequestType
  <2>2. (tab[t].view \in Things => Tells(t, tab[t].view, tab[t].comments))'
    BY <1>1 DEF Inv, TabOK, Tells, Thread, Vain, Dropped
  <2> QED BY <1>1, <2>1, <2>2 DEF Inv, TabOK, ReqOK
<1>6. \A n \in DOMAIN log' : LogOK(n)'
  BY <1>1, <1>2, <1>4, LogStill DEF Inv
<1>7. (seen \subseteq {i \in Items : row[i] # "none"})' /\ (admitted \subseteq DOMAIN log)'
  BY <1>1 DEF Inv, Observe
<1> QED BY <1>3, <1>5, <1>6, <1>7 DEF Inv

(* Everything a handler and the browser do with a request.                   *)
LEMMA HandleKeeps ==
    ASSUME Inv, NEW t \in Tabs, Observe, Handle(t)
    PROVE  Inv'
<1>1. CASE Gate(t)
  BY <1>1, GateKeeps
<1>2. CASE FetchPR(t) \/ FetchIssue(t)
  <2>1. req[t].pc \in Calls /\ req[t].pc # "idle"
    BY <1>2 DEF FetchPR, FetchIssue, Calls
  <2>2. CASE Fetched(t)
    BY <2>1, <2>2, FetchedKeeps
  <2>3. CASE /\ Goto(t, Error(t))
             /\ UNCHANGED <<row, seen, configured, jira, tab, poll, log, failures>>
    <3>1. failures' \in Nat
      BY <2>3 DEF Inv, Types
    <3> QED BY <2>1, <2>3, <3>1, EndKeeps DEF Error
  <2> QED BY <1>2, <2>2, <2>3 DEF FetchPR, FetchIssue
<1>3. CASE MarkSeenByThing(t)
  BY <1>3, MarkKeeps
<1>4. CASE ReadFeed(t) \/ Dismiss(t) \/ MarkSeen(t)
  BY <1>4, ReadFeedKeeps, DismissKeeps, MarkSeenKeeps
<1>5. CASE PostPRComment(t) \/ PostIssueComment(t) \/ SubmitReview(t) \/ RequestReviewers(t)
  BY <1>5, SendOnKeeps, NoopKeeps DEF PostPRComment, PostIssueComment, SubmitReview, RequestReviewers
<1>6. CASE FeedPage(t) \/ PRPage(t) \/ JiraPage(t) \/ ErrorPage(t) \/ Redirect(t)
  BY <1>6, PageKeeps
<1>7. CASE InsertGrid(t) \/ AppendPartial(t)
  BY <1>7, InsertGridKeeps, AppendKeeps
<1>8. CASE ShowError(t)
  BY <1>8, SilentEndKeeps
<1> QED BY <1>1, <1>2, <1>3, <1>4, <1>5, <1>6, <1>7, <1>8 DEF Handle

(* The invariant holds at first.                                             *)
LEMMA InitInv == Init => Inv
<1> SUFFICES ASSUME Init PROVE Inv
  OBVIOUS
<1>1. ListRanked \in SUBSET Items /\ \A i \in ListRanked : row[i] # "none"
  BY RankedLive
<1>2. /\ Grid(ListRanked) \in [Items -> Nat]
      /\ \A i \in Items : Grid(ListRanked)[i] > 0 => i \in ListRanked
  BY <1>1, GridType
<1>3. PICK view \in Opened :
        tab = [t \in Tabs |-> [view |-> view[t], comments |-> {},
                               cards |-> IF view[t] = "feed" THEN Grid(ListRanked) ELSE NoCards]]
  BY DEF Init
<1>4. \A t \in Tabs : view[t] \in Views /\ poll[t] = NoPoll /\ req[t] = NoRequest
  BY PagesAssumption DEF Init
<1>5. tab \in [Tabs -> View]
  BY <1>2, <1>3, <1>4, NoCardsType DEF View
<1>6. poll \in [Tabs -> PollState] /\ req \in [Tabs -> Request]
  BY NoPollType, NoRequestType DEF Init
<1>7. Types
  <2>1. row \in [Items -> {"none", "live", "dismissed"}]
    BY DEF Init
  <2>2. log \in Seq(Entry)
    BY DEF Init
  <2> QED BY <1>5, <1>6, <2>1, <2>2 DEF Init, Types
<1>8. DOMAIN log = {}
  BY DEF Init
<1>10. ASSUME NEW t \in Tabs PROVE TabOK(t) /\ ReqOK(t)
  <2>1. /\ tab[t].comments = {}
        /\ \A i \in Items : tab[t].cards[i] > 0 => row[i] # "none"
    BY <1>1, <1>2, <1>3, NoCardsType
  <2>3. \A x : Tells(t, x, {})
    BY <1>8 DEF Tells, Thread
  <2>2. /\ poll[t].pc = "idle" /\ poll[t].items = {}
        /\ req[t].pc = "idle" /\ req[t].items = {}
    BY <1>4, NoPollType, NoRequestType
  <2> QED BY <2>1, <2>2, <2>3 DEF TabOK, ReqOK
<1> QED BY <1>7, <1>8, <1>10 DEF Init, Inv

(* The invariant is inductive.                                               *)
LEMMA NextInv == Inv /\ [Next]_vars => Inv'
<1> SUFFICES ASSUME Inv, [Next]_vars PROVE Inv'
  OBVIOUS
<1>1. ASSUME NEW t \in Tabs, Act(t) \/ Handle(t) \/ Poll(t) \/ CallFails(t) \/ GivesUp(t) \/ PollFails(t),
             Observe
      PROVE  Inv'
  BY <1>1, ActKeeps, HandleKeeps, PollKeeps, CallFailsKeeps, SilentEndKeeps
<1>2. ASSUME (\E i \in Items : Upsert(i)) \/ SaveSpaces \/ Restart, Observe PROVE Inv'
  BY <1>2, OutsideKeeps, RestartKeeps
<1>3. CASE UNCHANGED vars
  BY <1>3 DEF vars, Inv, Types, TabOK, ReqOK, Matches, Tells, Thread, Vain, Dropped, LogOK
<1> QED BY <1>1, <1>2, <1>3 DEF Next

(* The invariant holds for ever.                                             *)
LEMMA InvAlways == Spec => []Inv
BY InitInv, NextInv, PTL DEF Spec

-----------------------------------------------------------------------------
(* The theorems                                                            *)

(* Every variable keeps its type; a poll is under way only where the feed is *)
(* shown, and a request belongs to its entry in the log.                     *)
THEOREM TypeCorrect == Spec => []TypeOK
<1>1. Inv => TypeOK
  <2> SUFFICES ASSUME Inv PROVE TypeOK
    OBVIOUS
  <2>1. Types
    BY DEF Inv
  <2>2. ASSUME NEW t \in Tabs
        PROVE  /\ tab[t].view \in Views
               /\ tab[t].cards \in [Items -> Nat] /\ tab[t].comments \subseteq DOMAIN log
               /\ poll[t].pc \in {"idle", "list", "reply"} /\ poll[t].items \subseteq Items
               /\ poll[t].pc # "idle" => tab[t].view = "feed"
               /\ Active(t) => req[t].n \in DOMAIN log /\ log[req[t].n].tab = t
    <3>1. tab[t] \in View /\ poll[t] \in PollState /\ TabOK(t) /\ ReqOK(t)
      BY <2>1 DEF Inv, Types
    <3> QED BY <3>1 DEF View, PollState, TabOK, ReqOK, Matches, Active
  <2>3. \A n \in DOMAIN log : log[n].kind \in Kinds /\ log[n].posted \in Nat
    <3>1. \A n \in DOMAIN log : log[n] \in Entry
      BY <2>1, EntryOf DEF Types
    <3> QED BY <3>1 DEF Entry
  <2> QED BY <2>1, <2>2, <2>3 DEF Inv, Types, TypeOK
<1> QED BY <1>1, InvAlways, PTL

(* However calls fail, time out and interleave, and whenever the process     *)
(* starts again, what a user sends once takes effect at GitHub or Jira at    *)
(* most once, and has done so when the answer says so, but for a comment on  *)
(* an issue in a process without a Jira client.                              *)
THEOREM NothingPostedTwice == Spec => []PostedOnce
<1>1. Inv => PostedOnce
  <2> SUFFICES ASSUME Inv, NEW n \in DOMAIN log
               PROVE  /\ log[n].posted <= 1
                      /\ log[n].kind \in Posts /\ log[n].answer = "success"
                         => log[n].posted = 1 \/ log[n].dropped
                      /\ log[n].dropped
                         => log[n].posted = 0 /\ log[n].kind = "comment" /\ log[n].thing \in Issues
    BY DEF PostedOnce
  <2>1. LogOK(n) /\ log[n].posted \in Nat /\ log[n].dropped \in BOOLEAN
    BY EntryOf DEF Inv, Types
  <2> QED BY <2>1 DEF LogOK, Done
<1> QED BY <1>1, InvAlways, PTL

(* A detail page shows only what is in its thread or the tab itself sent in  *)
(* vain, and all the same tab has posted there with success.                 *)
THEOREM PagesTellThreads == Spec => []PageTellsThread
<1>1. Inv => PageTellsThread
  BY DEF Inv, TabOK, Tells, Vain, PageTellsThread
<1> QED BY <1>1, InvAlways, PTL

(* No page is served and nothing is posted but by requests during which      *)
(* something was configured.                                                 *)
THEOREM NobodyPassesTheGate == Spec => []GateHolds
<1>1. Inv => GateHolds
  BY DEF Inv, LogOK, GateHolds
<1> QED BY <1>1, InvAlways, PTL

(* Only clicks on cards, and pages about which everything they show has been *)
(* fetched, mark items as seen.                                              *)
THEOREM SeenAfterReading == Spec => SeenOnSuccess
<1> DEFINE Shown == \A i \in seen' \ seen :
              \E t \in Tabs :
                 \/ req[t].kind = "seen" /\ req[t].item = i
                 \/ /\ req[t].kind = "page" /\ req[t].thing = ThingOf[i]
                    /\ Reads(ThingOf[i]) \subseteq req[t].got
<1>1. ASSUME Inv, [Next]_vars PROVE [Shown]_vars
  <2>1. CASE UNCHANGED vars
    BY <2>1 DEF vars
  <2>2. ASSUME NEW t \in Tabs, MarkSeenByThing(t) PROVE Shown
    <3>1. req[t].pc = "mark"
      BY <2>2 DEF MarkSeenByThing
    <3>2. StageOK(req[t], Done(log[req[t].n]), req[t].n \in admitted) /\ req[t].kind \in Kinds
      BY <1>1, <3>1, UnderWay
    <3>3. req[t].kind = "page" /\ Reads(req[t].thing) \subseteq req[t].got
      BY <3>1, <3>2 DEF StageOK, Kinds, Posts
    <3> QED BY <2>2, <3>3 DEF MarkSeenByThing
  <2>3. ASSUME NEW t \in Tabs, MarkSeen(t) PROVE Shown
    <3>1. req[t].pc = "seen"
      BY <2>3 DEF MarkSeen
    <3>2. StageOK(req[t], Done(log[req[t].n]), req[t].n \in admitted) /\ req[t].kind \in Kinds
      BY <1>1, <3>1, UnderWay
    <3>3. req[t].kind = "seen"
      BY <3>1, <3>2 DEF StageOK, Kinds, Posts, Calls
    <3> QED BY <2>3, <3>3 DEF MarkSeen
  <2>4. CASE UNCHANGED seen
    BY <2>4
  <2>5. ASSUME NEW t \in Tabs, Act(t) PROVE UNCHANGED seen
    BY <2>5 DEF Act, Home, OpenPage, ClickCard, CommentForm, IssueCommentForm, ReviewForm,
                ReviewersForm, Send
  <2>6. ASSUME NEW t \in Tabs, Handle(t) PROVE MarkSeenByThing(t) \/ MarkSeen(t) \/ UNCHANGED seen
    BY <2>6 DEF Handle, Gate, FetchPR, FetchIssue, Fetched, ReadFeed, Dismiss, PostPRComment,
                PostIssueComment, NoopPostComment, SubmitReview, RequestReviewers, SendOn, FeedPage, PRPage, JiraPage,
                ErrorPage, Redirect, Show, InsertGrid, AppendPartial, ShowError
  <2>7. ASSUME NEW t \in Tabs, Poll(t) \/ CallFails(t) \/ GivesUp(t) \/ PollFails(t)
        PROVE  UNCHANGED seen
    BY <2>7 DEF Poll, SendPoll, Fragment, SwapFeed, CallFails, GivesUp, PollFails
  <2>8. ASSUME (\E i \in Items : Upsert(i)) \/ SaveSpaces \/ Restart PROVE UNCHANGED seen
    BY <2>8 DEF Upsert, SaveSpaces, Restart
  <2> HIDE DEF Shown
  <2> QED BY <1>1, <2>1, <2>2, <2>3, <2>4, <2>5, <2>6, <2>7, <2>8 DEF Next
<1> QED BY <1>1, InvAlways, PTL DEF Spec, SeenOnSuccess

=============================================================================
