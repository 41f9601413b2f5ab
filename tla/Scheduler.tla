----------------------------- MODULE Scheduler -----------------------------
(***************************************************************************)
(* The poll scheduler of churndesk (internal/app/scheduler.go): the calls  *)
(* Start and Reload, the poll goroutine each of them launches for every    *)
(* enabled integration, the map `cancels` of context cancel functions that *)
(* Reload uses to stop the goroutines, and the server context.             *)
(*                                                                         *)
(* A call launches at most one goroutine per integration, so a goroutine   *)
(* (a "worker") is named by the pair <<call, integration>>.  Every         *)
(* critical section of s.mu is one step: no section blocks or reads the    *)
(* database.  Every database read is a step of its own.                    *)
(*                                                                         *)
(* Outside this module: what a sync does (SyncCycle), and the values that  *)
(* refreshFetchers pushes into the fetchers before Reload lists (they      *)
(* never change which goroutines run).                                     *)
(***************************************************************************)
EXTENDS Integers, FiniteSets

CONSTANTS
    Integrations,   \* the rows the integrations table may hold (one per provider)
    Fetchable,      \* those whose provider had a fetcher when main built the map
    Reloads,        \* the calls of Reload that may happen: saves and manual syncs
    Start,          \* the call of Scheduler.Start
    None,           \* "no entry"
    DBErrors        \* TRUE: any listing may fail, not only those of a dead context

Calls   == Reloads \union {Start}
Workers == Calls \X Integrations

ASSUME SchedulerAssumption ==
    /\ Fetchable \subseteq Integrations
    /\ Start \notin Reloads
    /\ None \notin Workers
    /\ DBErrors \in BOOLEAN

VARIABLES
    enabled,    \* the enabled rows of the integrations table
    started,    \* s.ctx # nil: Start has stored the server context
    down,       \* the server context is done (SIGINT, SIGTERM)
    cancels,    \* s.cancels: integration -> the worker whose cancel is stored
    cancelled,  \* the workers whose own cancel function was called
    worker,     \* where each goroutine is in its loop
    call,       \* where each call of Start or Reload is
    todo,       \* the listed integrations a call has still to start
    logged,     \* integrations whose last start attempt ended in a logged error
    overlapped, \* history: the calls that launched while another one did
    stripped    \* history: the workers whose entry another worker deleted

hist == <<overlapped, stripped>>
vars == <<enabled, started, down, cancels, cancelled, worker, call, todo, logged, hist>>

-----------------------------------------------------------------------------

\* <-ctx.Done() is ready in a worker: its own cancel or the server's.
Stopped(w) == down \/ w \in cancelled

Running(w) == worker[w] \notin {"none", "exited"}

\* A goroutine that nothing has told to stop: it keeps writing to the database.
Live(w) == Running(w) /\ ~Stopped(w)

\* The cancel functions in the map.
Registered == {cancels[i] : i \in Integrations} \ {None}

InCall(c) == call[c] \in {"list", "spawn"}

\* The calls that overlap when c begins to launch: c and those that are at it.
Overlap(c) ==
    LET launching == {d \in Calls : InCall(d)}
    IN  IF launching = {} THEN {} ELSE launching \union {c}

-----------------------------------------------------------------------------

\* Any subset of the rows may exist when the process starts.
Init ==
    /\ enabled \in SUBSET Integrations
    /\ started = FALSE
    /\ down = FALSE
    /\ cancels = [i \in Integrations |-> None]
    /\ cancelled = {}
    /\ worker = [w \in Workers |-> "none"]
    /\ call = [c \in Calls |-> "idle"]
    /\ todo = [c \in Calls |-> {}]
    /\ logged = {}
    /\ overlapped = {} /\ stripped = {}

\* SIGINT or SIGTERM: the server context is done.
Shutdown ==
    /\ ~down
    /\ down' = TRUE
    /\ UNCHANGED <<enabled, started, cancels, cancelled, worker, call, todo, logged, hist>>

\* Scheduler.Start, first critical section: publish the server context.
StartPublish ==
    /\ call[Start] = "idle"
    /\ started' = TRUE
    /\ call' = [call EXCEPT ![Start] = "list"]
    /\ overlapped' = overlapped \union Overlap(Start)
    /\ UNCHANGED <<enabled, down, cancels, cancelled, worker, todo, logged, stripped>>

\* Scheduler.Start returns once the server context is done.
StartReturn ==
    /\ call[Start] = "wait"
    /\ down
    /\ call' = [call EXCEPT ![Start] = "done"]
    /\ UNCHANGED <<enabled, started, down, cancels, cancelled, worker, todo, logged, hist>>

\* The settings handler writes an enabled row, then goes on to call Reload.
SaveIntegration(c, i) ==
    /\ call[c] = "idle"
    /\ enabled' = enabled \union {i}
    /\ call' = [call EXCEPT ![c] = "saved"]
    /\ UNCHANGED <<started, down, cancels, cancelled, worker, todo, logged, hist>>

\* As ReloadStop, with the loop over the cancel functions left out.
ReloadStopForgetsToCancel(c) ==
    /\ call[c] \in {"idle", "saved"}
    /\ cancels' = [i \in Integrations |-> None]
    /\ call' = [call EXCEPT ![c] = IF started THEN "list" ELSE "done"]
    /\ overlapped' = overlapped \union (IF started THEN Overlap(c) ELSE {})
    /\ UNCHANGED <<enabled, started, down, cancelled, worker, todo, logged, stripped>>

\* As ReloadStop, with the test for a missing context the wrong way round.
ReloadStopNilTestInverted(c) ==
    /\ call[c] \in {"idle", "saved"}
    /\ cancelled' = cancelled \union Registered
    /\ cancels' = [i \in Integrations |-> None]
    /\ call' = [call EXCEPT ![c] = IF started THEN "done" ELSE "list"]
    /\ overlapped' = overlapped \union (IF started THEN {} ELSE Overlap(c))
    /\ UNCHANGED <<enabled, started, down, worker, todo, logged, stripped>>

(***************************************************************************)
(* Reload's critical section, for a save ("saved") or a manual sync        *)
(* ("idle"): cancel every stored worker, forget them all, and return at    *)
(* once when Start has not published a context.                            *)
(***************************************************************************)
ReloadStop(c) ==
    /\ call[c] \in {"idle", "saved"}
    /\ cancelled' = cancelled \union Registered
    /\ cancels' = [i \in Integrations |-> None]
    /\ call' = [call EXCEPT ![c] = IF started THEN "list" ELSE "done"]
    /\ overlapped' = overlapped \union (IF started THEN Overlap(c) ELSE {})
    /\ UNCHANGED <<enabled, started, down, worker, todo, logged, stripped>>

\* ListIntegrations of Start or Reload succeeds; disabled rows are skipped.
ListIntegrations(c) ==
    /\ call[c] = "list"
    /\ ~down
    /\ todo' = [todo EXCEPT ![c] = enabled]
    /\ call' = [call EXCEPT ![c] = "spawn"]
    /\ UNCHANGED <<enabled, started, down, cancels, cancelled, worker, logged, hist>>

\* ListIntegrations fails: the call returns the error, which its caller logs.
ListIntegrationsFails(c) ==
    /\ call[c] = "list"
    /\ down \/ DBErrors
    /\ call' = [call EXCEPT ![c] = "done"]
    /\ logged' = Integrations
    /\ UNCHANGED <<enabled, started, down, cancels, cancelled, worker, todo, hist>>

\* startWorker finds no fetcher for the provider and only logs.
NoFetcher(c, i) ==
    /\ call[c] = "spawn"
    /\ i \in todo[c] \ Fetchable
    /\ todo' = [todo EXCEPT ![c] = @ \ {i}]
    /\ UNCHANGED <<enabled, started, down, cancels, cancelled, worker, call, logged, hist>>

\* As StartWorker, with the registration left out.
StartWorkerUnregistered(c, i) ==
    /\ call[c] = "spawn"
    /\ i \in todo[c] \intersect Fetchable
    /\ todo' = [todo EXCEPT ![c] = @ \ {i}]
    /\ worker' = [worker EXCEPT ![<<c, i>>] = "spaces"]
    /\ logged' = logged \ {i}
    /\ UNCHANGED <<enabled, started, down, cancels, cancelled, call, hist>>

(***************************************************************************)
(* startWorker: store the new cancel function, over whatever the map held, *)
(* and launch the goroutine.  The loop follows the row order; any order is *)
(* allowed here, which changes no property.                                *)
(***************************************************************************)
StartWorker(c, i) ==
    /\ call[c] = "spawn"
    /\ i \in todo[c] \intersect Fetchable
    /\ todo' = [todo EXCEPT ![c] = @ \ {i}]
    /\ cancels' = [cancels EXCEPT ![i] = <<c, i>>]
    /\ worker' = [worker EXCEPT ![<<c, i>>] = "spaces"]
    /\ logged' = logged \ {i}
    /\ UNCHANGED <<enabled, started, down, cancelled, call, hist>>

\* As SpawnDone, for a Reload that ends like Start does.
SpawnDoneWaits(c) ==
    /\ call[c] = "spawn"
    /\ todo[c] = {}
    /\ call' = [call EXCEPT ![c] = "wait"]
    /\ UNCHANGED <<enabled, started, down, cancels, cancelled, worker, todo, logged, hist>>

\* The loop is over: Start blocks on the server context, Reload returns.
SpawnDone(c) ==
    /\ call[c] = "spawn"
    /\ todo[c] = {}
    /\ call' = [call EXCEPT ![c] = IF c = Start THEN "wait" ELSE "done"]
    /\ UNCHANGED <<enabled, started, down, cancels, cancelled, worker, todo, logged, hist>>

-----------------------------------------------------------------------------
(* The goroutine of startWorker.                                           *)

\* The first ListSpaces succeeds: RunOnce begins at once.
FirstSpaces(w) ==
    /\ worker[w] = "spaces"
    /\ ~Stopped(w)
    /\ worker' = [worker EXCEPT ![w] = "sync"]
    /\ UNCHANGED <<enabled, started, down, cancels, cancelled, call, todo, logged, hist>>

\* As FirstSpacesFails, carrying on with the loop as a later cycle does.
FirstSpacesFailsContinues(w) ==
    /\ worker[w] = "spaces"
    /\ Stopped(w) \/ DBErrors
    /\ worker' = [worker EXCEPT ![w] = "select"]
    /\ logged' = IF Stopped(w) THEN logged ELSE logged \union {w[2]}
    /\ UNCHANGED <<enabled, started, down, cancels, cancelled, call, todo, hist>>

\* It fails (on a dead context it always does): log, and cancel() oneself.
FirstSpacesFails(w) ==
    /\ worker[w] = "spaces"
    /\ Stopped(w) \/ DBErrors
    /\ worker' = [worker EXCEPT ![w] = "drop"]
    /\ cancelled' = cancelled \union {w}
    /\ logged' = IF Stopped(w) THEN logged ELSE logged \union {w[2]}
    /\ UNCHANGED <<enabled, started, down, cancels, call, todo, hist>>

\* As Drop, without the delete.
DropKeepsEntry(w) ==
    /\ worker[w] = "drop"
    /\ worker' = [worker EXCEPT ![w] = "exited"]
    /\ UNCHANGED <<enabled, started, down, cancels, cancelled, call, todo, logged, hist>>

\* delete(s.cancels, integration.ID): whichever worker the entry is of by now.
Drop(w) ==
    /\ worker[w] = "drop"
    /\ cancels' = [cancels EXCEPT ![w[2]] = None]
    /\ worker' = [worker EXCEPT ![w] = "exited"]
    /\ stripped' = stripped \union ({cancels[w[2]]} \ {w, None})
    /\ UNCHANGED <<enabled, started, down, cancelled, call, todo, logged, overlapped>>

\* As EndSync, when an error of RunOnce ends the goroutine.
EndSyncReturns(w) ==
    /\ worker[w] = "sync"
    /\ worker' = [worker EXCEPT ![w] = "exited"]
    /\ UNCHANGED <<enabled, started, down, cancels, cancelled, call, todo, logged, hist>>

\* RunOnce returns, with or without an error: the loop goes on either way.
EndSync(w) ==
    /\ worker[w] = "sync"
    /\ worker' = [worker EXCEPT ![w] = "select"]
    /\ UNCHANGED <<enabled, started, down, cancels, cancelled, call, todo, logged, hist>>

\* select takes the tick: ListSpaces again, then RunOnce.  When it fails the
\* loop waits for the next tick: a stuttering step.
Tick(w) ==
    /\ worker[w] = "select"
    /\ ~Stopped(w)
    /\ worker' = [worker EXCEPT ![w] = "sync"]
    /\ UNCHANGED <<enabled, started, down, cancels, cancelled, call, todo, logged, hist>>

\* As Exit, for a worker context that is not derived from the server's.
ExitOnCancelOnly(w) ==
    /\ worker[w] = "select"
    /\ w \in cancelled
    /\ worker' = [worker EXCEPT ![w] = "exited"]
    /\ UNCHANGED <<enabled, started, down, cancels, cancelled, call, todo, logged, hist>>

\* select takes Done.
Exit(w) ==
    /\ worker[w] = "select"
    /\ Stopped(w)
    /\ worker' = [worker EXCEPT ![w] = "exited"]
    /\ UNCHANGED <<enabled, started, down, cancels, cancelled, call, todo, logged, hist>>

-----------------------------------------------------------------------------

\* A step of a call of Start or Reload that has begun.
CallStep(c) ==
    \/ ListIntegrations(c)
    \/ ListIntegrationsFails(c)
    \/ SpawnDone(c)
    \/ \E i \in Integrations : NoFetcher(c, i) \/ StartWorker(c, i)

\* A step of a poll goroutine.
WorkerStep(w) ==
    \/ FirstSpaces(w) \/ FirstSpacesFails(w) \/ Drop(w)
    \/ EndSync(w) \/ Tick(w) \/ Exit(w)

Next ==
    \/ Shutdown
    \/ StartPublish
    \/ StartReturn
    \/ \E c \in Reloads : ReloadStop(c) \/ \E i \in Integrations : SaveIntegration(c, i)
    \/ \E c \in Calls : CallStep(c)
    \/ \E w \in Workers : WorkerStep(w)

Spec == Init /\ [][Next]_vars

(***************************************************************************)
(* Goroutines that can run do run, and a database call or a sync returns:  *)
(* weak fairness of every step but the requests and the signal; the ticker *)
(* fires for ever.  A ready tick can postpone Exit, but select chooses at  *)
(* random among the ready channels, so Done is not passed over for ever.   *)
(* A save is followed by its Reload: the handler is one goroutine.         *)
(***************************************************************************)
Fairness ==
    /\ WF_vars(StartPublish) /\ WF_vars(StartReturn)
    /\ \A c \in Reloads : WF_vars(call[c] = "saved" /\ ReloadStop(c))
    /\ \A c \in Calls : WF_vars(CallStep(c))
    /\ \A w \in Workers :
         /\ WF_vars(FirstSpaces(w) \/ FirstSpacesFails(w) \/ Drop(w) \/ EndSync(w))
         /\ WF_vars(Tick(w))
         /\ WF_vars(Exit(w))

FairSpec == Spec /\ Fairness

-----------------------------------------------------------------------------
(* Properties                                                              *)

TypeOK ==
    /\ enabled \subseteq Integrations
    /\ started \in BOOLEAN
    /\ down \in BOOLEAN
    /\ cancels \in [Integrations -> Workers \union {None}]
    /\ cancelled \subseteq Workers
    /\ worker \in [Workers -> {"none", "spaces", "drop", "sync", "select", "exited"}]
    /\ call \in [Calls -> {"idle", "saved", "list", "spawn", "wait", "done"}]
    /\ call[Start] # "saved" /\ \A c \in Reloads : call[c] # "wait"
    /\ todo \in [Calls -> SUBSET Integrations]
    /\ logged \subseteq Integrations
    /\ overlapped \subseteq Calls /\ stripped \subseteq Workers

(***************************************************************************)
(* Every cancel function in the map is that of a running goroutine of its  *)
(* own integration, not yet cancelled unless it is on its way out: the map *)
(* never claims a poller that is gone.  Holds for every interleaving of    *)
(* Start, Reloads, failing workers and, until then, no shutdown.           *)
(***************************************************************************)
RegisteredIsRunning ==
    \A i \in Integrations : cancels[i] # None =>
        LET w == cancels[i] IN
        /\ w[2] = i
        /\ ~down => Running(w)
        /\ w \in cancelled => worker[w] \in {"drop", "exited"}

\* No call is under way and Start has launched its workers (or failed to).
Quiet ==
    /\ call[Start] \in {"wait", "done"}
    /\ \A c \in Reloads : call[c] \in {"idle", "done"}

(***************************************************************************)
(* No integration is left without a poller: whenever no Start, save or     *)
(* Reload is under way, every enabled integration with a fetcher has a     *)
(* live goroutine, unless the last attempt to start it ended in a logged   *)
(* database error.  However the calls interleave.                          *)
(***************************************************************************)
Covered ==
    Quiet /\ ~down =>
        \A i \in (enabled \intersect Fetchable) \ logged :
            \E c \in Calls : Live(<<c, i>>)

\* The two ways in which the map loses a goroutine that runs on: two calls
\* launched at the same time, or a goroutine that gave up deleted its entry.
Lost(w) == w[1] \in overlapped \/ w \in stripped

(***************************************************************************)
(* "Scheduler manages one poll goroutine per integration" (scheduler.go,   *)
(* the comment of the type): whatever else happens, two live goroutines of *)
(* one integration mean that one of them was lost in one of the two ways.  *)
(***************************************************************************)
OnePollerPerIntegration ==
    \A w, v \in Workers :
        w[2] = v[2] /\ Live(w) /\ Live(v) => w = v \/ Lost(w) \/ Lost(v)

(***************************************************************************)
(* Once the critical section of a Reload is over, no goroutine that ran    *)
(* then is live, but for those that were lost before.                      *)
(***************************************************************************)
ReloadStopsAll ==
    [][\A c \in Reloads : ReloadStop(c) =>
          \A w \in Workers : Live(w) => w \in cancelled' \/ Lost(w)]_vars

(***************************************************************************)
(* "Reload stops all running workers" (the comment of Reload): at least as *)
(* long as the calls come one after the other.                             *)
(***************************************************************************)
SequentialReloadStopsAll ==
    [][\A c \in Reloads : ReloadStop(c) /\ overlapped = {} =>
          \A w \in Workers : Live(w) => w \in cancelled']_vars

(***************************************************************************)
(* A goroutine told to stop, by Reload, by its own failure or by the       *)
(* shutdown, eventually exits; also one Reload has lost track of.          *)
(***************************************************************************)
StoppedExits == <>[](\A w \in Workers : ~(Running(w) /\ Stopped(w)))

(***************************************************************************)
(* An enabled integration is synced again and again: from any moment on,   *)
(* some goroutine gets to RunOnce for it, unless an error was logged or    *)
(* the server goes down.  In particular a newly saved row is picked up.    *)
(***************************************************************************)
KeepsSyncing ==
    \A i \in Fetchable :
        (i \in enabled) ~>
            (down \/ i \in logged \/ \E c \in Calls : worker[<<c, i>>] = "sync")

(***************************************************************************)
(* The scheduler implements Polling: the poller of an integration is the   *)
(* live goroutine in the map, and a stray is a live one that is not there. *)
(***************************************************************************)
PollOf(i) ==
    IF cancels[i] = None \/ ~Live(cancels[i]) THEN "off"
    ELSE CASE worker[cancels[i]] = "spaces" -> "starting"
           [] worker[cancels[i]] = "sync" -> "syncing"
           [] OTHER -> "waiting"

Stray(w) == Live(w) /\ cancels[w[2]] # w

Abstract == INSTANCE Polling WITH
    poll <- [i \in Integrations |-> PollOf(i)],
    stray <- {i \in Integrations : \E w \in Workers : w[2] = i /\ Stray(w)},
    crowded <- overlapped # {},
    over <- down

ImplementsPolling == Abstract!Spec
=============================================================================
