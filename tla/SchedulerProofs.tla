-------------------------- MODULE SchedulerProofs --------------------------
(***************************************************************************)
(* Proofs about Scheduler, for any sets of integrations and of Reloads.    *)
(***************************************************************************)
EXTENDS Scheduler, TLAPS

-----------------------------------------------------------------------------
(* Type correctness.                                                       *)

\* The initial states are well typed.
LEMMA InitTypeOK == Init => TypeOK
  BY DEF Init, TypeOK, Calls

\* A worker's integration is an integration: <<c, i>>[2] = i.
LEMMA WorkerParts ==
    ASSUME NEW w \in Workers
    PROVE  w[1] \in Calls /\ w[2] \in Integrations /\ w = <<w[1], w[2]>>
  BY DEF Workers

\* Every step keeps the state well typed.
LEMMA NextTypeOK == TypeOK /\ [Next]_vars => TypeOK'
<1> SUFFICES ASSUME TypeOK, [Next]_vars PROVE TypeOK'
    OBVIOUS
<1> USE SchedulerAssumption DEF TypeOK, hist
<1>0. Start \in Calls /\ \A c \in Reloads : c \in Calls /\ c # Start
    BY DEF Calls
<1>1. ASSUME Shutdown PROVE TypeOK'
    BY <1>1 DEF Shutdown
<1>2. ASSUME StartPublish PROVE TypeOK'
    BY <1>2, <1>0 DEF StartPublish, Overlap
<1>3. ASSUME StartReturn PROVE TypeOK'
    BY <1>3, <1>0 DEF StartReturn
<1>4. ASSUME NEW c \in Reloads, ReloadStop(c) PROVE TypeOK'
    <2>1. Registered \subseteq Workers
        BY DEF Registered
    <2> QED BY <1>4, <1>0, <2>1 DEF ReloadStop, Overlap
<1>5. ASSUME NEW c \in Reloads, NEW i \in Integrations, SaveIntegration(c, i)
      PROVE TypeOK'
    BY <1>5, <1>0 DEF SaveIntegration
<1>6. ASSUME NEW c \in Calls, CallStep(c) PROVE TypeOK'
    <2>1. CASE ListIntegrations(c)
        BY <2>1, <1>0 DEF ListIntegrations
    <2>2. CASE ListIntegrationsFails(c)
        BY <2>2, <1>0 DEF ListIntegrationsFails
    <2>3. CASE SpawnDone(c)
        BY <2>3, <1>0 DEF SpawnDone
    <2>4. ASSUME NEW i \in Integrations, NoFetcher(c, i) PROVE TypeOK'
        BY <2>4, <1>0 DEF NoFetcher
    <2>5. ASSUME NEW i \in Integrations, StartWorker(c, i) PROVE TypeOK'
        <3>1. <<c, i>> \in Workers
            BY DEF Workers
        <3> QED BY <2>5, <3>1, <1>0 DEF StartWorker
    <2> QED BY <1>6, <2>1, <2>2, <2>3, <2>4, <2>5 DEF CallStep
<1>7. ASSUME NEW w \in Workers, WorkerStep(w) PROVE TypeOK'
    <2> w[2] \in Integrations
        BY WorkerParts
    <2>1. CASE FirstSpaces(w)
        BY <2>1 DEF FirstSpaces
    <2>2. CASE FirstSpacesFails(w)
        BY <2>2 DEF FirstSpacesFails
    <2>3. CASE Drop(w)
        BY <2>3 DEF Drop
    <2>4. CASE EndSync(w)
        BY <2>4 DEF EndSync
    <2>5. CASE Tick(w)
        BY <2>5 DEF Tick
    <2>6. CASE Exit(w)
        BY <2>6 DEF Exit
    <2> QED BY <1>7, <2>1, <2>2, <2>3, <2>4, <2>5, <2>6 DEF WorkerStep
<1>8. CASE UNCHANGED vars
    BY <1>8 DEF vars
<1> QED BY <1>1, <1>2, <1>3, <1>4, <1>5, <1>6, <1>7, <1>8 DEF Next

(***************************************************************************)
(* The scheduler's state is always well typed: the map holds only cancel   *)
(* functions of poll goroutines, each call and goroutine is at a point of  *)
(* its code.                                                               *)
(***************************************************************************)
THEOREM TypeCorrect == Spec => []TypeOK
  BY InitTypeOK, NextTypeOK, PTL DEF Spec
-----------------------------------------------------------------------------
(* The map holds only running goroutines.                                  *)

(***************************************************************************)
(* RegisteredIsRunning is not inductive: launching <<c, i>> keeps it only  *)
(* because that goroutine has not run before, and a goroutine may exit     *)
(* while the map still holds it only because of the shutdown.              *)
(***************************************************************************)

\* The goroutines a call has still to launch have never run.
Unlaunched ==
    \A c \in Calls, i \in Integrations :
        call[c] \in {"idle", "saved", "list"} \/ i \in todo[c] =>
            worker[<<c, i>>] = "none" /\ <<c, i>> \notin cancelled

\* Only a call in its loop has something to launch.
TodoOnlyInLoop == \A c \in Calls : todo[c] # {} => call[c] = "spawn"

\* What the map holds, in a form that steps preserve.
MapEntries ==
    \A i \in Integrations : cancels[i] # None =>
        /\ cancels[i][2] = i
        /\ worker[cancels[i]] # "none"
        /\ worker[cancels[i]] = "exited" => down
        /\ cancels[i] \in cancelled => worker[cancels[i]] \in {"drop", "exited"}

RegisteredInv == TypeOK /\ Unlaunched /\ TodoOnlyInLoop /\ MapEntries

\* RegisteredInv holds at first: nothing was launched.
LEMMA InitRegisteredInv == Init => RegisteredInv
<1> SUFFICES ASSUME Init PROVE RegisteredInv
    OBVIOUS
<1>1. TypeOK
    BY InitTypeOK
<1>2. \A c \in Calls, i \in Integrations : <<c, i>> \in Workers
    BY DEF Workers
<1>3. Unlaunched
    BY <1>2 DEF Init, Unlaunched
<1> QED BY <1>1, <1>3 DEF Init, RegisteredInv, TodoOnlyInLoop, MapEntries

\* The two parts about what is left to launch are preserved by every step.
LEMMA NextUnlaunched ==
    RegisteredInv /\ [Next]_vars => Unlaunched' /\ TodoOnlyInLoop'
<1> SUFFICES ASSUME RegisteredInv, [Next]_vars PROVE Unlaunched' /\ TodoOnlyInLoop'
    OBVIOUS
<1> USE DEF RegisteredInv, TypeOK, Unlaunched, TodoOnlyInLoop
<1>0. \A c \in Calls, i \in Integrations : <<c, i>> \in Workers
    BY DEF Workers
<1>1. CASE Shutdown
    BY <1>1 DEF Shutdown
<1>2. CASE StartPublish
    BY <1>2 DEF StartPublish
<1>3. CASE StartReturn
    BY <1>3 DEF StartReturn
<1>4. ASSUME NEW c \in Reloads, ReloadStop(c) PROVE Unlaunched' /\ TodoOnlyInLoop'
    <2>1. \A w \in Registered : worker[w] # "none"
        BY DEF Registered, MapEntries
    <2> QED BY <1>4, <2>1 DEF ReloadStop, Calls
<1>5. ASSUME NEW c \in Reloads, NEW i \in Integrations, SaveIntegration(c, i)
      PROVE Unlaunched' /\ TodoOnlyInLoop'
    BY <1>5 DEF SaveIntegration, Calls
<1>6. ASSUME NEW c \in Calls, CallStep(c) PROVE Unlaunched' /\ TodoOnlyInLoop'
    <2>1. CASE ListIntegrations(c)
        BY <2>1 DEF ListIntegrations
    <2>2. CASE ListIntegrationsFails(c)
        BY <2>2 DEF ListIntegrationsFails
    <2>3. CASE SpawnDone(c)
        BY <2>3 DEF SpawnDone
    <2>4. ASSUME NEW i \in Integrations, NoFetcher(c, i)
          PROVE Unlaunched' /\ TodoOnlyInLoop'
        BY <2>4 DEF NoFetcher
    <2>5. ASSUME NEW i \in Integrations, StartWorker(c, i)
          PROVE Unlaunched' /\ TodoOnlyInLoop'
        BY <2>5, <1>0 DEF StartWorker
    <2> QED BY <1>6, <2>1, <2>2, <2>3, <2>4, <2>5 DEF CallStep
<1>7. ASSUME NEW w \in Workers, WorkerStep(w) PROVE Unlaunched' /\ TodoOnlyInLoop'
    BY <1>7, <1>0 DEF WorkerStep, FirstSpaces, FirstSpacesFails, Drop, EndSync, Tick, Exit
<1>8. CASE UNCHANGED vars
    BY <1>8 DEF vars
<1> QED BY <1>1, <1>2, <1>3, <1>4, <1>5, <1>6, <1>7, <1>8 DEF Next

\* The map's entries stay what MapEntries says of them.
LEMMA NextMapEntries == RegisteredInv /\ [Next]_vars => MapEntries'
<1> SUFFICES ASSUME RegisteredInv, [Next]_vars PROVE MapEntries'
    OBVIOUS
<1> USE DEF RegisteredInv, TypeOK, MapEntries
<1>1. CASE Shutdown
    BY <1>1 DEF Shutdown
<1>2. CASE StartPublish
    BY <1>2 DEF StartPublish
<1>3. CASE StartReturn
    BY <1>3 DEF StartReturn
<1>4. ASSUME NEW c \in Reloads, ReloadStop(c) PROVE MapEntries'
    BY <1>4 DEF ReloadStop
<1>5. ASSUME NEW c \in Reloads, NEW i \in Integrations, SaveIntegration(c, i)
      PROVE MapEntries'
    BY <1>5 DEF SaveIntegration
<1>6. ASSUME NEW c \in Calls, CallStep(c) PROVE MapEntries'
    <2>1. CASE ListIntegrations(c)
        BY <2>1 DEF ListIntegrations
    <2>2. CASE ListIntegrationsFails(c)
        BY <2>2 DEF ListIntegrationsFails
    <2>3. CASE SpawnDone(c)
        BY <2>3 DEF SpawnDone
    <2>4. ASSUME NEW i \in Integrations, NoFetcher(c, i) PROVE MapEntries'
        BY <2>4 DEF NoFetcher
    <2>5. ASSUME NEW i \in Integrations, StartWorker(c, i) PROVE MapEntries'
        <3>1. <<c, i>> \in Workers /\ <<c, i>>[2] = i
            BY DEF Workers
        <3>2. worker[<<c, i>>] = "none" /\ <<c, i>> \notin cancelled
            BY <2>5 DEF StartWorker, Unlaunched
        <3> QED BY <2>5, <3>1, <3>2 DEF StartWorker
    <2> QED BY <1>6, <2>1, <2>2, <2>3, <2>4, <2>5 DEF CallStep
<1>7. ASSUME NEW w \in Workers, WorkerStep(w) PROVE MapEntries'
    <2> w[2] \in Integrations
        BY WorkerParts
    <2>1. CASE FirstSpaces(w)
        BY <2>1 DEF FirstSpaces, Stopped
    <2>2. CASE FirstSpacesFails(w)
        BY <2>2 DEF FirstSpacesFails
    <2>3. CASE Drop(w)
        BY <2>3 DEF Drop
    <2>4. CASE EndSync(w)
        BY <2>4 DEF EndSync
    <2>5. CASE Tick(w)
        BY <2>5 DEF Tick
    <2>6. CASE Exit(w)
        BY <2>6 DEF Exit, Stopped
    <2> QED BY <1>7, <2>1, <2>2, <2>3, <2>4, <2>5, <2>6 DEF WorkerStep
<1>8. CASE UNCHANGED vars
    BY <1>8 DEF vars
<1> QED BY <1>1, <1>2, <1>3, <1>4, <1>5, <1>6, <1>7, <1>8 DEF Next

\* RegisteredInv is an invariant of the scheduler as it is.
LEMMA RegisteredInvHolds == Spec => []RegisteredInv
<1>1. RegisteredInv /\ [Next]_vars => RegisteredInv'
    BY NextTypeOK, NextUnlaunched, NextMapEntries DEF RegisteredInv
<1> QED BY InitRegisteredInv, <1>1, PTL DEF Spec

(***************************************************************************)
(* Every cancel function in the map is that of a running goroutine of its  *)
(* own integration, for any number of overlapping Reloads, failing         *)
(* listings and stale deletes.                                             *)
(***************************************************************************)
THEOREM MapHoldsRunning == Spec => []RegisteredIsRunning
<1>1. RegisteredInv => RegisteredIsRunning
    BY DEF RegisteredInv, MapEntries, RegisteredIsRunning, Running
<1> QED BY RegisteredInvHolds, <1>1, PTL
-----------------------------------------------------------------------------
(* No integration is left without a poller.                                *)

(***************************************************************************)
(* Covered speaks of quiet states only.  On the way there an enabled       *)
(* integration without a live goroutine is owed one, by a call that has    *)
(* still to list the table or has the integration left in its loop.        *)
(***************************************************************************)
Owed(i) ==
    \/ call[Start] = "idle"
    \/ \E c \in Calls :
         \/ call[c] \in {"saved", "list"}
         \/ call[c] = "spawn" /\ i \in todo[c]

CoveredOrOwed ==
    ~down => \A i \in (enabled \intersect Fetchable) \ logged :
        Owed(i) \/ \E c \in Calls : Live(<<c, i>>)

\* Start has published the context just when it has begun.
StartedMeansBegun == started <=> call[Start] # "idle"

\* A goroutine that gives up has cancelled its own context.
DropIsCancelled == \A w \in Workers : worker[w] = "drop" => w \in cancelled

CoverInv == RegisteredInv /\ CoveredOrOwed /\ StartedMeansBegun /\ DropIsCancelled

\* At first every integration is owed a goroutine by Start.
LEMMA InitCoverInv == Init => CoverInv
<1> SUFFICES ASSUME Init PROVE CoverInv
    OBVIOUS
<1>1. Start \in Calls
    BY DEF Calls
<1> QED BY <1>1, InitRegisteredInv DEF Init, CoverInv, CoveredOrOwed, Owed,
           StartedMeansBegun, DropIsCancelled

\* StartedMeansBegun and DropIsCancelled are preserved.
LEMMA NextBegunAndDrop ==
    CoverInv /\ [Next]_vars => StartedMeansBegun' /\ DropIsCancelled'
<1> SUFFICES ASSUME CoverInv, [Next]_vars
             PROVE  StartedMeansBegun' /\ DropIsCancelled'
    OBVIOUS
<1> USE SchedulerAssumption DEF CoverInv, RegisteredInv, TypeOK, StartedMeansBegun,
                                DropIsCancelled
<1>0. Start \in Calls /\ \A c \in Reloads : c \in Calls /\ c # Start
    BY DEF Calls
<1>1. CASE Shutdown
    BY <1>1 DEF Shutdown
<1>2. CASE StartPublish
    BY <1>2, <1>0 DEF StartPublish
<1>3. CASE StartReturn
    BY <1>3, <1>0 DEF StartReturn
<1>4. ASSUME NEW c \in Reloads, ReloadStop(c)
      PROVE  StartedMeansBegun' /\ DropIsCancelled'
    BY <1>4, <1>0 DEF ReloadStop
<1>5. ASSUME NEW c \in Reloads, NEW i \in Integrations, SaveIntegration(c, i)
      PROVE  StartedMeansBegun' /\ DropIsCancelled'
    BY <1>5, <1>0 DEF SaveIntegration
<1>6. ASSUME NEW c \in Calls, CallStep(c)
      PROVE  StartedMeansBegun' /\ DropIsCancelled'
    <2>1. CASE ListIntegrations(c)
        BY <2>1, <1>0 DEF ListIntegrations
    <2>2. CASE ListIntegrationsFails(c)
        BY <2>2, <1>0 DEF ListIntegrationsFails
    <2>3. CASE SpawnDone(c)
        BY <2>3, <1>0 DEF SpawnDone
    <2>4. ASSUME NEW i \in Integrations, NoFetcher(c, i)
          PROVE  StartedMeansBegun' /\ DropIsCancelled'
        BY <2>4, <1>0 DEF NoFetcher
    <2>5. ASSUME NEW i \in Integrations, StartWorker(c, i)
          PROVE  StartedMeansBegun' /\ DropIsCancelled'
        BY <2>5, <1>0 DEF StartWorker
    <2> QED BY <1>6, <2>1, <2>2, <2>3, <2>4, <2>5 DEF CallStep
<1>7. ASSUME NEW w \in Workers, WorkerStep(w)
      PROVE  StartedMeansBegun' /\ DropIsCancelled'
    BY <1>7, <1>0 DEF WorkerStep, FirstSpaces, FirstSpacesFails, Drop, EndSync, Tick, Exit
<1>8. CASE UNCHANGED vars
    BY <1>8 DEF vars
<1> QED BY <1>1, <1>2, <1>3, <1>4, <1>5, <1>6, <1>7, <1>8 DEF Next

\* CoveredOrOwed is preserved.
LEMMA NextCoveredOrOwed == CoverInv /\ [Next]_vars => CoveredOrOwed'
<1> SUFFICES ASSUME CoverInv, [Next]_vars, ~down',
                    NEW i \in Integrations,
                    i \in enabled', i \in Fetchable, i \notin logged'
             PROVE  Owed(i)' \/ \E c \in Calls : Live(<<c, i>>)'
    BY SchedulerAssumption DEF CoveredOrOwed
<1> DEFINE Goal == Owed(i)' \/ \E c \in Calls : Live(<<c, i>>)'
<1> USE SchedulerAssumption DEF CoverInv, RegisteredInv, TypeOK
<1>0. /\ Start \in Calls /\ \A c \in Reloads : c \in Calls /\ c # Start
      /\ \A c \in Calls : <<c, i>> \in Workers
    BY DEF Calls, Workers
<1>1. CASE Shutdown
    BY <1>1 DEF Shutdown
<1>2. CASE StartPublish
    BY <1>2, <1>0 DEF StartPublish, Owed
<1>3. CASE StartReturn
    BY <1>3 DEF StartReturn
<1>4. ASSUME NEW c \in Reloads, ReloadStop(c) PROVE Goal
    <2>1. started => call'[c] = "list"
        BY <1>4, <1>0 DEF ReloadStop
    <2>2. ~started => call'[Start] = "idle"
        BY <1>4, <1>0 DEF ReloadStop, StartedMeansBegun
    <2> QED BY <2>1, <2>2, <1>0 DEF Owed
<1>5. ASSUME NEW c \in Reloads, NEW j \in Integrations, SaveIntegration(c, j)
      PROVE Goal
    <2>1. call'[c] = "saved"
        BY <1>5, <1>0 DEF SaveIntegration
    <2> QED BY <2>1, <1>0 DEF Owed
<1>6. ASSUME NEW c \in Calls, CallStep(c) PROVE Goal
    <2>1. CASE ListIntegrations(c)
        BY <2>1 DEF ListIntegrations, Owed
    <2>2. CASE ListIntegrationsFails(c)
        BY <2>2 DEF ListIntegrationsFails
    <2>3. CASE SpawnDone(c)
        <3>1. Owed(i) \/ \E d \in Calls : Live(<<d, i>>)
            BY <2>3 DEF SpawnDone, CoveredOrOwed
        <3>2. CASE Owed(i)
            BY <2>3, <3>2, <1>0 DEF SpawnDone, Owed
        <3>3. CASE \E d \in Calls : Live(<<d, i>>)
            BY <2>3, <3>3 DEF SpawnDone, Live, Running, Stopped
        <3> QED BY <3>1, <3>2, <3>3
    <2>4. ASSUME NEW j \in Integrations, NoFetcher(c, j) PROVE Goal
        <3>1. Owed(i) \/ \E d \in Calls : Live(<<d, i>>)
            BY <2>4 DEF NoFetcher, CoveredOrOwed
        <3>2. CASE Owed(i)
            BY <2>4, <3>2 DEF NoFetcher, Owed
        <3>3. CASE \E d \in Calls : Live(<<d, i>>)
            BY <2>4, <3>3 DEF NoFetcher, Live, Running, Stopped
        <3> QED BY <3>1, <3>2, <3>3
    <2>5. ASSUME NEW j \in Integrations, StartWorker(c, j) PROVE Goal
        <3>1. CASE i = j
            <4>1. worker'[<<c, i>>] = "spaces" /\ <<c, i>> \notin cancelled'
                BY <2>5, <3>1, <1>0 DEF StartWorker, Unlaunched
            <4> QED BY <4>1 DEF Live, Running, Stopped
        <3>2. CASE i # j
            <4>1. Owed(i) \/ \E d \in Calls : Live(<<d, i>>)
                BY <2>5, <3>2 DEF StartWorker, CoveredOrOwed
            <4>2. CASE Owed(i)
                BY <2>5, <3>2, <4>2 DEF StartWorker, Owed
            <4>3. ASSUME NEW d \in Calls, Live(<<d, i>>) PROVE Live(<<d, i>>)'
                <5>1. <<d, i>> # <<c, j>>
                    BY <3>2
                <5> QED BY <2>5, <4>3, <5>1, <1>0 DEF StartWorker, Live, Running, Stopped
            <4> QED BY <4>1, <4>2, <4>3
        <3> QED BY <3>1, <3>2
    <2> QED BY <1>6, <2>1, <2>2, <2>3, <2>4, <2>5 DEF CallStep
<1>7. ASSUME NEW w \in Workers, WorkerStep(w) PROVE Goal
    <2> USE <1>0
    <2>1. CASE FirstSpacesFails(w) /\ w[2] = i
        <3>1. Stopped(w) /\ ~Live(w)
            BY <2>1 DEF FirstSpacesFails, Live
        <3>2. Owed(i) \/ \E d \in Calls : Live(<<d, i>>) /\ <<d, i>> # w
            BY <2>1, <3>1 DEF FirstSpacesFails, CoveredOrOwed
        <3> QED BY <2>1, <3>2 DEF FirstSpacesFails, Owed, Live, Running, Stopped
    <2>2. ASSUME ~(FirstSpacesFails(w) /\ w[2] = i) PROVE Goal
        <3>0. logged \subseteq logged' /\ UNCHANGED <<enabled, down>>
            BY <1>7 DEF WorkerStep, FirstSpaces, FirstSpacesFails, Drop, EndSync, Tick, Exit
        <3>1. Owed(i) \/ \E d \in Calls : Live(<<d, i>>)
            BY <3>0 DEF CoveredOrOwed
        <3>2. CASE Owed(i)
            BY <1>7, <3>2 DEF WorkerStep, FirstSpaces, FirstSpacesFails, Drop, EndSync,
                              Tick, Exit, Owed
        <3>3. ASSUME NEW d \in Calls, Live(<<d, i>>) PROVE Live(<<d, i>>)'
            <4> <<d, i>>[2] = i
                OBVIOUS
            <4>1. CASE FirstSpacesFails(w)
                BY <4>1, <2>2, <3>3 DEF FirstSpacesFails, Live, Running, Stopped
            <4>2. CASE Drop(w)
                BY <4>2, <3>3 DEF Drop, DropIsCancelled, Live, Running, Stopped
            <4>3. CASE Exit(w)
                BY <4>3, <3>3 DEF Exit, Live, Running, Stopped
            <4>4. CASE FirstSpaces(w) \/ EndSync(w) \/ Tick(w)
                BY <4>4, <3>3 DEF FirstSpaces, EndSync, Tick, Live, Running, Stopped
            <4> QED BY <1>7, <4>1, <4>2, <4>3, <4>4 DEF WorkerStep
        <3> QED BY <3>1, <3>2, <3>3
    <2> QED BY <2>1, <2>2
<1>8. CASE UNCHANGED vars
    BY <1>8 DEF vars, CoveredOrOwed, Owed, Live, Running, Stopped
<1> QED BY <1>1, <1>2, <1>3, <1>4, <1>5, <1>6, <1>7, <1>8 DEF Next

(***************************************************************************)
(* However many Reloads and saves overlap with each other, with Start and  *)
(* with failing goroutines: when they are over, every enabled integration  *)
(* with a fetcher has a live goroutine or a logged error.                  *)
(***************************************************************************)
THEOREM NoneLeftBehind == Spec => []Covered
<1>1. CoverInv /\ [Next]_vars => CoverInv'
    BY NextTypeOK, NextUnlaunched, NextMapEntries, NextBegunAndDrop, NextCoveredOrOwed
       DEF CoverInv, RegisteredInv
<1>2. CoverInv => Covered
    BY SchedulerAssumption DEF CoverInv, CoveredOrOwed, Covered, Quiet, Owed, Calls
<1> QED BY InitCoverInv, <1>1, <1>2, PTL DEF Spec
-----------------------------------------------------------------------------
(* What the map loses, and how.                                            *)

(***************************************************************************)
(* The argument: a live goroutine leaves the map by being launched over,   *)
(* which takes a launching call that did not see it, so one that overlaps  *)
(* with its own; by a Drop of another goroutine; or by a Reload, which     *)
(* cancels what it finds.                                                  *)
(***************************************************************************)

\* Before Start nothing is launching and the map is empty.
NothingBeforeStart ==
    ~started => /\ \A c \in Calls : ~InCall(c)
                /\ \A i \in Integrations : cancels[i] = None

\* Calls that launch at the same time have been noted.
LaunchersOverlap ==
    \A c, d \in Calls :
        InCall(c) /\ InCall(d) /\ c # d => c \in overlapped /\ d \in overlapped

\* What a launching call finds in the map is its own or of a call that overlapped.
EntriesOfOthers ==
    \A c \in Calls, i \in Integrations :
        InCall(c) /\ cancels[i] # None => cancels[i][1] = c \/ cancels[i][1] \in overlapped

\* A live goroutine is in the map unless it was lost.
Tracked == \A w \in Workers : Live(w) => cancels[w[2]] = w \/ Lost(w)

TrackInv ==
    CoverInv /\ NothingBeforeStart /\ LaunchersOverlap /\ EntriesOfOthers /\ Tracked

\* TrackInv holds at first: nothing runs and nothing is launching.
LEMMA InitTrackInv == Init => TrackInv
  BY InitCoverInv DEF Init, TrackInv, NothingBeforeStart, LaunchersOverlap,
     EntriesOfOthers, Tracked, InCall, Live, Running

\* CoverInv is preserved by every step.
LEMMA NextCoverInv == CoverInv /\ [Next]_vars => CoverInv'
  BY NextTypeOK, NextUnlaunched, NextMapEntries, NextBegunAndDrop, NextCoveredOrOwed
     DEF CoverInv, RegisteredInv

\* Only a launch makes a goroutine live.
LEMMA LiveBefore ==
    ASSUME TypeOK, [Next]_vars, NEW w \in Workers, Live(w)'
    PROVE  Live(w) \/ \E c \in Calls, i \in Integrations : StartWorker(c, i) /\ w = <<c, i>>
<1> USE DEF TypeOK, Live, Running, Stopped
<1>1. CASE Shutdown \/ StartPublish \/ StartReturn
    BY <1>1 DEF Shutdown, StartPublish, StartReturn
<1>2. CASE \E c \in Reloads : ReloadStop(c) \/ \E i \in Integrations : SaveIntegration(c, i)
    BY <1>2 DEF ReloadStop, SaveIntegration
<1>3. ASSUME NEW c \in Calls, CallStep(c)
      PROVE  Live(w) \/ \E i \in Integrations : StartWorker(c, i) /\ w = <<c, i>>
    <2>1. CASE ListIntegrations(c) \/ ListIntegrationsFails(c) \/ SpawnDone(c)
               \/ \E i \in Integrations : NoFetcher(c, i)
        BY <2>1 DEF ListIntegrations, ListIntegrationsFails, SpawnDone, NoFetcher
    <2>2. ASSUME NEW i \in Integrations, StartWorker(c, i), w # <<c, i>> PROVE Live(w)
        BY <2>2 DEF StartWorker
    <2> QED BY <1>3, <2>1, <2>2 DEF CallStep
<1>4. CASE \E v \in Workers : WorkerStep(v)
    BY <1>4 DEF WorkerStep, FirstSpaces, FirstSpacesFails, Drop, EndSync, Tick, Exit
<1>5. CASE UNCHANGED vars
    BY <1>5 DEF vars
<1> QED BY <1>1, <1>2, <1>3, <1>4, <1>5 DEF Next

\* What was lost stays lost.
LEMMA LostForGood ==
    ASSUME [Next]_vars
    PROVE  overlapped \subseteq overlapped' /\ stripped \subseteq stripped'
  BY DEF Next, vars, hist, Shutdown, StartPublish, StartReturn, ReloadStop, SaveIntegration,
     CallStep, ListIntegrations, ListIntegrationsFails, SpawnDone, NoFetcher, StartWorker,
     WorkerStep, FirstSpaces, FirstSpacesFails, Drop, EndSync, Tick, Exit

\* The three parts about launching calls are preserved by every step.
LEMMA NextLaunchers ==
    TrackInv /\ [Next]_vars => (NothingBeforeStart /\ LaunchersOverlap /\ EntriesOfOthers)'
<1> SUFFICES ASSUME TrackInv, [Next]_vars
             PROVE  NothingBeforeStart' /\ LaunchersOverlap' /\ EntriesOfOthers'
    OBVIOUS
<1> USE SchedulerAssumption DEF TrackInv, CoverInv, RegisteredInv, TypeOK, InCall, hist,
                                NothingBeforeStart, LaunchersOverlap, EntriesOfOthers
<1>0. Start \in Calls /\ \A c \in Reloads : c \in Calls /\ c # Start
    BY DEF Calls
<1>1. CASE Shutdown \/ StartReturn
    BY <1>1, <1>0 DEF Shutdown, StartReturn
<1>2. CASE StartPublish
    <2>1. ~started
        BY <1>2 DEF StartPublish, StartedMeansBegun
    <2> QED BY <1>2, <1>0, <2>1 DEF StartPublish
<1>3. ASSUME NEW c \in Reloads, ReloadStop(c)
      PROVE  NothingBeforeStart' /\ LaunchersOverlap' /\ EntriesOfOthers'
    <2>1. /\ \A i \in Integrations : cancels'[i] = None
          /\ \A d \in Calls : d # c => call'[d] = call[d]
          /\ started' = started
        BY <1>3, <1>0 DEF ReloadStop
    <2>2. \A d \in Calls : started /\ InCall(d) => c \in overlapped' /\ d \in overlapped'
        BY <1>3 DEF ReloadStop, Overlap
    <2>3. ~started => call'[c] = "done"
        BY <1>3, <1>0 DEF ReloadStop
    <2>4. overlapped \subseteq overlapped'
        BY LostForGood
    <2> QED BY <2>1, <2>2, <2>3, <2>4
<1>4. ASSUME NEW c \in Reloads, NEW i \in Integrations, SaveIntegration(c, i)
      PROVE  NothingBeforeStart' /\ LaunchersOverlap' /\ EntriesOfOthers'
    BY <1>4, <1>0 DEF SaveIntegration
<1>5. ASSUME NEW c \in Calls, CallStep(c)
      PROVE  NothingBeforeStart' /\ LaunchersOverlap' /\ EntriesOfOthers'
    <2>1. CASE ListIntegrations(c)
        BY <2>1 DEF ListIntegrations
    <2>2. CASE ListIntegrationsFails(c)
        BY <2>2 DEF ListIntegrationsFails
    <2>3. CASE SpawnDone(c)
        BY <2>3 DEF SpawnDone
    <2>4. ASSUME NEW i \in Integrations, NoFetcher(c, i)
          PROVE  NothingBeforeStart' /\ LaunchersOverlap' /\ EntriesOfOthers'
        BY <2>4 DEF NoFetcher
    <2>5. ASSUME NEW i \in Integrations, StartWorker(c, i)
          PROVE  NothingBeforeStart' /\ LaunchersOverlap' /\ EntriesOfOthers'
        <3>1. InCall(c) /\ <<c, i>>[1] = c
            BY <2>5 DEF StartWorker
        <3> QED BY <2>5, <3>1 DEF StartWorker
    <2> QED BY <1>5, <2>1, <2>2, <2>3, <2>4, <2>5 DEF CallStep
<1>6. ASSUME NEW w \in Workers, WorkerStep(w)
      PROVE  NothingBeforeStart' /\ LaunchersOverlap' /\ EntriesOfOthers'
    BY <1>6 DEF WorkerStep, FirstSpaces, FirstSpacesFails, Drop, EndSync, Tick, Exit
<1>7. CASE UNCHANGED vars
    BY <1>7 DEF vars
<1> QED BY <1>1, <1>2, <1>3, <1>4, <1>5, <1>6, <1>7 DEF Next

\* A call launches over nothing but goroutines of calls it overlapped with.
LEMMA LaunchedOver ==
    ASSUME TrackInv, NEW c \in Calls, NEW i \in Integrations, StartWorker(c, i),
           cancels[i] # None
    PROVE  cancels[i][1] \in overlapped
<1> USE SchedulerAssumption DEF TrackInv, CoverInv, RegisteredInv, TypeOK
<1>1. InCall(c)
    BY DEF StartWorker, InCall
<1>2. cancels[i] \in Workers /\ cancels[i][2] = i /\ worker[cancels[i]] # "none"
    BY DEF MapEntries
<1>3. worker[<<c, i>>] = "none"
    BY DEF StartWorker, Unlaunched
<1>4. cancels[i][1] # c
    BY <1>2, <1>3, WorkerParts
<1> QED BY <1>1, <1>4 DEF EntriesOfOthers

\* A live goroutine stays in the map or is lost, whatever the step.
LEMMA NextTracked == TrackInv /\ [Next]_vars => Tracked'
<1> SUFFICES ASSUME TrackInv, [Next]_vars, NEW w \in Workers, Live(w)'
             PROVE  cancels'[w[2]] = w \/ Lost(w)'
    BY DEF Tracked
<1> USE SchedulerAssumption DEF TrackInv, CoverInv, RegisteredInv, TypeOK
<1>0. w[2] \in Integrations /\ w # None
    BY WorkerParts
<1>1. ASSUME NEW c \in Calls, NEW i \in Integrations, StartWorker(c, i)
      PROVE  cancels'[w[2]] = w \/ Lost(w)'
    <2>1. CASE w = <<c, i>>
        BY <1>1, <2>1 DEF StartWorker
    <2>2. CASE w # <<c, i>>
        <3>1. Live(w)
            BY <1>1, <2>2 DEF StartWorker, Live, Running, Stopped
        <3>2. CASE cancels[w[2]] = w /\ w[2] = i
            BY <1>1, <1>0, <3>2, LaunchedOver, LostForGood DEF Lost
        <3>3. CASE cancels[w[2]] = w /\ w[2] # i
            BY <1>1, <1>0, <3>3 DEF StartWorker
        <3> QED BY <3>1, <3>2, <3>3, LostForGood DEF Tracked, Lost
    <2> QED BY <2>1, <2>2
<1>2. CASE ~\E c \in Calls, i \in Integrations : StartWorker(c, i)
    <2>1. Live(w)
        BY <1>2, LiveBefore
    <2>2. CASE Lost(w)
        BY <2>2, LostForGood DEF Lost
    <2>3. CASE cancels[w[2]] = w
        <3>1. ASSUME NEW c \in Reloads, ReloadStop(c) PROVE FALSE
            BY <3>1, <1>0, <2>3 DEF ReloadStop, Registered, Live, Stopped
        <3>2. ASSUME NEW v \in Workers, Drop(v) PROVE cancels'[w[2]] = w \/ Lost(w)'
            <4>1. w # v
                BY <3>2 DEF Drop, Live, Running
            <4>2. v[2] = w[2] => w \in stripped'
                BY <3>2, <1>0, <2>3, <4>1 DEF Drop
            <4>3. v[2] # w[2] => cancels'[w[2]] = w
                BY <3>2, <1>0, <2>3, WorkerParts DEF Drop
            <4> QED BY <4>2, <4>3 DEF Lost
        <3>3. CASE /\ ~\E c \in Reloads : ReloadStop(c)
                   /\ ~\E v \in Workers : Drop(v)
            BY <1>2, <2>3, <3>3 DEF Next, vars, Shutdown, StartPublish, StartReturn,
               SaveIntegration, CallStep, ListIntegrations, ListIntegrationsFails,
               SpawnDone, NoFetcher, WorkerStep, FirstSpaces, FirstSpacesFails, EndSync,
               Tick, Exit
        <3> QED BY <3>1, <3>2, <3>3
    <2> QED BY <2>1, <2>2, <2>3 DEF Tracked
<1> QED BY <1>1, <1>2

\* TrackInv is an invariant, however the calls come.
LEMMA TrackInvHolds == Spec => []TrackInv
<1>1. TrackInv /\ [Next]_vars => TrackInv'
    BY NextCoverInv, NextLaunchers, NextTracked DEF TrackInv
<1> QED BY InitTrackInv, <1>1, PTL DEF Spec

(***************************************************************************)
(* One poll goroutine per integration that the scheduler has not lost: of  *)
(* two live ones, one was launched by a call that overlapped with another, *)
(* or had its entry deleted by a goroutine that gave up.                   *)
(***************************************************************************)
THEOREM OnePoller == Spec => []OnePollerPerIntegration
<1>1. TrackInv => OnePollerPerIntegration
    BY DEF TrackInv, Tracked, OnePollerPerIntegration
<1> QED BY TrackInvHolds, <1>1, PTL

(***************************************************************************)
(* A Reload leaves no goroutine live that ran when it began, but for those *)
(* that had been lost in one of the two ways.                              *)
(***************************************************************************)
THEOREM ReloadStopsEveryWorker == Spec => ReloadStopsAll
<1>1. ASSUME TrackInv
      PROVE  \A c \in Reloads : ReloadStop(c) =>
                \A w \in Workers : Live(w) => w \in cancelled' \/ Lost(w)
    <2> SUFFICES ASSUME NEW c \in Reloads, ReloadStop(c), NEW w \in Workers,
                        Live(w), ~Lost(w)
                 PROVE  w \in cancelled'
        OBVIOUS
    <2>1. cancels[w[2]] = w /\ w[2] \in Integrations /\ w # None
        BY <1>1, WorkerParts, SchedulerAssumption DEF TrackInv, Tracked
    <2> QED BY <2>1 DEF ReloadStop, Registered
<1> QED BY <1>1, TrackInvHolds, PTL DEF ReloadStopsAll

=============================================================================
