------------------------ MODULE SchedulerRefinement ------------------------
(***************************************************************************)
(* Proof that the scheduler implements Polling, the abstract scheduler     *)
(* that knows at most one poller per integration and says when it loses    *)
(* sight of one.                                                           *)
(***************************************************************************)
EXTENDS SchedulerProofs

-----------------------------------------------------------------------------
(* The refinement mapping.                                                 *)

PollMap == [i \in Integrations |-> PollOf(i)]

StrayOf(i) == \E w \in Workers : w[2] = i /\ Stray(w)

Strays == {i \in Integrations : StrayOf(i)}

\* A step of Polling, but for the rule that what overlapped stays so.
AbstractStep ==
    \/ Abstract!StopAll \/ Abstract!GoDown
    \/ UNCHANGED <<PollMap, Strays, down>>
    \/ \E i \in Integrations :
         \/ Abstract!Launch(i) \/ Abstract!Replace(i) \/ Abstract!Forget(i)
         \/ Abstract!GiveUp(i) \/ Abstract!StrayGivesUp(i)
         \/ Abstract!BeginSync(i) \/ Abstract!EndSync(i)

\* Initially nothing is polled.
LEMMA InitImplements == Init => Abstract!Init
  BY DEF Init, Abstract!Init, PollOf, Stray, Live, Running

\* The map's entry of an integration is one of its goroutines.
LEMMA EntryIsOwn ==
    ASSUME TrackInv, NEW i \in Integrations, cancels[i] # None
    PROVE  cancels[i] \in Workers /\ cancels[i][2] = i /\ worker[cancels[i]] # "none"
  BY DEF TrackInv, CoverInv, RegisteredInv, TypeOK, MapEntries

\* A step that changes neither the goroutines nor the map leaves Polling alone.
LEMMA NothingMoves ==
    ASSUME UNCHANGED <<down, worker, cancelled, cancels>>
    PROVE  UNCHANGED <<PollMap, Strays, down>>
  BY DEF PollMap, Strays, StrayOf, PollOf, Stray, Live, Running, Stopped

-----------------------------------------------------------------------------
(* The steps of the calls.                                                 *)

\* A Reload ends every poller in the map and no other.
LEMMA ReloadStopImplements ==
    ASSUME TrackInv, NEW c \in Reloads, ReloadStop(c)
    PROVE  Abstract!StopAll
<1>1. \A i \in Integrations : PollOf(i)' = "off"
    BY DEF ReloadStop, PollOf
<1>2. ASSUME NEW w \in Workers PROVE Stray(w)' <=> Stray(w)
    <2>1. w[2] \in Integrations /\ w # None
        BY WorkerParts, SchedulerAssumption
    <2>2. w \in Registered <=> cancels[w[2]] = w
        BY <2>1, EntryIsOwn DEF Registered
    <2> QED BY <2>1, <2>2 DEF ReloadStop, Stray, Live, Running, Stopped
<1>3. Strays' = Strays
    BY <1>2 DEF Strays, StrayOf
<1>4. down' = down
    BY DEF ReloadStop
<1> QED BY <1>1, <1>3, <1>4 DEF Abstract!StopAll, Strays, StrayOf

\* A launch puts a poller where there was none, or replaces one.
LEMMA StartWorkerImplements ==
    ASSUME TrackInv, NEW c \in Calls, NEW i \in Integrations, StartWorker(c, i)
    PROVE  AbstractStep
<1> DEFINE w == <<c, i>>
<1> USE SchedulerAssumption
<1>1. w \in Workers /\ w[2] = i /\ w # None
    BY DEF Workers
<1>2. worker[w] = "none" /\ w \notin cancelled
    BY DEF StartWorker, TrackInv, CoverInv, RegisteredInv, Unlaunched
<1>3. /\ UNCHANGED <<down, cancelled>>
      /\ worker' = [worker EXCEPT ![w] = "spaces"]
      /\ cancels' = [cancels EXCEPT ![i] = w]
      /\ worker \in [Workers -> {"none", "spaces", "drop", "sync", "select", "exited"}]
      /\ cancels \in [Integrations -> Workers \union {None}]
    BY DEF StartWorker, TrackInv, CoverInv, RegisteredInv, TypeOK
<1>4. CASE down
    <2>1. \A v \in Workers : ~Live(v) /\ ~Live(v)'
        BY <1>3, <1>4 DEF Live, Stopped
    <2>2. \A j \in Integrations : PollOf(j) = "off"
        BY <1>3, <2>1 DEF PollOf
    <2>3. \A j \in Integrations : PollOf(j)' = "off"
        BY <1>1, <1>3, <2>1 DEF PollOf
    <2>4. Strays = {} /\ Strays' = {}
        BY <2>1 DEF Strays, StrayOf, Stray
    <2>5. PollMap' = PollMap
        BY <2>2, <2>3 DEF PollMap
    <2> QED BY <1>3, <2>4, <2>5 DEF AbstractStep
<1>5. CASE ~down
    <2>1. \A v \in Workers : v # w => (Live(v)' <=> Live(v)) /\ worker'[v] = worker[v]
        BY <1>3 DEF Live, Running, Stopped
    <2>2. ~Live(w) /\ Live(w)' /\ worker'[w] = "spaces"
        BY <1>1, <1>2, <1>3, <1>5 DEF Live, Running, Stopped
    <2>3. PollOf(i)' = "starting"
        BY <1>1, <1>3, <2>2 DEF PollOf
    <2>4. ASSUME NEW j \in Integrations, j # i PROVE PollOf(j)' = PollOf(j)
        <3>1. cancels'[j] = cancels[j] /\ cancels[j] # w
            BY <1>1, <1>3, <2>4, EntryIsOwn
        <3> QED BY <1>3, <2>1, <3>1 DEF PollOf
    <2>5. PollMap' = [PollMap EXCEPT ![i] = "starting"]
        BY <2>3, <2>4 DEF PollMap
    <2>6. ASSUME NEW j \in Integrations, j # i PROVE StrayOf(j)' <=> StrayOf(j)
        <3>1. ASSUME NEW v \in Workers, v[2] = j PROVE Stray(v)' <=> Stray(v)
            BY <1>1, <1>3, <2>1, <2>6, <3>1 DEF Stray
        <3> QED BY <3>1 DEF StrayOf
    <2>7. StrayOf(i)' <=> \E v \in Workers : v[2] = i /\ Live(v)
        <3>1. ASSUME NEW v \in Workers, v[2] = i PROVE Stray(v)' <=> Live(v)
            BY <1>1, <1>3, <2>1, <2>2, <3>1 DEF Stray
        <3> QED BY <3>1 DEF StrayOf
    <2>8. CASE PollOf(i) = "off"
        <3>1. ASSUME NEW v \in Workers, v[2] = i, Live(v) PROVE cancels[i] # v
            BY <2>8, <3>1 DEF PollOf
        <3>2. StrayOf(i)' <=> StrayOf(i)
            BY <2>7, <3>1 DEF StrayOf, Stray
        <3>3. Strays' = Strays
            BY <2>6, <3>2 DEF Strays
        <3>4. Abstract!Launch(i)
            BY <1>3, <1>5, <2>5, <2>8, <3>3
               DEF Abstract!Launch, Abstract!Becomes, PollMap, Strays, StrayOf
        <3> QED BY <3>4 DEF AbstractStep
    <2>9. CASE PollOf(i) # "off"
        <3>1. cancels[i] # None /\ Live(cancels[i])
            BY <2>9 DEF PollOf
        <3>2. StrayOf(i)'
            BY <2>7, <3>1, EntryIsOwn
        <3>3. Strays' = Strays \union {i}
            BY <2>6, <3>2 DEF Strays
        <3>4. overlapped # {}
            BY <3>1, LaunchedOver
        <3>5. Abstract!Replace(i)
            BY <1>3, <1>5, <2>5, <2>9, <3>3, <3>4
               DEF Abstract!Replace, Abstract!Becomes, PollMap, Strays, StrayOf
        <3> QED BY <3>5 DEF AbstractStep
    <2> QED BY <2>8, <2>9
<1> QED BY <1>4, <1>5

-----------------------------------------------------------------------------
(* The steps of the goroutines and of the signal.                          *)

\* The signal ends every poller, the strays too.
LEMMA ShutdownImplements == ASSUME Shutdown PROVE Abstract!GoDown
<1>1. \A w : ~Live(w)'
    BY DEF Shutdown, Live, Stopped
<1>2. \A i \in Integrations : PollOf(i)' = "off"
    BY <1>1 DEF PollOf
<1> QED BY <1>1, <1>2 DEF Shutdown, Abstract!GoDown, Stray

\* Deleting the entry of another goroutine makes a stray of it.
LEMMA DropImplements ==
    ASSUME TrackInv, NEW w \in Workers, Drop(w)
    PROVE  AbstractStep
<1> DEFINE i == w[2]
<1> USE SchedulerAssumption
<1>0. i \in Integrations
    BY WorkerParts
<1>1. /\ UNCHANGED <<down, cancelled>>
      /\ worker' = [worker EXCEPT ![w] = "exited"]
      /\ cancels' = [cancels EXCEPT ![i] = None]
      /\ worker \in [Workers -> {"none", "spaces", "drop", "sync", "select", "exited"}]
      /\ cancels \in [Integrations -> Workers \union {None}]
    BY DEF Drop, TrackInv, CoverInv, RegisteredInv, TypeOK
<1>2. ~Live(w) /\ ~Live(w)'
    BY <1>1 DEF Drop, TrackInv, CoverInv, DropIsCancelled, Live, Running, Stopped
<1>3. \A v \in Workers : (Live(v)' <=> Live(v)) /\ (v # w => worker'[v] = worker[v])
    BY <1>1, <1>2 DEF Live, Running, Stopped
<1>4. PollOf(i)' = "off"
    BY <1>0, <1>1 DEF PollOf
<1>5. ASSUME NEW j \in Integrations, j # i PROVE PollOf(j)' = PollOf(j)
    <2>1. cancels'[j] = cancels[j] /\ cancels[j] # w
        BY <1>0, <1>1, <1>5, EntryIsOwn, WorkerParts
    <2> QED BY <1>1, <1>3, <2>1 DEF PollOf
<1>6. PollMap' = [PollMap EXCEPT ![i] = "off"]
    BY <1>0, <1>4, <1>5 DEF PollMap
<1>7. ASSUME NEW j \in Integrations, j # i PROVE StrayOf(j)' <=> StrayOf(j)
    <2>1. ASSUME NEW v \in Workers, v[2] = j PROVE Stray(v)' <=> Stray(v)
        BY <1>0, <1>1, <1>3, <1>7, <2>1 DEF Stray
    <2> QED BY <2>1 DEF StrayOf
<1>8. StrayOf(i)' <=> \E v \in Workers : v[2] = i /\ Live(v)
    <2>1. ASSUME NEW v \in Workers, v[2] = i PROVE Stray(v)' <=> Live(v)
        BY <1>0, <1>1, <1>3, <2>1 DEF Stray
    <2> QED BY <2>1 DEF StrayOf
<1>9. CASE PollOf(i) = "off"
    <2>1. ASSUME NEW v \in Workers, v[2] = i, Live(v) PROVE cancels[i] # v
        BY <1>9, <2>1 DEF PollOf
    <2>2. StrayOf(i)' <=> StrayOf(i)
        BY <1>8, <2>1 DEF StrayOf, Stray
    <2>3. Strays' = Strays
        BY <1>7, <2>2 DEF Strays
    <2>4. PollMap' = PollMap
        BY <1>0, <1>4, <1>5, <1>9 DEF PollMap
    <2> QED BY <1>1, <2>3, <2>4 DEF AbstractStep
<1>10. CASE PollOf(i) # "off"
    <2>1. cancels[i] # None /\ Live(cancels[i])
        BY <1>10 DEF PollOf
    <2>2. StrayOf(i)'
        BY <1>0, <1>8, <2>1, EntryIsOwn
    <2>3. Strays' = Strays \union {i}
        BY <1>0, <1>7, <2>2 DEF Strays
    <2>4. Abstract!Forget(i)
        BY <1>0, <1>1, <1>6, <1>10, <2>3
           DEF Abstract!Forget, Abstract!Becomes, PollMap, Strays, StrayOf
    <2> QED BY <1>0, <2>4 DEF AbstractStep
<1> QED BY <1>9, <1>10

\* Any other step of a goroutine is one of its poller, if it is not lost.
LEMMA WorkerStepImplements ==
    ASSUME TrackInv, NEW w \in Workers, WorkerStep(w), ~Drop(w)
    PROVE  AbstractStep
<1> DEFINE i == w[2]
<1> USE SchedulerAssumption
<1>0. i \in Integrations /\ w # None
    BY WorkerParts
<1>1. /\ UNCHANGED <<down, cancels>>
      /\ worker \in [Workers -> {"none", "spaces", "drop", "sync", "select", "exited"}]
    BY DEF WorkerStep, FirstSpaces, FirstSpacesFails, EndSync, Tick, Exit, TrackInv,
       CoverInv, RegisteredInv, TypeOK
<1>2. \A v \in Workers : v # w => (Live(v)' <=> Live(v)) /\ worker'[v] = worker[v]
    BY <1>1 DEF WorkerStep, FirstSpaces, FirstSpacesFails, EndSync, Tick, Exit,
       Live, Running, Stopped
<1>3. Live(w)' => Live(w)
    BY <1>1 DEF WorkerStep, FirstSpaces, FirstSpacesFails, EndSync, Tick, Exit,
       Live, Running, Stopped
<1>4. \A v \in Workers : v # w => (Stray(v)' <=> Stray(v))
    BY <1>1, <1>2 DEF Stray
<1>5. ASSUME NEW j \in Integrations, cancels[j] # w PROVE PollOf(j)' = PollOf(j)
    <2>1. cancels[j] # None => cancels[j] \in Workers
        BY EntryIsOwn
    <2> QED BY <1>1, <1>2, <1>5, <2>1 DEF PollOf
<1>6. \A j \in Integrations : j # i => cancels[j] # w
    BY <1>0, EntryIsOwn
<1>7. PollMap' = [PollMap EXCEPT ![i] = PollOf(i)']
    BY <1>0, <1>5, <1>6 DEF PollMap
<1>8. CASE cancels[i] # w
    <2>1. PollMap' = PollMap
        BY <1>0, <1>5, <1>7, <1>8 DEF PollMap
    <2>2. \A j \in Integrations : j # i => (StrayOf(j)' <=> StrayOf(j))
        BY <1>4 DEF StrayOf
    <2>3. CASE StrayOf(i)' <=> StrayOf(i)
        <3>1. Strays' = Strays
            BY <2>2, <2>3 DEF Strays
        <3> QED BY <1>1, <2>1, <3>1 DEF AbstractStep
    <2>4. CASE ~(StrayOf(i)' <=> StrayOf(i))
        <3>1. StrayOf(i) /\ ~StrayOf(i)'
            BY <1>1, <1>3, <1>4, <2>4 DEF StrayOf, Stray
        <3>2. i \in Strays /\ Strays' = Strays \ {i}
            BY <1>0, <2>2, <3>1 DEF Strays
        <3>3. Abstract!StrayGivesUp(i)
            BY <1>1, <2>1, <3>2 DEF Abstract!StrayGivesUp, PollMap, Strays, StrayOf
        <3> QED BY <1>0, <3>3 DEF AbstractStep
    <2> QED BY <2>3, <2>4
<1>9. CASE cancels[i] = w
    <2>1. \A v \in Workers : Stray(v)' <=> Stray(v)
        BY <1>0, <1>1, <1>4, <1>9 DEF Stray
    <2>2. Strays' = Strays
        BY <2>1 DEF Strays, StrayOf
    <2>3. CASE ~Live(w)
        <3>1. PollOf(i) = "off" /\ PollOf(i)' = "off"
            BY <1>1, <1>3, <1>9, <2>3 DEF PollOf
        <3>2. PollMap' = PollMap
            BY <1>0, <1>7, <3>1 DEF PollMap
        <3> QED BY <1>1, <2>2, <3>2 DEF AbstractStep
    <2>4. CASE Live(w)
        <3>1. CASE FirstSpaces(w) \/ Tick(w)
            <4>1. Live(w)' /\ worker'[w] = "sync" /\ worker[w] \in {"spaces", "select"}
                BY <1>1, <2>4, <3>1 DEF FirstSpaces, Tick, Live, Running, Stopped
            <4>2. PollOf(i) \in {"starting", "waiting"} /\ PollOf(i)' = "syncing"
                BY <1>0, <1>1, <1>9, <2>4, <4>1 DEF PollOf
            <4>3. Abstract!BeginSync(i)
                BY <1>0, <1>1, <1>7, <2>2, <4>2
                   DEF Abstract!BeginSync, Abstract!Becomes, PollMap, Strays, StrayOf
            <4> QED BY <1>0, <4>3 DEF AbstractStep
        <3>2. CASE EndSync(w)
            <4>1. Live(w)' /\ worker'[w] = "select" /\ worker[w] = "sync"
                BY <1>1, <2>4, <3>2 DEF EndSync, Live, Running, Stopped
            <4>2. PollOf(i) = "syncing" /\ PollOf(i)' = "waiting"
                BY <1>0, <1>1, <1>9, <2>4, <4>1 DEF PollOf
            <4>3. Abstract!EndSync(i)
                BY <1>0, <1>1, <1>7, <2>2, <4>2
                   DEF Abstract!EndSync, Abstract!Becomes, PollMap, Strays, StrayOf
            <4> QED BY <1>0, <4>3 DEF AbstractStep
        <3>3. CASE FirstSpacesFails(w)
            <4>1. worker[w] = "spaces" /\ ~Live(w)'
                BY <3>3 DEF FirstSpacesFails, Live, Stopped
            <4>2. PollOf(i) = "starting" /\ PollOf(i)' = "off"
                BY <1>0, <1>1, <1>9, <2>4, <4>1 DEF PollOf
            <4>3. Abstract!GiveUp(i)
                BY <1>0, <1>1, <1>7, <2>2, <4>2
                   DEF Abstract!GiveUp, Abstract!Becomes, PollMap, Strays, StrayOf
            <4> QED BY <1>0, <4>3 DEF AbstractStep
        <3>4. ~Exit(w)
            BY <2>4 DEF Exit, Live
        <3> QED BY <3>1, <3>2, <3>3, <3>4 DEF WorkerStep
    <2> QED BY <2>3, <2>4
<1> QED BY <1>8, <1>9

-----------------------------------------------------------------------------
(* Every step, and the theorem.                                            *)

\* Every step of the scheduler is a step of Polling, or leaves it alone.
LEMMA NextImplements == ASSUME TrackInv, [Next]_vars PROVE AbstractStep
<1>1. CASE Shutdown
    BY <1>1, ShutdownImplements DEF AbstractStep
<1>2. CASE StartPublish \/ StartReturn
    BY <1>2, NothingMoves DEF StartPublish, StartReturn, AbstractStep
<1>3. ASSUME NEW c \in Reloads, NEW i \in Integrations, SaveIntegration(c, i)
      PROVE  AbstractStep
    BY <1>3, NothingMoves DEF SaveIntegration, AbstractStep
<1>4. ASSUME NEW c \in Reloads, ReloadStop(c) PROVE AbstractStep
    BY <1>4, ReloadStopImplements DEF AbstractStep
<1>5. ASSUME NEW c \in Calls, CallStep(c) PROVE AbstractStep
    <2>1. CASE ListIntegrations(c) \/ ListIntegrationsFails(c) \/ SpawnDone(c)
               \/ \E i \in Integrations : NoFetcher(c, i)
        <3>1. UNCHANGED <<down, worker, cancelled, cancels>>
            BY <2>1 DEF ListIntegrations, ListIntegrationsFails, SpawnDone, NoFetcher
        <3> QED BY <3>1, NothingMoves DEF AbstractStep
    <2>2. ASSUME NEW i \in Integrations, StartWorker(c, i) PROVE AbstractStep
        BY <2>2, StartWorkerImplements
    <2> QED BY <1>5, <2>1, <2>2 DEF CallStep
<1>6. ASSUME NEW w \in Workers, WorkerStep(w) PROVE AbstractStep
    BY <1>6, DropImplements, WorkerStepImplements
<1>7. CASE UNCHANGED vars
    BY <1>7, NothingMoves DEF vars, AbstractStep
<1> QED BY <1>1, <1>2, <1>3, <1>4, <1>5, <1>6, <1>7 DEF Next

\* Together with the rule that what overlapped stays so, that is Polling's Next.
LEMMA NextRefines == ASSUME TrackInv, [Next]_vars PROVE Abstract!Next
<1>1. AbstractStep
    BY NextImplements
<1>2. overlapped # {} => overlapped' # {}
    BY LostForGood
<1> QED BY <1>1, <1>2 DEF AbstractStep, Abstract!Next, PollMap, Strays, StrayOf

(***************************************************************************)
(* The scheduler implements Polling, whatever Start, saves, Reloads and    *)
(* failing goroutines do: the poller it knows of an integration starts,    *)
(* syncs and waits in turn until a reload or the shutdown ends it, one     *)
(* that it knows is replaced only after calls overlapped, and what it      *)
(* loses sight of is counted as a stray until that one gives up.           *)
(***************************************************************************)
THEOREM SchedulerImplementsPolling == Spec => ImplementsPolling
<1>1. TrackInv /\ [Next]_vars => Abstract!Next
    BY NextRefines
<1> QED BY <1>1, InitImplements, TrackInvHolds, PTL DEF Spec, ImplementsPolling, Abstract!Spec
=============================================================================
