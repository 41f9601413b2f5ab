------------------------------ MODULE Polling ------------------------------
(***************************************************************************)
(* What the scheduler keeps of its promise, "Scheduler manages one poll    *)
(* goroutine per integration.  Each goroutine calls Worker.RunOnce on a    *)
(* configurable interval."  An integration has at most one poller that the *)
(* scheduler knows; it lists its spaces once, then syncs and waits in      *)
(* turn.  A reload ends the known pollers at once, and so does the         *)
(* shutdown, after which none starts.                                      *)
(*                                                                         *)
(* The two ways to lose sight of a poller are actions of their own: it is  *)
(* replaced, which takes calls that overlapped, or forgotten.  It then     *)
(* polls on as a stray, which no reload ends.                              *)
(***************************************************************************)
CONSTANT Integrations

VARIABLES
    poll,       \* what the known poller of each integration does, "off" without one
    stray,      \* the integrations polled by others besides
    crowded,    \* calls have overlapped
    over        \* the server is going down

vars == <<poll, stray, crowded, over>>

Init ==
    /\ poll = [i \in Integrations |-> "off"]
    /\ stray = {}
    /\ crowded = FALSE
    /\ over = FALSE

Becomes(i, phase) == poll' = [poll EXCEPT ![i] = phase]

\* A poller is launched, for an integration without a known one.
Launch(i) ==
    /\ ~over
    /\ poll[i] = "off" /\ Becomes(i, "starting")
    /\ UNCHANGED <<stray, over>>

\* A poller is launched besides another one, which becomes a stray.
Replace(i) ==
    /\ ~over /\ crowded
    /\ poll[i] # "off" /\ Becomes(i, "starting")
    /\ stray' = stray \union {i}
    /\ UNCHANGED over

\* A poller runs on but the scheduler does not know any more.
Forget(i) ==
    /\ poll[i] # "off" /\ Becomes(i, "off")
    /\ stray' = stray \union {i}
    /\ UNCHANGED over

\* A poller that cannot list its spaces gives up, but only while starting.
GiveUp(i) ==
    /\ poll[i] = "starting" /\ Becomes(i, "off")
    /\ UNCHANGED <<stray, over>>

\* So does a stray, the last of its integration.
StrayGivesUp(i) ==
    /\ i \in stray
    /\ stray' = stray \ {i}
    /\ UNCHANGED <<poll, over>>

\* A sync begins, right after the launch or on a tick; never within another.
BeginSync(i) ==
    /\ poll[i] \in {"starting", "waiting"} /\ Becomes(i, "syncing")
    /\ UNCHANGED <<stray, over>>

EndSync(i) ==
    /\ poll[i] = "syncing" /\ Becomes(i, "waiting")
    /\ UNCHANGED <<stray, over>>

\* A reload stops every known poller in one step.
StopAll ==
    /\ poll' = [i \in Integrations |-> "off"]
    /\ UNCHANGED <<stray, over>>

\* The shutdown stops all there are, for good.
GoDown ==
    /\ ~over
    /\ over' = TRUE
    /\ poll' = [i \in Integrations |-> "off"]
    /\ stray' = {}

Next ==
    /\ \/ StopAll \/ GoDown
       \/ UNCHANGED <<poll, stray, over>>
       \/ \E i \in Integrations :
            \/ Launch(i) \/ Replace(i) \/ Forget(i)
            \/ GiveUp(i) \/ StrayGivesUp(i) \/ BeginSync(i) \/ EndSync(i)
    /\ crowded => crowded'

Spec == Init /\ [][Next]_vars
=============================================================================
