-------------------------- MODULE GracefulShutdown --------------------------
(***************************************************************************)
(* internal/shutdown put together: the manager of ShutdownManager with the *)
(* drainer of Drainer, as hooks/http.go joins them.  The function of one   *)
(* hook starts the drain and waits for it, so what the manager takes for   *)
(* the result of that hook is what Wait made of the requests.              *)
(***************************************************************************)
EXTENDS ShutdownManager

CONSTANTS
    Op,         \* request goroutines
    DrainHook   \* the hook of HTTPDrainerShutdown

ASSUME DrainHookAssumption == DrainHook \in Hook /\ IsFiniteSet(Op)

VARIABLES draining, count, wg, opPc, waiter, zeroSeen, before

D == INSTANCE Drainer WITH pc <- opPc

drainVars == <<draining, count, wg, opPc, waiter, zeroSeen, before>>
gracefulVars == <<vars, drainVars>>

GracefulInit == Init /\ D!Init

-----------------------------------------------------------------------------
\* HTTPDrainerShutdownFunc: StartDrain, then Wait under the hook's context.
HookStartsDrain == fn[DrainHook] = "running" /\ D!StartDrain /\ UNCHANGED vars
HookDrained == D!WaitReturns /\ HookReturns(DrainHook, "ok")
HookDrainTimesOut == D!WaitTimesOut /\ HookReturns(DrainHook, "error")

ServeStep(o) == D!RequestStep(o) /\ UNCHANGED vars
WaitStep == D!WgWaitReturns /\ UNCHANGED vars

\* The manager and all hooks, but that the function of this one returns with Wait only.
ManagerSide ==
    /\ Next
    /\ fn[DrainHook] = "running" => fn'[DrainHook] = "running"
    /\ UNCHANGED drainVars

GracefulNext ==
    \/ ManagerSide
    \/ HookStartsDrain \/ HookDrained \/ HookDrainTimesOut
    \/ WaitStep
    \/ \E o \in Op : ServeStep(o)

GracefulSpec == GracefulInit /\ [][GracefulNext]_gracefulVars

\* As for the manager and the drainer, and the hook's function gets to run.
GracefulFairness == Fairness /\ D!Fairness /\ WF_gracefulVars(HookStartsDrain)

-----------------------------------------------------------------------------
(* Properties *)

\* What requests depend on outlives them: once a hook of a lower priority than the
\* drainer's (database, cache) has been started, no request is left that was being
\* served when draining began, unless the drainer's hook is on record as failed.
DependenciesOutliveRequests ==
    /\ PriorityOrder /\ D!CountsRequests
    /\ \A h \in Hook :
         PriorityOf[h] < PriorityOf[DrainHook] /\ outcome[h] # "none" /\ outcome[DrainHook] # "none"
             => before = {} \/ DrainHook \in errors

\* Once draining has begun the requests die out, for good, and the hook's function
\* returns, whether or not the manager still waits for it.
Quiesces ==
    draining ~> [](count = 0 /\ wg = 0 /\ fn[DrainHook] \in {"ok", "error"})
=============================================================================
