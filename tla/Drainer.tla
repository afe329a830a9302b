------------------------------ MODULE Drainer ------------------------------
(***************************************************************************)
(* internal/shutdown/drainer.go, with the hook of hooks/http.go that uses  *)
(* it: requests pass Add and Done around the handler (ServeHTTP,           *)
(* DrainMiddleware), the hook calls StartDrain and then Wait.              *)
(*                                                                         *)
(* Add looks at the done channel, then adds to the counter, then to the    *)
(* wait group: three steps that StartDrain and Wait can fall between.      *)
(***************************************************************************)
EXTENDS Integers, FiniteSets

CONSTANT Op   \* request goroutines

VARIABLES
    draining,   \* the done channel is closed
    count,      \* d.count
    wg,         \* d.wg
    pc,         \* each request: "idle", "add", "addWg", "serving", "done"
    waiter,     \* the hook: "idle", "waiting", "drained", "timeout"
    zeroSeen,   \* the goroutine of Wait saw the wait group at zero
    before      \* history: requests that were being served when draining started

vars == <<draining, count, wg, pc, waiter, zeroSeen, before>>

TypeOK ==
    /\ draining \in BOOLEAN
    /\ count \in 0..Cardinality(Op)
    /\ wg \in 0..Cardinality(Op)
    /\ pc \in [Op -> {"idle", "add", "addWg", "serving", "done"}]
    /\ waiter \in {"idle", "waiting", "drained", "timeout"}
    /\ zeroSeen \in BOOLEAN
    /\ before \subseteq Op

Init ==
    /\ draining = FALSE
    /\ count = 0
    /\ wg = 0
    /\ pc = [o \in Op |-> "idle"]
    /\ waiter = "idle"
    /\ zeroSeen = FALSE
    /\ before = {}

GoTo(o, label) == pc' = [pc EXCEPT ![o] = label]

-----------------------------------------------------------------------------
\* Wrong on purpose: Add does not look at the done channel.
AdmitAlways == "add"

Admit == IF draining THEN "idle" ELSE "add"

\* Add: the select.  A request that finds the channel closed gets 503 and is idle
\* again.
AddCheck(o) ==
    /\ pc[o] = "idle"
    /\ GoTo(o, Admit)
    /\ UNCHANGED <<draining, count, wg, waiter, zeroSeen, before>>

AddCount(o) ==
    /\ pc[o] = "add"
    /\ count' = count + 1
    /\ GoTo(o, "addWg")
    /\ UNCHANGED <<draining, wg, waiter, zeroSeen, before>>

WgAdded == wg + 1

AddWg(o) ==
    /\ pc[o] = "addWg"
    /\ wg' = WgAdded
    /\ GoTo(o, "serving")
    /\ UNCHANGED <<draining, count, waiter, zeroSeen, before>>

\* Wrong on purpose: requests that end while draining are not counted down.
CountedDownUnlessDraining == IF draining THEN count ELSE count - 1

CountedDown == count - 1

\* The handler has returned; Done: the counter, then the wait group.
DoneCount(o) ==
    /\ pc[o] = "serving"
    /\ count' = CountedDown
    /\ GoTo(o, "done")
    /\ UNCHANGED <<draining, wg, waiter, zeroSeen, before>>

DoneWg(o) ==
    /\ pc[o] = "done"
    /\ wg' = wg - 1
    /\ GoTo(o, "idle")
    /\ before' = before \ {o}
    /\ UNCHANGED <<draining, count, waiter, zeroSeen>>

-----------------------------------------------------------------------------
StartDrain ==
    /\ waiter = "idle"
    /\ waiter' = "waiting"
    /\ draining' = TRUE
    /\ before' = {o \in Op : pc[o] \in {"serving", "done"}}
    /\ UNCHANGED <<count, wg, pc, zeroSeen>>

\* The goroutine of Wait: wg.Wait returns and closes its channel.
WgWaitReturns ==
    /\ waiter = "waiting"
    /\ wg = 0
    /\ ~zeroSeen
    /\ zeroSeen' = TRUE
    /\ UNCHANGED <<draining, count, wg, pc, waiter, before>>

\* Wrong on purpose: Wait goes by the counter.
DrainCompleteByCount == count = 0

DrainComplete == zeroSeen

WaitReturns ==
    /\ waiter = "waiting"
    /\ DrainComplete
    /\ waiter' = "drained"
    /\ UNCHANGED <<draining, count, wg, pc, zeroSeen, before>>

\* The context of the hook ends first.
WaitTimesOut ==
    /\ waiter = "waiting"
    /\ waiter' = "timeout"
    /\ UNCHANGED <<draining, count, wg, pc, zeroSeen, before>>

ServeOn(o) == AddCount(o) \/ AddWg(o) \/ DoneCount(o) \/ DoneWg(o)
RequestStep(o) == AddCheck(o) \/ ServeOn(o)

Next ==
    \/ \E o \in Op : RequestStep(o)
    \/ StartDrain \/ WgWaitReturns \/ WaitReturns \/ WaitTimesOut

Spec == Init /\ [][Next]_vars

\* A request that was let in is served to its end, none need arrive; the waiter's
\* goroutines run.
Fairness ==
    /\ \A o \in Op : WF_vars(ServeOn(o))
    /\ WF_vars(WgWaitReturns) /\ WF_vars(WaitReturns)

-----------------------------------------------------------------------------
(* Properties *)

\* The counter and the wait group agree with the requests that are really there:
\* no order of Add, Done and StartDrain makes them drift or go below zero.
CountsRequests ==
    /\ TypeOK
    /\ count = Cardinality({o \in Op : pc[o] \in {"addWg", "serving"}})
    /\ wg = Cardinality({o \in Op : pc[o] \in {"serving", "done"}})
=============================================================================
