-------------------------- MODULE ShutdownManager --------------------------
(***************************************************************************)
(* internal/shutdown: Manager, the hook registry and the timeout wrapper.  *)
(*                                                                         *)
(* Shutdown runs the registered hooks group by group in descending         *)
(* priority.  Each hook runs in a goroutine of its own under a deadline;   *)
(* when the deadline passes first, the manager goes on and the hook        *)
(* function keeps running behind its back.                                 *)
(*                                                                         *)
(* Shutdown and ShutdownWithContext differ only in where the context comes *)
(* from; overall is the instant that context is done.  Registration is     *)
(* done by one goroutine at startup, as the unsynchronised slice of the    *)
(* registry requires, but may still be going on when a signal arrives.     *)
(***************************************************************************)
EXTENDS Integers, FiniteSets

CONSTANTS
    Hook,
    PriorityOf,   \* [Hook -> priority]
    Caller        \* goroutines that call Shutdown, the signal listener included

\* The name under which the errors tell of the overall timeout.
Overall == "overall"

ASSUME PriorityAssumption == PriorityOf \in [Hook -> Int] /\ Overall \notin Hook

VARIABLES
    registered,   \* registry.hooks
    state,        \* Manager.state
    once,         \* shutdownOnce: "fresh", "running" or "done"
    pc,           \* each caller: "idle", "running" (inside Do), "blocked" (on Do), "returned"
    phase,        \* the running call: "start", "groups", "finish", "close", "over"
    pending,      \* hooks of the sorted snapshot whose group has not started
    group,        \* hooks of the group being executed
    fn,           \* each hook function: "none", "running", "ok", "error", "panic"
    outcome,      \* what executeHook made of it: also "waiting" and "timeout"
    expired,      \* hooks whose PerHookTimeout has passed
    overall,      \* the overall context is done
    errors,       \* Manager.errors: hooks, and Overall
    done          \* the done channel is closed

vars == <<registered, state, once, pc, phase, pending, group, fn, outcome,
          expired, overall, errors, done>>
callVars == <<state, once, pc, done>>

Result == {"ok", "error", "panic"}
Settled == Result \cup {"timeout"}

TypeOK ==
    /\ registered \subseteq Hook
    /\ state \in {"running", "shuttingDown", "shutdown"}
    /\ once \in {"fresh", "running", "done"}
    /\ pc \in [Caller -> {"idle", "running", "blocked", "returned"}]
    /\ phase \in {"start", "groups", "finish", "close", "over"}
    /\ pending \subseteq Hook
    /\ group \subseteq Hook
    /\ fn \in [Hook -> Result \cup {"none", "running"}]
    /\ outcome \in [Hook -> Settled \cup {"none", "waiting"}]
    /\ expired \subseteq Hook
    /\ overall \in BOOLEAN
    /\ errors \subseteq Hook \cup {Overall}
    /\ done \in BOOLEAN

Init ==
    /\ registered = {}
    /\ state = "running"
    /\ once = "fresh"
    /\ pc = [c \in Caller |-> "idle"]
    /\ phase = "start"
    /\ pending = {}
    /\ group = {}
    /\ fn = [h \in Hook |-> "none"]
    /\ outcome = [h \in Hook |-> "none"]
    /\ expired = {}
    /\ overall = FALSE
    /\ errors = {}
    /\ done = FALSE

-----------------------------------------------------------------------------
Register(h) ==
    /\ h \notin registered
    /\ registered' = registered \cup {h}
    /\ UNCHANGED <<callVars, phase, pending, group, fn, outcome, expired, overall, errors>>

FirstCall == once = "fresh"

\* Wrong on purpose: a caller that finds the shutdown running returns at once.
LateCallReturns == "returned"

LateCall == IF once = "done" THEN "returned" ELSE "blocked"

\* shutdownOnce.Do: the first caller runs the function, one that comes while it
\* runs blocks until it has returned, a later one returns at once.
Shutdown(c) ==
    /\ pc[c] = "idle"
    /\ IF FirstCall
       THEN /\ once' = "running"
            /\ state' = "shuttingDown"
            /\ phase' = "start"
            /\ pc' = [pc EXCEPT ![c] = "running"]
       ELSE /\ pc' = [pc EXCEPT ![c] = LateCall]
            /\ UNCHANGED <<once, state, phase>>
    /\ UNCHANGED <<registered, pending, group, fn, outcome, expired, overall, errors, done>>

\* executeHooks: the snapshot of the registry, sorted and grouped.
TakeHooks ==
    /\ once = "running"
    /\ phase = "start"
    /\ phase' = "groups"
    /\ pending' = registered
    /\ UNCHANGED <<registered, callVars, group, fn, outcome, expired, overall, errors>>

\* Wrong on purpose: an ascending sort.
NextGroupAscending(hooks) == {h \in hooks : \A k \in hooks : PriorityOf[k] >= PriorityOf[h]}

\* groupByPriority after the descending sort: the next group is the hooks of the
\* highest priority left.
NextGroup(hooks) == {h \in hooks : \A k \in hooks : PriorityOf[k] <= PriorityOf[h]}

StartHooks(hooks) ==
    /\ fn' = [h \in Hook |-> IF h \in hooks THEN "running" ELSE fn[h]]
    /\ outcome' = [h \in Hook |-> IF h \in hooks THEN "waiting" ELSE outcome[h]]

\* executeHookGroup: one goroutine per hook.
StartGroup ==
    /\ phase = "groups"
    /\ group = {}
    /\ pending # {}
    /\ group' = NextGroup(pending)
    /\ pending' = pending \ group'
    /\ StartHooks(group')
    /\ UNCHANGED <<registered, callVars, phase, expired, overall, errors>>

\* Wrong on purpose: groups are skipped without a word.
SkipErrorNone == {}

SkipError == {Overall}

\* wg.Wait has returned; the remaining groups are skipped if the context is done.
GroupDone ==
    /\ phase = "groups"
    /\ group # {}
    /\ \A h \in group : outcome[h] # "waiting"
    /\ group' = {}
    /\ IF overall
       THEN phase' = "finish" /\ errors' = errors \cup SkipError
       ELSE UNCHANGED <<phase, errors>>
    /\ UNCHANGED <<registered, callVars, pending, fn, outcome, expired, overall>>

AllGroupsDone ==
    /\ phase = "groups"
    /\ group = {}
    /\ pending = {}
    /\ phase' = "finish"
    /\ UNCHANGED <<registered, callVars, pending, group, fn, outcome, expired, overall, errors>>

SetShutdown ==
    /\ phase = "finish"
    /\ phase' = "close"
    /\ state' = "shutdown"
    /\ UNCHANGED <<registered, once, pc, done, pending, group, fn, outcome, expired, overall,
                   errors>>

\* signalHandler.Stop, close(done), and Do returns to its caller.
CloseDone ==
    /\ phase = "close"
    /\ phase' = "over"
    /\ done' = TRUE
    /\ once' = "done"
    /\ pc' = [c \in Caller |-> IF pc[c] = "running" THEN "returned" ELSE pc[c]]
    /\ UNCHANGED <<registered, state, pending, group, fn, outcome, expired, overall, errors>>

\* A caller blocked on the Once goes on.
Unblock(c) ==
    /\ pc[c] = "blocked"
    /\ once = "done"
    /\ pc' = [pc EXCEPT ![c] = "returned"]
    /\ UNCHANGED <<registered, state, once, done, phase, pending, group, fn, outcome, expired,
                   overall, errors>>

-----------------------------------------------------------------------------
\* Hook functions and the goroutines that wait for them

\* The hook function returns, or panics and is recovered; its result waits in a
\* buffered channel, whether or not anybody still reads it.
HookReturns(h, result) ==
    /\ fn[h] = "running"
    /\ fn' = [fn EXCEPT ![h] = result]
    /\ UNCHANGED <<registered, callVars, phase, pending, group, outcome, expired, overall, errors>>

Settle(h, result) ==
    /\ outcome' = [outcome EXCEPT ![h] = result]
    /\ errors' = IF result = "ok" THEN errors ELSE errors \cup {h}

\* select, case err := <-done.
TakeResult(h) ==
    /\ outcome[h] = "waiting"
    /\ fn[h] \in Result
    /\ Settle(h, fn[h])
    /\ UNCHANGED <<registered, callVars, phase, pending, group, fn, expired, overall>>

TimeoutResult(h) == "timeout"

\* Wrong on purpose: a timeout is noticed only when the hook function is back.
DeadlinePassedLate(h) == (h \in expired \/ overall) /\ fn[h] \in Result

DeadlinePassed(h) == h \in expired \/ overall

\* select, case <-ctx.Done(): also possible when the result is there as well.
HookTimesOut(h) ==
    /\ outcome[h] = "waiting"
    /\ DeadlinePassed(h)
    /\ Settle(h, TimeoutResult(h))
    /\ UNCHANGED <<registered, callVars, phase, pending, group, fn, expired, overall>>

PerHookDeadline(h) ==
    /\ outcome[h] = "waiting"
    /\ h \notin expired
    /\ expired' = expired \cup {h}
    /\ UNCHANGED <<registered, callVars, phase, pending, group, fn, outcome, overall, errors>>

OverallDeadline ==
    /\ once = "running"
    /\ ~overall
    /\ overall' = TRUE
    /\ UNCHANGED <<registered, callVars, phase, pending, group, fn, outcome, expired, errors>>

-----------------------------------------------------------------------------
ManagerStep == TakeHooks \/ StartGroup \/ GroupDone \/ AllGroupsDone \/ SetShutdown \/ CloseDone

Terminating == done /\ (\A h \in Hook : fn[h] # "running") /\ UNCHANGED vars

CallerStep(c) == Shutdown(c) \/ Unblock(c)
HookStep(h) == Register(h) \/ TakeResult(h) \/ HookTimesOut(h) \/ PerHookDeadline(h)

Next ==
    \/ ManagerStep
    \/ OverallDeadline
    \/ \E c \in Caller : CallerStep(c)
    \/ \E h \in Hook : HookStep(h) \/ \E result \in Result : HookReturns(h, result)
    \/ Terminating

Spec == Init /\ [][Next]_vars

\* The manager's goroutines run and timers fire.  Nothing is assumed of the hook
\* functions: they may never return.
Fairness ==
    /\ WF_vars(ManagerStep)
    /\ \A h \in Hook : WF_vars(PerHookDeadline(h)) /\ WF_vars(TakeResult(h) \/ HookTimesOut(h))
    /\ \A c \in Caller : WF_vars(Unblock(c))

-----------------------------------------------------------------------------
(* Properties *)

\* Before a hook starts, every hook of a higher priority that took part has been
\* waited for; one whose function is still running is on record as an error.
\* executeHooks, executeHookGroup and the timeout wrapper keep this together.
PriorityOrder ==
    \A h, k \in Hook :
        PriorityOf[h] > PriorityOf[k] /\ outcome[k] # "none"
            => /\ h \notin pending
               /\ outcome[h] # "waiting"
               /\ fn[h] = "running" => h \in errors

\* When shutdown is complete every hook of the snapshot was executed, or the
\* errors say that the overall timeout cut the rest off; and the errors name
\* exactly the hooks that did not end well.
NothingSkippedSilently ==
    /\ TypeOK
    /\ state = "shutdown" =>
        /\ pending # {} => Overall \in errors
        /\ \A h \in Hook : h \in errors <=> outcome[h] \in Settled \ {"ok"}
        /\ \A h \in Hook : outcome[h] # "waiting"

\* A call of Shutdown that has returned, whoever made it, finds shutdown complete:
\* Once.Do makes the other callers wait for the first.
ReturnMeansComplete ==
    NothingSkippedSilently /\ \A c \in Caller : pc[c] = "returned" => done /\ state = "shutdown"

\* Once asked for, shutdown completes and every caller returns, even if hook
\* functions never do.
ShutdownCompletes ==
    \A c \in Caller : pc[c] \in {"running", "blocked"} ~> pc[c] = "returned" /\ done
=============================================================================
