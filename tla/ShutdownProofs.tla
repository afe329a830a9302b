--------------------------- MODULE ShutdownProofs ---------------------------
(***************************************************************************)
(* Of every set of hooks with any priorities, of callers and of requests,  *)
(* whichever hook functions fail, hang or come back late: shutdown goes by *)
(* priority, skips nothing in silence and does not return early, and what  *)
(* requests depend on outlives them.                                       *)
(***************************************************************************)
EXTENDS GracefulShutdown, FiniteSetTheorems, TLAPS

\* How far the one running call of Shutdown is, and what the Once says of it.
CallProgress ==
    /\ once = "fresh" => phase = "start"
    /\ state = "shutdown" <=> phase \in {"close", "over"}
    /\ phase = "over" => done /\ once = "done"
    /\ once = "done" => phase = "over"
    /\ \A c \in Caller : pc[c] = "returned" => once = "done"

\* Nothing has been done before the snapshot is taken, and a group runs only
\* while groups are run.
SnapshotFirst ==
    /\ phase = "start" => /\ pending = {} /\ errors = {}
                          /\ \A h \in Hook : outcome[h] = "none"
    /\ group # {} => phase = "groups"

\* A hook is pending, then in the group that runs, then settled.
HookProgress ==
    /\ \A h \in pending : outcome[h] = "none"
    /\ \A h \in group : outcome[h] # "none"
    /\ \A h \in Hook : outcome[h] = "waiting" => h \in group

\* What was started so far has no lower a priority than what is pending or running.
StartedAbove ==
    \A k \in Hook : outcome[k] # "none" =>
        \A h \in pending \cup group : PriorityOf[k] >= PriorityOf[h]

\* What executeHook made of a hook function is what that returned, or a timeout.
ResultsTrue ==
    \A h \in Hook : /\ outcome[h] = "none" <=> fn[h] = "none"
                    /\ outcome[h] \in Result => fn[h] = outcome[h]

\* The errors name the hooks that did not end well, and the overall timeout if
\* groups were skipped.
ErrorsTrue ==
    /\ \A h \in Hook : h \in errors <=> outcome[h] \in Settled \ {"ok"}
    /\ pending # {} => phase \in {"start", "groups"} \/ Overall \in errors

IInv ==
    /\ TypeOK /\ CallProgress /\ SnapshotFirst /\ HookProgress /\ StartedAbove /\ ResultsTrue
    /\ ErrorsTrue

-----------------------------------------------------------------------------
\* The program starts with no hook and no call.
LEMMA InitInv == Init => IInv
  BY PriorityAssumption DEF Init, IInv, TypeOK, CallProgress, SnapshotFirst, HookProgress, StartedAbove,
     ResultsTrue, ErrorsTrue, Result, Settled

\* Only what a property speaks of matters: registration, timers and callers of the
\* Once disturb none of the hooks.
LEMMA HooksUndisturbed ==
  ASSUME IInv, TypeOK', UNCHANGED <<phase, pending, group, fn, outcome, errors>>
  PROVE  (SnapshotFirst /\ HookProgress /\ StartedAbove /\ ResultsTrue /\ ErrorsTrue)'
  BY DEF IInv, SnapshotFirst, HookProgress, StartedAbove, ResultsTrue, ErrorsTrue

\* The calls go on as before when only the hooks move.
LEMMA CallUndisturbed ==
  ASSUME IInv, UNCHANGED <<phase, state, once, pc, done>>
  PROVE  CallProgress'
  BY DEF IInv, CallProgress

\* Callers come and are let go.
LEMMA CallerKeeps == ASSUME IInv, NEW c \in Caller, CallerStep(c) PROVE IInv'
<1>1. CASE Shutdown(c)
  <2>1. UNCHANGED <<registered, pending, group, fn, outcome, expired, overall, errors, done>>
    BY <1>1 DEF Shutdown
  <2>2. phase' = phase
    BY <1>1 DEF Shutdown, FirstCall, IInv, CallProgress
  <2>3. TypeOK' /\ CallProgress'
    BY <1>1 DEF Shutdown, FirstCall, LateCall, IInv, TypeOK, CallProgress
  <2> QED
    BY <2>1, <2>2, <2>3, HooksUndisturbed DEF IInv
<1>2. CASE Unblock(c)
  <2>1. UNCHANGED <<registered, state, once, done, phase, pending, group, fn, outcome, expired, overall, errors>>
    BY <1>2 DEF Unblock
  <2>2. TypeOK' /\ CallProgress'
    BY <1>2 DEF Unblock, IInv, TypeOK, CallProgress
  <2> QED
    BY <2>1, <2>2, HooksUndisturbed DEF IInv
<1> QED
  BY <1>1, <1>2 DEF CallerStep

\* A hook is settled once, by what its function returned or as timed out.
LEMMA SettleKeeps ==
  ASSUME IInv, NEW h \in Hook, NEW r \in Settled, outcome[h] = "waiting", r = fn[h] \/ r = "timeout",
         Settle(h, r), UNCHANGED <<registered, callVars, phase, pending, group, fn, expired, overall>>
  PROVE  IInv'
<1>1. TypeOK'
  BY DEF Settle, callVars, IInv, TypeOK, Settled
<1>2. CallProgress'
  BY CallUndisturbed DEF callVars
<1>3. h \in group /\ phase = "groups"
  BY DEF IInv, TypeOK, HookProgress, SnapshotFirst
<1>4. /\ outcome'[h] = r /\ r # "none" /\ r # "waiting"
      /\ \A k \in Hook : k # h => outcome'[k] = outcome[k]
      /\ \A k \in Hook : outcome'[k] = "none" <=> outcome[k] = "none"
  BY DEF Settle, IInv, TypeOK, Settled, Result
<1>5. SnapshotFirst' /\ HookProgress' /\ StartedAbove'
  BY <1>3, <1>4 DEF IInv, TypeOK, SnapshotFirst, HookProgress, StartedAbove
<1>6. ResultsTrue'
  BY <1>4 DEF IInv, ResultsTrue, Result
<1>7. ErrorsTrue'
  <2>1. \A k \in Hook : k # h => (k \in errors' <=> k \in errors)
    BY DEF Settle
  <2>2. h \in errors' <=> r # "ok"
    BY DEF Settle, IInv, ErrorsTrue, Settled, Result
  <2> QED
    BY <1>3, <1>4, <2>1, <2>2 DEF IInv, ErrorsTrue, Settled, Result
<1> QED
  BY <1>1, <1>2, <1>5, <1>6, <1>7 DEF IInv

\* Registration, results, deadlines: what happens around one hook.
LEMMA HookKeeps == ASSUME IInv, NEW h \in Hook, HookStep(h) PROVE IInv'
<1>1. CASE Register(h) \/ PerHookDeadline(h)
  <2>1. UNCHANGED <<callVars, phase, pending, group, fn, outcome, errors>>
    BY <1>1 DEF Register, PerHookDeadline
  <2>2. TypeOK'
    BY <1>1 DEF Register, PerHookDeadline, callVars, IInv, TypeOK
  <2> QED
    BY <2>1, <2>2, HooksUndisturbed, CallUndisturbed DEF IInv, callVars
<1>2. CASE TakeResult(h)
  BY <1>2, SettleKeeps DEF TakeResult, Settled
<1>3. CASE HookTimesOut(h)
  BY <1>3, SettleKeeps DEF HookTimesOut, TimeoutResult, Settled
<1> QED
  BY <1>1, <1>2, <1>3 DEF HookStep

\* A hook function comes back, perhaps long after it was given up.
LEMMA ReturnKeeps == ASSUME IInv, NEW h \in Hook, NEW r \in Result, HookReturns(h, r) PROVE IInv'
<1>1. UNCHANGED <<registered, callVars, phase, pending, group, outcome, expired, overall, errors>>
  BY DEF HookReturns
<1>2. TypeOK' /\ ResultsTrue'
  BY DEF HookReturns, callVars, IInv, TypeOK, ResultsTrue, Result
<1>3. (SnapshotFirst /\ HookProgress /\ StartedAbove /\ ErrorsTrue)'
  BY <1>1 DEF IInv, SnapshotFirst, HookProgress, StartedAbove, ErrorsTrue
<1> QED
  BY <1>1, <1>2, <1>3, CallUndisturbed DEF IInv, callVars

\* The snapshot of the registry is taken.
LEMMA TakeHooksKeeps == ASSUME IInv, TakeHooks PROVE IInv'
<1>1. /\ phase = "start" /\ phase' = "groups" /\ pending' = registered
      /\ UNCHANGED <<registered, state, once, pc, done, group, fn, outcome, expired, overall, errors>>
      /\ once = "running"
  BY DEF TakeHooks, callVars
<1>2. TypeOK' /\ CallProgress'
  BY <1>1 DEF IInv, TypeOK, CallProgress
<1>3. (SnapshotFirst /\ HookProgress /\ StartedAbove /\ ResultsTrue /\ ErrorsTrue)'
  BY <1>1 DEF IInv, TypeOK, SnapshotFirst, HookProgress, StartedAbove, ResultsTrue, ErrorsTrue
<1> QED
  BY <1>2, <1>3 DEF IInv

\* The hooks of the highest priority left are started together.
LEMMA StartGroupKeeps == ASSUME IInv, StartGroup PROVE IInv'
<1> USE PriorityAssumption
<1>1. /\ phase = "groups" /\ group = {} /\ group' = NextGroup(pending) /\ pending' = pending \ group'
      /\ UNCHANGED <<registered, state, once, pc, done, phase, expired, overall, errors>>
      /\ fn' = [h \in Hook |-> IF h \in group' THEN "running" ELSE fn[h]]
      /\ outcome' = [h \in Hook |-> IF h \in group' THEN "waiting" ELSE outcome[h]]
  BY DEF StartGroup, StartHooks, callVars
<1>2. group' \subseteq pending /\ pending \subseteq Hook
  BY <1>1 DEF NextGroup, IInv, TypeOK
<1>3. TypeOK'
  BY <1>1, <1>2 DEF IInv, TypeOK
<1>4. CallProgress'
  BY <1>1, CallUndisturbed
<1>5. SnapshotFirst' /\ HookProgress'
  BY <1>1, <1>2 DEF IInv, SnapshotFirst, HookProgress
<1>6. StartedAbove'
  <2> SUFFICES ASSUME NEW k \in Hook, outcome'[k] # "none", NEW h \in pending' \cup group'
               PROVE  PriorityOf[k] >= PriorityOf[h]
    BY DEF StartedAbove
  <2>1. h \in pending
    BY <1>1, <1>2
  <2>2. CASE k \in group'
    BY <2>1, <2>2, <1>1, <1>2 DEF NextGroup
  <2>3. CASE k \notin group'
    BY <2>1, <2>3, <1>1 DEF IInv, StartedAbove
  <2> QED
    BY <2>2, <2>3
<1>7. ResultsTrue'
  BY <1>1 DEF IInv, ResultsTrue, Result
<1>8. ErrorsTrue'
  BY <1>1, <1>2 DEF IInv, ErrorsTrue, HookProgress, Settled, Result
<1> QED
  BY <1>3, <1>4, <1>5, <1>6, <1>7, <1>8 DEF IInv

\* A group is over; with the context done the groups that are left are skipped,
\* and the errors say so.
LEMMA GroupDoneKeeps == ASSUME IInv, GroupDone \/ AllGroupsDone PROVE IInv'
<1>1. /\ phase = "groups" /\ group' = {} /\ phase' \in {"groups", "finish"}
      /\ \A h \in group : outcome[h] # "waiting"
      /\ errors' = errors \/ errors' = errors \cup {Overall}
      /\ pending # {} /\ phase' = "finish" => Overall \in errors'
      /\ UNCHANGED <<registered, state, once, pc, done, pending, fn, outcome, expired, overall>>
  BY DEF GroupDone, AllGroupsDone, SkipError, callVars
<1>2. TypeOK' /\ CallProgress'
  BY <1>1 DEF IInv, TypeOK, CallProgress
<1>3. (SnapshotFirst /\ HookProgress /\ StartedAbove /\ ResultsTrue)'
  BY <1>1 DEF IInv, TypeOK, SnapshotFirst, HookProgress, StartedAbove, ResultsTrue
<1>4. ErrorsTrue'
  BY <1>1, PriorityAssumption DEF IInv, ErrorsTrue
<1> QED
  BY <1>2, <1>3, <1>4 DEF IInv

\* The call of Shutdown ends.
LEMMA EndKeeps == ASSUME IInv, SetShutdown \/ CloseDone PROVE IInv'
<1>1. /\ phase \in {"finish", "close"} /\ phase' \in {"close", "over"}
      /\ UNCHANGED <<registered, pending, group, fn, outcome, expired, overall, errors>>
  BY DEF SetShutdown, CloseDone
<1>2. TypeOK' /\ CallProgress'
  BY DEF SetShutdown, CloseDone, IInv, TypeOK, CallProgress
<1>3. (SnapshotFirst /\ HookProgress /\ StartedAbove /\ ResultsTrue /\ ErrorsTrue)'
  BY <1>1 DEF IInv, TypeOK, SnapshotFirst, HookProgress, StartedAbove, ResultsTrue, ErrorsTrue
<1> QED
  BY <1>2, <1>3 DEF IInv

\* Whatever the manager, its callers, the hooks or the timers do, and when they do
\* nothing, the invariant is kept.
LEMMA NextInv == ASSUME IInv, [Next]_vars PROVE IInv'
<1>1. ASSUME ManagerStep PROVE IInv'
  BY <1>1, TakeHooksKeeps, StartGroupKeeps, GroupDoneKeeps, EndKeeps DEF ManagerStep
<1>2. ASSUME OverallDeadline PROVE IInv'
  <2>1. UNCHANGED <<registered, callVars, phase, pending, group, fn, outcome, expired, errors>> /\ overall' = TRUE
    BY <1>2 DEF OverallDeadline
  <2>2. TypeOK'
    BY <2>1 DEF callVars, IInv, TypeOK
  <2> QED
    BY <2>1, <2>2, HooksUndisturbed, CallUndisturbed DEF IInv, callVars
<1>3. ASSUME NEW c \in Caller, CallerStep(c) PROVE IInv'
  BY <1>3, CallerKeeps
<1>4. ASSUME NEW h \in Hook, HookStep(h) \/ \E result \in Result : HookReturns(h, result) PROVE IInv'
  BY <1>4, HookKeeps, ReturnKeeps
<1>5. ASSUME UNCHANGED vars PROVE IInv'
  <2>1. TypeOK'
    BY <1>5 DEF vars, IInv, TypeOK
  <2> QED
    BY <1>5, <2>1, HooksUndisturbed, CallUndisturbed DEF IInv, vars
<1> QED
  BY <1>1, <1>2, <1>3, <1>4, <1>5 DEF Next, Terminating

\* The invariant holds in every state of the manager.
THEOREM Invariant == Spec => []IInv
  BY InitInv, NextInv, PTL DEF Spec

\* The invariant is strong enough for what executeHooks promises.
LEMMA OrderFollows == IInv => PriorityOrder
<1> SUFFICES ASSUME IInv, NEW h \in Hook, NEW k \in Hook, PriorityOf[h] > PriorityOf[k], outcome[k] # "none"
             PROVE  /\ h \notin pending
                    /\ outcome[h] # "waiting"
                    /\ fn[h] = "running" => h \in errors
  BY DEF PriorityOrder
<1>1. h \notin pending \cup group
  BY PriorityAssumption DEF IInv, StartedAbove
<1>2. outcome[h] # "waiting"
  BY <1>1 DEF IInv, HookProgress
<1>3. ASSUME fn[h] = "running" PROVE h \in errors
  <2>1. outcome[h] # "none" /\ outcome[h] \notin Result
    BY <1>3 DEF IInv, ResultsTrue, Result
  <2>2. outcome[h] = "timeout"
    BY <1>2, <2>1 DEF IInv, TypeOK, Settled
  <2> QED
    BY <2>2 DEF IInv, ErrorsTrue, Settled, Result
<1> QED
  BY <1>1, <1>2, <1>3

\* Groups run in descending priority, each waited for, and a hook function left
\* running is on record as an error.
THEOREM OrderKept == Spec => []PriorityOrder
  BY Invariant, OrderFollows, PTL

\* The errors of the call that is over are those of its hooks.
LEMMA SkippingFollows == IInv => NothingSkippedSilently
  BY DEF IInv, TypeOK, CallProgress, SnapshotFirst, HookProgress, ErrorsTrue, NothingSkippedSilently

\* A completed shutdown accounts for every hook of its snapshot.
THEOREM NothingSkipped == Spec => []NothingSkippedSilently
  BY SkippingFollows, Invariant, PTL

\* No caller of Shutdown is let go before it is complete.
THEOREM NoEarlyReturn == Spec => []ReturnMeansComplete
<1>1. IInv => ReturnMeansComplete
  BY SkippingFollows DEF IInv, CallProgress, ReturnMeansComplete
<1> QED
  BY <1>1, Invariant, PTL

-----------------------------------------------------------------------------
(* The drainer, and the hook that waits for it *)

Counted == {o \in Op : opPc[o] \in {"addWg", "serving"}}
Entered == {o \in Op : opPc[o] \in {"serving", "done"}}

DrainType ==
    /\ draining \in BOOLEAN
    /\ opPc \in [Op -> {"idle", "add", "addWg", "serving", "done"}]
    /\ waiter \in {"idle", "waiting", "drained", "timeout"}
    /\ zeroSeen \in BOOLEAN

Counts == count = Cardinality(Counted) /\ wg = Cardinality(Entered)

\* The wait group holds the requests that were being served, so Wait saw zero only
\* when they were gone; later ones were let in before the channel was closed.
DrainedMeansServed ==
    /\ before \subseteq Entered
    /\ zeroSeen => waiter # "idle" /\ before = {}
    /\ waiter = "drained" => zeroSeen

\* The function of the hook returns well only if the drain was complete.
HookWaits == fn[DrainHook] = "ok" => waiter = "drained"

DrainInv == DrainType /\ Counts /\ DrainedMeansServed /\ HookWaits

\* Counting requests in a set.
LEMMA CountChange ==
  /\ \A S \in SUBSET Op : IsFiniteSet(S) /\ Cardinality(S) \in 0..Cardinality(Op)
  /\ \A S \in SUBSET Op : Cardinality(S) = 0 <=> S = {}
  /\ \A S \in SUBSET Op, o \in Op :
        /\ o \notin S => Cardinality(S \cup {o}) = Cardinality(S) + 1
        /\ o \in S => Cardinality(S \ {o}) = Cardinality(S) - 1
<1> USE DrainHookAssumption
<1>1. ASSUME NEW S \in SUBSET Op PROVE IsFiniteSet(S) /\ Cardinality(S) \in 0..Cardinality(Op)
  <2>1. IsFiniteSet(S) /\ Cardinality(S) <= Cardinality(Op)
    BY FS_Subset
  <2>2. Cardinality(S) \in Nat /\ Cardinality(Op) \in Nat
    BY <2>1, FS_CardinalityType
  <2> QED
    BY <2>1, <2>2
<1>2. ASSUME NEW S \in SUBSET Op PROVE Cardinality(S) = 0 <=> S = {}
  BY <1>1, FS_EmptySet
<1>3. ASSUME NEW S \in SUBSET Op, NEW o \in Op
      PROVE  /\ o \notin S => Cardinality(S \cup {o}) = Cardinality(S) + 1
             /\ o \in S => Cardinality(S \ {o}) = Cardinality(S) - 1
  BY <1>1, FS_AddElement, FS_RemoveElement
<1> QED
  BY <1>1, <1>2, <1>3

\* The drainer counts as the manager does.
LEMMA SameCardinality == \A S : D!Cardinality(S) = Cardinality(S)
  BY DEF D!Cardinality, Cardinality, D!IsFiniteSet, IsFiniteSet

\* No request is there at the start and the hook has not run.
LEMMA DrainInit == GracefulInit => DrainInv
<1> SUFFICES ASSUME GracefulInit PROVE DrainInv
  OBVIOUS
<1>1. Counted = {} /\ Entered = {}
  BY DEF GracefulInit, D!Init, Counted, Entered
<1>2. Counts
  BY <1>1, FS_EmptySet DEF GracefulInit, D!Init, Counts
<1> QED
  BY <1>2, DrainHookAssumption DEF GracefulInit, Init, D!Init, DrainInv, DrainType, DrainedMeansServed, HookWaits

\* What a request does to the counter and the wait group follows it.
LEMMA RequestCounts == ASSUME DrainInv, NEW o \in Op, D!RequestStep(o) PROVE DrainType' /\ Counts'
<1>1. DrainType'
  BY DEF D!RequestStep, D!ServeOn, D!AddCheck, D!Admit, D!AddCount, D!AddWg, D!DoneCount, D!DoneWg, D!GoTo,
         DrainInv, DrainType
<1>2. Counted \in SUBSET Op /\ Entered \in SUBSET Op
  BY DEF Counted, Entered
<1>3. CASE D!AddCheck(o)
  <2>1. Counted' = Counted /\ Entered' = Entered
    BY <1>3 DEF D!AddCheck, D!Admit, D!GoTo, DrainInv, DrainType, Counted, Entered
  <2> QED
    BY <1>1, <1>3, <2>1 DEF D!AddCheck, DrainInv, Counts
<1>4. CASE D!AddCount(o)
  <2>1. o \notin Counted /\ Counted' = Counted \cup {o} /\ Entered' = Entered
    BY <1>4 DEF D!AddCount, D!GoTo, DrainInv, DrainType, Counted, Entered
  <2> QED
    BY <1>1, <1>2, <1>4, <2>1, CountChange DEF D!AddCount, DrainInv, Counts
<1>5. CASE D!AddWg(o)
  <2>1. o \notin Entered /\ Counted' = Counted /\ Entered' = Entered \cup {o}
    BY <1>5 DEF D!AddWg, D!GoTo, DrainInv, DrainType, Counted, Entered
  <2> QED
    BY <1>1, <1>2, <1>5, <2>1, CountChange DEF D!AddWg, D!WgAdded, DrainInv, Counts
<1>6. CASE D!DoneCount(o)
  <2>1. o \in Counted /\ Counted' = Counted \ {o} /\ Entered' = Entered
    BY <1>6 DEF D!DoneCount, D!GoTo, DrainInv, DrainType, Counted, Entered
  <2> QED
    BY <1>1, <1>2, <1>6, <2>1, CountChange DEF D!DoneCount, D!CountedDown, DrainInv, Counts
<1>7. CASE D!DoneWg(o)
  <2>1. o \in Entered /\ Counted' = Counted /\ Entered' = Entered \ {o}
    BY <1>7 DEF D!DoneWg, D!GoTo, DrainInv, DrainType, Counted, Entered
  <2> QED
    BY <1>1, <1>2, <1>7, <2>1, CountChange DEF D!DoneWg, DrainInv, Counts
<1> QED
  BY <1>1, <1>3, <1>4, <1>5, <1>6, <1>7 DEF D!RequestStep, D!ServeOn

\* A request that comes or goes leaves what the waiter knows true.
LEMMA RequestKeeps == ASSUME DrainInv, NEW o \in Op, ServeStep(o) PROVE DrainInv'
<1>1. DrainType' /\ Counts'
  BY RequestCounts DEF ServeStep
<1>2. /\ UNCHANGED <<waiter, zeroSeen, fn>>
      /\ \/ before' = before /\ Entered \subseteq Entered'
         \/ before' = before \ {o} /\ Entered \ {o} \subseteq Entered'
  BY DEF ServeStep, vars, D!RequestStep, D!ServeOn, D!AddCheck, D!AddCount, D!AddWg, D!DoneCount, D!DoneWg,
         D!GoTo, DrainInv, DrainType, Entered
<1>3. DrainedMeansServed'
  BY <1>2 DEF DrainInv, DrainedMeansServed
<1>4. HookWaits'
  BY <1>2 DEF DrainInv, HookWaits
<1> QED
  BY <1>1, <1>3, <1>4 DEF DrainInv

\* The hook starts the drain, waits, and returns.
LEMMA WaiterKeeps ==
  ASSUME TypeOK, DrainInv, HookStartsDrain \/ HookDrained \/ HookDrainTimesOut \/ WaitStep
  PROVE  DrainInv'
<1>1. UNCHANGED <<count, wg, opPc>>
  BY DEF HookStartsDrain, HookDrained, HookDrainTimesOut, WaitStep, D!StartDrain, D!WaitReturns,
         D!WaitTimesOut, D!WgWaitReturns
<1>2. Counted' = Counted /\ Entered' = Entered
  BY <1>1 DEF Counted, Entered
<1>3. Counts'
  BY <1>1, <1>2 DEF DrainInv, Counts
<1>4. CASE HookStartsDrain
  BY <1>2, <1>3, <1>4 DEF HookStartsDrain, vars, D!StartDrain, DrainInv, DrainType, DrainedMeansServed,
     HookWaits, Entered
<1>5. CASE HookDrained \/ HookDrainTimesOut
  <2>1. \/ fn' = [fn EXCEPT ![DrainHook] = "ok"] /\ waiter' = "drained" /\ zeroSeen
        \/ fn' = [fn EXCEPT ![DrainHook] = "error"] /\ waiter' = "timeout"
    BY <1>5 DEF HookDrained, HookDrainTimesOut, HookReturns, D!WaitReturns, D!WaitTimesOut, D!DrainComplete
  <2>2. UNCHANGED <<draining, opPc, zeroSeen, before>>
    BY <1>5 DEF HookDrained, HookDrainTimesOut, D!WaitReturns, D!WaitTimesOut
  <2>3. DrainType' /\ DrainedMeansServed'
    BY <1>2, <2>1, <2>2 DEF DrainInv, DrainType, DrainedMeansServed
  <2>4. HookWaits'
    BY <2>1, DrainHookAssumption DEF TypeOK, HookWaits
  <2> QED
    BY <1>3, <2>3, <2>4 DEF DrainInv
<1>6. CASE WaitStep
  <2>1. Entered = {}
    BY <1>6, CountChange DEF WaitStep, D!WgWaitReturns, DrainInv, Counts, Entered
  <2> QED
    BY <1>2, <1>3, <1>6, <2>1 DEF WaitStep, vars, D!WgWaitReturns, DrainInv, DrainType, DrainedMeansServed,
       HookWaits
<1> QED
  BY <1>4, <1>5, <1>6

\* The manager leaves the function of the hook to the drainer.
LEMMA ManagerSideKeeps == ASSUME IInv, DrainInv, ManagerSide PROVE DrainInv'
<1>1. UNCHANGED <<draining, count, wg, opPc, waiter, zeroSeen, before>>
  BY DEF ManagerSide, drainVars
<1>2. Counted' = Counted /\ Entered' = Entered
  BY <1>1 DEF Counted, Entered
<1>3. DrainType' /\ Counts' /\ DrainedMeansServed'
  BY <1>1, <1>2 DEF DrainInv, DrainType, Counts, DrainedMeansServed
<1>4. fn'[DrainHook] = fn[DrainHook] \/ fn'[DrainHook] = "running"
  <2> USE DrainHookAssumption
  <2>1. CASE StartGroup
    BY <2>1 DEF StartGroup, StartHooks
  <2>2. ASSUME NEW h \in Hook, NEW r \in Result, HookReturns(h, r)
        PROVE  fn'[DrainHook] = fn[DrainHook] \/ fn'[DrainHook] = "running"
    BY <2>2 DEF ManagerSide, HookReturns, IInv, TypeOK
  <2> QED
    BY <2>1, <2>2 DEF ManagerSide, Next, ManagerStep, TakeHooks, GroupDone, AllGroupsDone, SetShutdown,
       CloseDone, OverallDeadline, CallerStep, Shutdown, Unblock, HookStep, Register, TakeResult,
       HookTimesOut, PerHookDeadline, Terminating, vars
<1>5. HookWaits'
  BY <1>1, <1>4 DEF DrainInv, HookWaits
<1> QED
  BY <1>3, <1>5 DEF DrainInv

\* To the manager every step of the whole is one of its own, or none.
LEMMA ManagerSees == GracefulNext => [Next]_vars
<1>1. HookDrained \/ HookDrainTimesOut => Next
  BY DrainHookAssumption DEF HookDrained, HookDrainTimesOut, Next, Result
<1> QED
  BY <1>1 DEF GracefulNext, ManagerSide, HookStartsDrain, WaitStep, ServeStep

\* With the drainer as one of its hooks the manager is still the manager.
THEOREM ManagerImplemented == GracefulSpec => Spec
<1>1. GracefulInit => Init
  BY DEF GracefulInit
<1>2. [GracefulNext]_gracefulVars => [Next]_vars
  BY ManagerSees DEF gracefulVars
<1> QED
  BY <1>1, <1>2, PTL DEF GracefulSpec, Spec

\* Manager and drainer, joined by the hook, keep their invariants.
THEOREM GracefulInvariant == GracefulSpec => [](IInv /\ DrainInv)
<1>1. GracefulInit => IInv /\ DrainInv
  BY InitInv, DrainInit DEF GracefulInit
<1>2. IInv /\ DrainInv /\ [GracefulNext]_gracefulVars => (IInv /\ DrainInv)'
  <2> SUFFICES ASSUME IInv, DrainInv, [GracefulNext]_gracefulVars PROVE DrainInv' /\ IInv'
    OBVIOUS
  <2>1. IInv'
    BY NextInv, ManagerSees DEF gracefulVars
  <2>2. ASSUME UNCHANGED gracefulVars PROVE DrainInv'
    BY <2>2 DEF gracefulVars, vars, drainVars, DrainInv, DrainType, Counts, Counted, Entered,
       DrainedMeansServed, HookWaits
  <2>3. ASSUME NEW o \in Op, ServeStep(o) PROVE DrainInv'
    BY <2>3, RequestKeeps
  <2> QED
    BY <2>1, <2>2, <2>3, ManagerSideKeeps, WaiterKeeps DEF GracefulNext, IInv
<1> QED
  BY <1>1, <1>2, PTL DEF GracefulSpec

\* A hook that requests depend on starts only when those that were being served
\* are gone, or the drainer's hook is on record as failed.
THEOREM DependenciesSafe == GracefulSpec => []DependenciesOutliveRequests
<1>1. ASSUME IInv, DrainInv PROVE DependenciesOutliveRequests
  <2>1. D!CountsRequests
    <3>1. Counted \in SUBSET Op /\ Entered \in SUBSET Op
      BY DEF Counted, Entered
    <3>2. count \in 0..Cardinality(Op) /\ wg \in 0..Cardinality(Op)
      BY <1>1, <3>1, CountChange DEF DrainInv, Counts
    <3>3. D!TypeOK
      BY <1>1, <3>1, <3>2, SameCardinality DEF DrainInv, DrainType, DrainedMeansServed, D!TypeOK
    <3> QED
      BY <1>1, <3>3, SameCardinality DEF DrainInv, Counts, Counted, Entered, D!CountsRequests
  <2>2. ASSUME NEW h \in Hook, PriorityOf[h] < PriorityOf[DrainHook], outcome[h] # "none",
               outcome[DrainHook] # "none", DrainHook \notin errors
        PROVE  before = {}
    <3>1. outcome[DrainHook] # "waiting"
      BY <2>2, OrderFollows, <1>1, PriorityAssumption, DrainHookAssumption DEF PriorityOrder
    <3>2. outcome[DrainHook] = "ok"
      BY <1>1, <2>2, <3>1, DrainHookAssumption DEF IInv, TypeOK, ErrorsTrue, Settled
    <3>3. fn[DrainHook] = "ok"
      BY <1>1, <3>2, DrainHookAssumption DEF IInv, ResultsTrue, Result
    <3> QED
      BY <1>1, <3>3 DEF DrainInv, HookWaits, DrainedMeansServed
  <2> QED
    BY <1>1, <2>1, <2>2, OrderFollows DEF DependenciesOutliveRequests
<1> QED
  BY <1>1, GracefulInvariant, PTL

\* What Shutdown promises its callers holds with the drainer among the hooks.
THEOREM GracefulReturns == GracefulSpec => []ReturnMeansComplete
  BY ManagerImplemented, NoEarlyReturn, PTL
=============================================================================
