------------------------------ MODULE EventBus ------------------------------
(***************************************************************************)
(* internal/event/bus/event_bus.go and internal/event/dispatcher: the bus  *)
(* with its bounded asynchronous buffer and worker pool, and the           *)
(* dispatcher that stores an event before it publishes it.                 *)
(*                                                                         *)
(* A thread is a goroutine that dispatches events or a worker of the pool. *)
(* Both run Publish: a snapshot of the subscribers, then one subscriber    *)
(* after the other, whatever the one before returned.                      *)
(***************************************************************************)
EXTENDS Integers, Sequences, SequencesExt

CONSTANTS
    Event, EventType,
    TypeOf,             \* [Event -> EventType]
    Subscriber,
    Publisher, Worker, Closer,
    AsyncBufferSize,
    MaxSubscriptions,   \* bound on the subscriptions of one event type
    NoEvent

ASSUME BusAssumption ==
    /\ TypeOf \in [Event -> EventType]
    /\ AsyncBufferSize \in Nat \ {0}
    /\ MaxSubscriptions \in Nat
    /\ NoEvent \notin Event
    /\ Publisher \cap Worker = {}

Thread == Publisher \cup Worker
Outcome == {"ok", "error", "panic"}   \* of Subscriber.Handle

VARIABLES
    subscribers,   \* [EventType -> Seq(Subscriber)]
    asyncBuffer,   \* events in the channel
    closed,        \* eb.closed
    chanClosed,    \* asyncBuffer is closed
    closer,        \* each caller of Close: "idle", "marked", "waiting", "returned"
    pc,            \* each thread
    job,           \* the event a thread is dispatching or publishing
    todo,          \* subscribers of its snapshot still to be called
    stored,        \* events in the repository
    panicked,      \* a send on, or a close of, a closed channel
    dispatched,    \* history: events handed to the dispatcher
    accepted,      \* history: events PublishAsync put into the buffer
    snapshot,      \* history: [Event -> the subscribers its Publish found]
    handled        \* history: [Event -> the subscribers called with it]

busVars == <<subscribers, asyncBuffer, closed, chanClosed, closer, panicked>>
history == <<dispatched, accepted, snapshot, handled>>
vars == <<busVars, pc, job, todo, stored, history>>

Label == {"idle", "save", "saveAsync", "publish", "publishAsync", "send", "handle",
          "receive", "exited"}

TypeOK ==
    /\ subscribers \in [EventType -> BoundedSeq(Subscriber, MaxSubscriptions)]
    /\ asyncBuffer \in BoundedSeq(Event, AsyncBufferSize)
    /\ closed \in BOOLEAN /\ chanClosed \in BOOLEAN /\ panicked \in BOOLEAN
    /\ closer \in [Closer -> {"idle", "marked", "waiting", "returned"}]
    /\ pc \in [Thread -> Label]
    /\ job \in [Thread -> Event \cup {NoEvent}]
    /\ todo \in [Thread -> BoundedSeq(Subscriber, MaxSubscriptions)]
    /\ stored \subseteq Event
    /\ dispatched \subseteq Event
    /\ accepted \subseteq dispatched

Init ==
    /\ subscribers = [t \in EventType |-> <<>>]
    /\ asyncBuffer = <<>>
    /\ closed = FALSE /\ chanClosed = FALSE /\ panicked = FALSE
    /\ closer = [c \in Closer |-> "idle"]
    /\ pc = [th \in Thread |-> IF th \in Worker THEN "receive" ELSE "idle"]
    /\ job = [th \in Thread |-> NoEvent]
    /\ todo = [th \in Thread |-> <<>>]
    /\ stored = {} /\ dispatched = {} /\ accepted = {}
    /\ snapshot = [e \in Event |-> <<>>]
    /\ handled = [e \in Event |-> <<>>]

GoTo(th, label) == pc' = [pc EXCEPT ![th] = label]

\* Where a thread is at rest between two events.
Rest(th) == IF th \in Worker THEN "receive" ELSE "idle"

-----------------------------------------------------------------------------
\* Subscriptions

Subscribe(t, s) ==
    /\ Len(subscribers[t]) < MaxSubscriptions
    /\ subscribers' = [subscribers EXCEPT ![t] = Append(@, s)]
    /\ UNCHANGED <<asyncBuffer, closed, chanClosed, closer, panicked, pc, job, todo, stored, history>>

\* The loop compares the address of its own variable with the address of the
\* parameter, which never agree: no subscription is ever removed.
Unsubscribe(t, s) == UNCHANGED vars

-----------------------------------------------------------------------------
\* Dispatcher

Dispatch(th, e) ==
    /\ pc[th] = "idle"
    /\ e \notin dispatched
    /\ dispatched' = dispatched \cup {e}
    /\ job' = [job EXCEPT ![th] = e]
    /\ GoTo(th, "save")
    /\ UNCHANGED <<busVars, todo, stored, accepted, snapshot, handled>>

DispatchAsync(th, e) ==
    /\ pc[th] = "idle"
    /\ e \notin dispatched
    /\ dispatched' = dispatched \cup {e}
    /\ job' = [job EXCEPT ![th] = e]
    /\ GoTo(th, "saveAsync")
    /\ UNCHANGED <<busVars, todo, stored, accepted, snapshot, handled>>

AfterSave(th) == IF pc[th] = "save" THEN "publish" ELSE "publishAsync"

\* Wrong on purpose: a failed save is logged and the event published all the same.
AfterFailedSaveGoOn(th) == AfterSave(th)

AfterFailedSave(th) == "idle"

\* repository.SaveEvent fails: the event goes no further.
SaveFails(th) ==
    /\ pc[th] \in {"save", "saveAsync"}
    /\ GoTo(th, AfterFailedSave(th))
    /\ UNCHANGED <<busVars, job, todo, stored, history>>

SaveEvent(th) ==
    /\ pc[th] \in {"save", "saveAsync"}
    /\ stored' = stored \cup {job[th]}
    /\ GoTo(th, AfterSave(th))
    /\ UNCHANGED <<busVars, job, todo, history>>

-----------------------------------------------------------------------------
\* Publish, by a dispatching goroutine or a worker

\* The copy of the subscriber list under mu.
PublishSnapshot(th) ==
    /\ pc[th] = "publish"
    /\ LET subs == subscribers[TypeOf[job[th]]] IN
       /\ todo' = [todo EXCEPT ![th] = subs]
       /\ snapshot' = [snapshot EXCEPT ![job[th]] = subs]
    /\ GoTo(th, "handle")
    /\ UNCHANGED <<busVars, job, stored, dispatched, accepted, handled>>

\* Wrong on purpose: an error ends the round.
GoOnUntilError(subs, outcome) == IF outcome = "ok" THEN Tail(subs) ELSE <<>>

\* Wrong on purpose: a subscriber that failed is called again.
GoOnAgain(subs, outcome) == IF outcome = "error" THEN subs ELSE Tail(subs)

GoOn(subs, outcome) == Tail(subs)

\* publishToSubscriber: errors and panics of a subscriber are logged, and the next
\* subscriber is called.
Handle(th, outcome) ==
    /\ pc[th] = "handle"
    /\ todo[th] # <<>>
    /\ handled' = [handled EXCEPT ![job[th]] = Append(@, Head(todo[th]))]
    /\ todo' = [todo EXCEPT ![th] = GoOn(@, outcome)]
    /\ UNCHANGED <<busVars, pc, job, stored, dispatched, accepted, snapshot>>

PublishReturns(th) ==
    /\ pc[th] = "handle"
    /\ todo[th] = <<>>
    /\ GoTo(th, Rest(th))
    /\ job' = [job EXCEPT ![th] = NoEvent]
    /\ UNCHANGED <<busVars, todo, stored, history>>

-----------------------------------------------------------------------------
\* PublishAsync: the read lock of closeMu is held from the check to the send, that
\* is at label "send".

PublishAsyncCheck(th) ==
    /\ pc[th] = "publishAsync"
    /\ IF closed
       THEN GoTo(th, "idle") /\ job' = [job EXCEPT ![th] = NoEvent]
       ELSE GoTo(th, "send") /\ UNCHANGED job
    /\ UNCHANGED <<busVars, todo, stored, history>>

\* Wrong on purpose: the buffer grows without bound.
RoomAlways == TRUE

Room == Len(asyncBuffer) < AsyncBufferSize

PublishAsyncSend(th) ==
    /\ pc[th] = "send"
    /\ IF chanClosed
       THEN panicked' = TRUE /\ UNCHANGED <<asyncBuffer, accepted>>
       ELSE /\ UNCHANGED panicked
            /\ IF Room
               THEN /\ asyncBuffer' = Append(asyncBuffer, job[th])
                    /\ accepted' = accepted \cup {job[th]}
               ELSE UNCHANGED <<asyncBuffer, accepted>>   \* full: dropped
    /\ GoTo(th, "idle")
    /\ job' = [job EXCEPT ![th] = NoEvent]
    /\ UNCHANGED <<subscribers, closed, chanClosed, closer, todo, stored, dispatched, snapshot,
                   handled>>

-----------------------------------------------------------------------------
\* Workers: for ae := range asyncBuffer

\* Wrong on purpose: a worker leaves as soon as the bus is closed.
RangeEndsEarly == closed

\* range ends when the channel is closed and empty.
RangeEnds == chanClosed /\ asyncBuffer = <<>>

WorkerReceive(th) ==
    /\ pc[th] = "receive"
    /\ \/ /\ asyncBuffer # <<>>
          /\ job' = [job EXCEPT ![th] = Head(asyncBuffer)]
          /\ asyncBuffer' = Tail(asyncBuffer)
          /\ GoTo(th, "publish")
       \/ /\ RangeEnds
          /\ GoTo(th, "exited")
          /\ UNCHANGED <<asyncBuffer, job>>
    /\ UNCHANGED <<subscribers, closed, chanClosed, closer, panicked, todo, stored, history>>

-----------------------------------------------------------------------------
\* Close

\* Wrong on purpose: closed is set without taking closeMu.
WriteLockIgnored == TRUE

\* closeMu can be locked: no publisher is between its check and its send.
WriteLockFree == \A th \in Publisher : pc[th] # "send"

CloseMark(c) ==
    /\ closer[c] = "idle"
    /\ WriteLockFree
    /\ closed' = TRUE
    /\ closer' = [closer EXCEPT ![c] = "marked"]
    /\ UNCHANGED <<subscribers, asyncBuffer, chanClosed, panicked, pc, job, todo, stored, history>>

\* close(asyncBuffer) comes after the unlock.
CloseChannel(c) ==
    /\ closer[c] = "marked"
    /\ IF chanClosed
       THEN panicked' = TRUE /\ UNCHANGED chanClosed
       ELSE chanClosed' = TRUE /\ UNCHANGED panicked
    /\ closer' = [closer EXCEPT ![c] = "waiting"]
    /\ UNCHANGED <<subscribers, asyncBuffer, closed, pc, job, todo, stored, history>>

\* wg.Wait
CloseReturns(c) ==
    /\ closer[c] = "waiting"
    /\ \A w \in Worker : pc[w] = "exited"
    /\ closer' = [closer EXCEPT ![c] = "returned"]
    /\ UNCHANGED <<subscribers, asyncBuffer, closed, chanClosed, panicked, pc, job, todo, stored,
                   history>>

-----------------------------------------------------------------------------
ThreadStep(th) ==
    \/ SaveEvent(th) \/ SaveFails(th)
    \/ PublishSnapshot(th) \/ PublishReturns(th)
    \/ \E outcome \in Outcome : Handle(th, outcome)
    \/ PublishAsyncCheck(th) \/ PublishAsyncSend(th)

CloseStep(c) == CloseMark(c) \/ CloseChannel(c) \/ CloseReturns(c)

Terminating ==
    /\ dispatched = Event
    /\ \A c \in Closer : closer[c] = "returned"
    /\ \A th \in Thread : pc[th] \in {"idle", "exited"}
    /\ UNCHANGED vars

Next ==
    \/ \E t \in EventType, s \in Subscriber : Subscribe(t, s) \/ Unsubscribe(t, s)
    \/ \E th \in Publisher, e \in Event : Dispatch(th, e) \/ DispatchAsync(th, e)
    \/ \E th \in Thread : ThreadStep(th)
    \/ \E w \in Worker : WorkerReceive(w)
    \/ \E c \in Closer : CloseStep(c)
    \/ Terminating

Spec == Init /\ [][Next]_vars

\* Goroutines run and subscribers return.
Fairness ==
    /\ \A th \in Thread : WF_vars(ThreadStep(th))
    /\ \A w \in Worker : WF_vars(WorkerReceive(w))
    /\ \A c \in Closer : WF_vars(CloseChannel(c) \/ CloseReturns(c))

FairSpec == Spec /\ Fairness

-----------------------------------------------------------------------------
(* Properties *)

\* PublishAsync never sends on the closed buffer and Close closes it once: closeMu
\* keeps a publisher that passed the check ahead of close(asyncBuffer).
NeverPanics == ~panicked

\* The subscribers called with an event are those its snapshot found, in their
\* order, none of them twice: failures of one do not disturb the others, and an
\* event is not published twice.
InOrderOnce == \A e \in Event : IsPrefix(handled[e], snapshot[e])

\* No subscriber sees an event that is not in the store: Dispatch and DispatchAsync
\* persist first, and give up if that fails.
StoredBeforeHandled == \A e \in Event : handled[e] # <<>> => e \in stored

\* Publish calls the subscribers of an event in order and once, failures included, and
\* only for an event that Dispatch or DispatchAsync has stored.
HandledRightly == TypeOK /\ InOrderOnce /\ StoredBeforeHandled

\* Close drains: when it has returned, every event that PublishAsync accepted has
\* been handled by all subscribers of its snapshot, however late it was accepted.
CloseDrains ==
    (\E c \in Closer : closer[c] = "returned")
        => /\ asyncBuffer = <<>>
           /\ \A e \in accepted : handled[e] = snapshot[e]
           /\ \A w \in Worker : pc[w] = "exited"

\* Close and PublishAsync meet in any order: no send on the closed buffer, and nothing
\* accepted is left behind when Close returns.
ClosesCleanly == NeverPanics /\ CloseDrains

\* Every event that got into the buffer is eventually published to the end, and a
\* Close that has begun returns.
AcceptedIsDelivered ==
    /\ \A e \in Event :
          e \in accepted ~> /\ \A th \in Thread : job[th] # e
                            /\ e \notin Range(asyncBuffer)
                            /\ handled[e] = snapshot[e]
    /\ \A c \in Closer : closer[c] = "marked" ~> closer[c] = "returned"
=============================================================================
