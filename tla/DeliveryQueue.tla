--------------------------- MODULE DeliveryQueue ---------------------------
(***************************************************************************)
(* internal/webhook/queue/delivery_queue.go with the sending loop of       *)
(* pkg/integration/webhook/client.go: producers enqueue items, workers     *)
(* send them, Stop cancels the context, closes the channel and waits.      *)
(*                                                                         *)
(* Repository calls ignore the context, as MemoryRepository does.  Stop    *)
(* follows Start.                                                          *)
(***************************************************************************)
EXTENDS Integers, Sequences, FiniteSets

CONSTANTS
    Item, Producer, Worker, Stopper,
    QueueSize, MaxConcurrent, MaxAttempts,
    NoItem

ASSUME QueueAssumption ==
    /\ QueueSize \in Nat \ {0} /\ MaxConcurrent \in Nat \ {0} /\ MaxAttempts \in Nat \ {0}
    /\ NoItem \notin Item

VARIABLES
    started,      \* q.ctx is set and the workers run
    stopped,      \* q.stopped
    cancelled,    \* q.ctx is cancelled
    queue,        \* items in the channel
    queueClosed,
    producer,     \* each producer: "idle", or "checked" with its item
    offer,        \* the item a producer is enqueuing
    stopper,      \* each caller of Stop: "idle", "cancel", "close", "wait", "returned"
    pc,           \* each worker: "off", "receive", "acquire", "attempt", "backoff", "save", "settle", "exited"
    item,         \* the item a worker is processing
    result,       \* its DeliveryResult so far
    record,       \* saved deliveries: [Item -> "none", "success", "failed", "retry"]
    failureCount, \* of the webhook all items go to
    panicked,     \* a send on the closed channel
    offered,      \* history: items Enqueue was called with
    accepted,     \* history: items Enqueue returned true for
    sends         \* history: HTTP requests made for each item

queueVars == <<started, stopped, cancelled, queueClosed, stopper>>
history == <<offered, accepted, sends>>
vars == <<queueVars, queue, producer, offer, pc, item, result, record, failureCount, panicked,
          history>>

Result == [attempts : 0..MaxAttempts, success : BOOLEAN]

TypeOK ==
    /\ started \in BOOLEAN /\ stopped \in BOOLEAN /\ cancelled \in BOOLEAN
    /\ queueClosed \in BOOLEAN /\ panicked \in BOOLEAN
    /\ queue \in Seq(Item) /\ Len(queue) <= QueueSize
    /\ producer \in [Producer -> {"idle", "checked"}]
    /\ offer \in [Producer -> Item \cup {NoItem}]
    /\ stopper \in [Stopper -> {"idle", "cancel", "close", "wait", "returned"}]
    /\ pc \in [Worker -> {"off", "receive", "acquire", "attempt", "backoff", "save", "settle",
                          "exited"}]
    /\ item \in [Worker -> Item \cup {NoItem}]
    /\ result \in [Worker -> Result]
    /\ record \in [Item -> {"none", "success", "failed", "retry"}]
    /\ failureCount \in 0..Cardinality(Item)
    /\ offered \subseteq Item /\ accepted \subseteq offered
    /\ sends \in [Item -> 0..MaxAttempts]

NoResult == [attempts |-> 0, success |-> FALSE]

Init ==
    /\ started = FALSE /\ stopped = FALSE /\ cancelled = FALSE /\ queueClosed = FALSE
    /\ panicked = FALSE
    /\ queue = <<>>
    /\ producer = [p \in Producer |-> "idle"]
    /\ offer = [p \in Producer |-> NoItem]
    /\ stopper = [s \in Stopper |-> "idle"]
    /\ pc = [w \in Worker |-> "off"]
    /\ item = [w \in Worker |-> NoItem]
    /\ result = [w \in Worker |-> NoResult]
    /\ record = [i \in Item |-> "none"]
    /\ failureCount = 0
    /\ offered = {} /\ accepted = {}
    /\ sends = [i \in Item |-> 0]

-----------------------------------------------------------------------------
Start ==
    /\ ~started
    /\ started' = TRUE
    /\ stopped' = FALSE
    /\ pc' = [w \in Worker |-> "receive"]
    /\ UNCHANGED <<cancelled, queueClosed, stopper, queue, producer, offer, item, result, record,
                   failureCount, panicked, history>>

\* Enqueue: q.stopped is read under the read lock, which is released before the send.
EnqueueCheck(p, i) ==
    /\ producer[p] = "idle"
    /\ i \notin offered
    /\ offered' = offered \cup {i}
    /\ IF stopped
       THEN UNCHANGED <<producer, offer>>
       ELSE /\ producer' = [producer EXCEPT ![p] = "checked"]
            /\ offer' = [offer EXCEPT ![p] = i]
    /\ UNCHANGED <<queueVars, queue, pc, item, result, record, failureCount, panicked, accepted,
                   sends>>

\* Wrong on purpose: the channel takes one more than its capacity.
RoomForOneMore == Len(queue) <= QueueSize

Room == Len(queue) < QueueSize

EnqueueSend(p) ==
    /\ producer[p] = "checked"
    /\ producer' = [producer EXCEPT ![p] = "idle"]
    /\ offer' = [offer EXCEPT ![p] = NoItem]
    /\ IF queueClosed
       THEN panicked' = TRUE /\ UNCHANGED <<queue, accepted>>
       ELSE /\ UNCHANGED panicked
            /\ IF Room
               THEN queue' = Append(queue, offer[p]) /\ accepted' = accepted \cup {offer[p]}
               ELSE UNCHANGED <<queue, accepted>>   \* full: dropped, false is returned
    /\ UNCHANGED <<queueVars, pc, item, result, record, failureCount, offered, sends>>

-----------------------------------------------------------------------------
\* Stop

StopMark(s) ==
    /\ stopper[s] = "idle"
    /\ started
    /\ stopper' = [stopper EXCEPT ![s] = IF stopped THEN "returned" ELSE "cancel"]
    /\ stopped' = TRUE
    /\ UNCHANGED <<started, cancelled, queueClosed, queue, producer, offer, pc, item, result,
                   record, failureCount, panicked, history>>

StopCancel(s) ==
    /\ stopper[s] = "cancel"
    /\ cancelled' = TRUE
    /\ stopper' = [stopper EXCEPT ![s] = "close"]
    /\ UNCHANGED <<started, stopped, queueClosed, queue, producer, offer, pc, item, result, record,
                   failureCount, panicked, history>>

StopClose(s) ==
    /\ stopper[s] = "close"
    /\ queueClosed' = TRUE
    /\ stopper' = [stopper EXCEPT ![s] = "wait"]
    /\ UNCHANGED <<started, stopped, cancelled, queue, producer, offer, pc, item, result, record,
                   failureCount, panicked, history>>

StopReturns(s) ==
    /\ stopper[s] = "wait"
    /\ \A w \in Worker : pc[w] = "exited"
    /\ stopper' = [stopper EXCEPT ![s] = "returned"]
    /\ UNCHANGED <<started, stopped, cancelled, queueClosed, queue, producer, offer, pc, item,
                   result, record, failureCount, panicked, history>>

-----------------------------------------------------------------------------
\* Workers

WorkerStep(w, label) ==
    /\ pc' = [pc EXCEPT ![w] = label]
    /\ UNCHANGED <<queueVars, producer, offer, panicked, offered, accepted>>

\* Wrong on purpose: the worker leaves as soon as the context is cancelled.
RangeEndsEarly == cancelled

\* range ends when the channel is closed and empty.
RangeEnds == queueClosed /\ queue = <<>>

\* Wrong on purpose: a receive that does not notice the closed channel goes on for ever.
AfterLastSpins == "receive"

AfterLast == "exited"

Receive(w) ==
    /\ pc[w] = "receive"
    /\ \/ /\ queue # <<>>
          /\ queue' = Tail(queue)
          /\ item' = [item EXCEPT ![w] = Head(queue)]
          /\ result' = [result EXCEPT ![w] = NoResult]
          /\ WorkerStep(w, "acquire")
       \/ /\ RangeEnds
          /\ WorkerStep(w, AfterLast)
          /\ UNCHANGED <<queue, item, result>>
    /\ UNCHANGED <<record, failureCount, sends>>

Sending == {w \in Worker : pc[w] \in {"attempt", "backoff"}}

\* Send: the semaphore.
Acquire(w) ==
    /\ pc[w] = "acquire"
    /\ Cardinality(Sending) < MaxConcurrent
    /\ result' = [result EXCEPT ![w].attempts = 1]
    /\ WorkerStep(w, "attempt")
    /\ UNCHANGED <<queue, item, record, failureCount, sends>>

\* Send returns a nil result; the delivery keeps zero attempts.
AcquireCancelled(w) ==
    /\ pc[w] = "acquire"
    /\ cancelled
    /\ WorkerStep(w, "save")
    /\ UNCHANGED <<queue, item, result, record, failureCount, sends>>

\* doSend: a 2xx answer, an error or status worth another attempt, or a 4xx other
\* than 429.  With a cancelled context the request is not made and fails, and so
\* does the wait before the next attempt, which has been counted by then.
Attempt(w, answer) ==
    /\ pc[w] = "attempt"
    /\ cancelled => answer = "retryable"
    /\ sends' = IF cancelled THEN sends ELSE [sends EXCEPT ![item[w]] = @ + 1]
    /\ IF answer = "retryable" /\ result[w].attempts < MaxAttempts
       THEN /\ result' = [result EXCEPT ![w].attempts = @ + 1]
            /\ WorkerStep(w, IF cancelled THEN "save" ELSE "backoff")
       ELSE /\ result' = [result EXCEPT ![w].success = (answer = "ok")]
            /\ WorkerStep(w, "save")
    /\ UNCHANGED <<queue, item, record, failureCount>>

\* time.After or ctx.Done; either if both have happened by the time of the select.
Backoff(w) ==
    /\ pc[w] = "backoff"
    /\ \/ WorkerStep(w, "attempt")
       \/ cancelled /\ WorkerStep(w, "save")
    /\ UNCHANGED <<queue, item, result, record, failureCount, sends>>

\* processItem: SaveDelivery.
Save(w) ==
    /\ pc[w] = "save"
    /\ record' = [record EXCEPT ![item[w]] = IF result[w].success THEN "success" ELSE "failed"]
    /\ WorkerStep(w, "settle")
    /\ UNCHANGED <<queue, item, result, failureCount, sends>>

\* Wrong on purpose: only a delivery that was never tried is scheduled again.
RetryLeftFirstOnly(attempts) == attempts = 0

RetryLeft(attempts) == attempts < MaxAttempts

\* ResetFailureCount, or IncrementFailureCount and UpdateDeliveryRetry.
Settle(w) ==
    /\ pc[w] = "settle"
    /\ IF result[w].success
       THEN failureCount' = 0 /\ UNCHANGED record
       ELSE /\ failureCount' = failureCount + 1
            /\ record' = [record EXCEPT ![item[w]] =
                             IF RetryLeft(result[w].attempts) THEN "retry" ELSE "failed"]
    /\ item' = [item EXCEPT ![w] = NoItem]
    /\ WorkerStep(w, "receive")
    /\ UNCHANGED <<queue, result, sends>>

Process(w) ==
    \/ Receive(w) \/ Acquire(w) \/ AcquireCancelled(w)
    \/ \E answer \in {"ok", "retryable", "clientError"} : Attempt(w, answer)
    \/ Backoff(w) \/ Save(w) \/ Settle(w)

StopStep(s) == StopCancel(s) \/ StopClose(s) \/ StopReturns(s)

Terminating ==
    /\ offered = Item
    /\ \A s \in Stopper : stopper[s] = "returned"
    /\ \A p \in Producer : producer[p] = "idle"
    /\ UNCHANGED vars

Next ==
    \/ Start
    \/ \E p \in Producer : (\E i \in Item : EnqueueCheck(p, i)) \/ EnqueueSend(p)
    \/ \E s \in Stopper : StopMark(s) \/ StopStep(s)
    \/ \E w \in Worker : Process(w)
    \/ Terminating

Spec == Init /\ [][Next]_vars

\* Goroutines run; requests and backoffs come to an end.
Fairness ==
    /\ \A w \in Worker : WF_vars(Process(w))
    /\ \A s \in Stopper : WF_vars(StopStep(s))

FairSpec == Spec /\ Fairness

-----------------------------------------------------------------------------
(* Properties *)

\* When Stop has returned to the caller that did the stopping, every item Enqueue
\* accepted has its delivery record, even those still queued when the context was
\* cancelled.
StopLeavesNoItem ==
    (\E s \in Stopper : stopper[s] = "wait") /\ (\A w \in Worker : pc[w] = "exited")
        => queue = <<>> /\ \A i \in accepted : record[i] # "none"

\* A failed delivery that is not scheduled for another round was really tried: a
\* context cancelled before the first request, which Send reports as up to two
\* attempts, does not use an item's chances up (with three attempts or more).
GivenUpWasTried ==
    \A i \in Item :
        record[i] = "failed" /\ (\A w \in Worker : item[w] # i) => sends[i] > 0

\* No item that Enqueue accepted is lost to Stop, by missing its record or by being
\* given up without a request.
NoItemLost == TypeOK /\ StopLeavesNoItem /\ GivenUpWasTried

\* Stop returns even if every request fails: the cancelled context cuts the
\* backoffs short and the closed channel ends the workers.
StopTerminates == \A s \in Stopper : stopper[s] = "cancel" ~> stopper[s] = "returned"

\* Enqueue "Returns false if the queue is full or stopped"; it never brings the
\* process down.
EnqueueNeverPanics == ~panicked
=============================================================================
