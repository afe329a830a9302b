-------------------------- MODULE WebhookDelivery --------------------------
(***************************************************************************)
(* internal/webhook/service, internal/webhook/retry and the in-memory      *)
(* webhook repository, for one webhook: deliveries made for events and     *)
(* tests, the retry loop, TriggerNow, and the owner of the webhook.  Every *)
(* repository call is a step.  Send is one step: what it does inside is in *)
(* DeliveryQueue.                                                          *)
(*                                                                         *)
(* The handler is started once and stopped at most once.                   *)
(* DeleteOldDeliveries has no caller and is left out.                      *)
(***************************************************************************)
EXTENDS Integers, FiniteSets, FiniteSetsExt

CONSTANTS
    Delivery,        \* delivery IDs; each is made by a thread of its own
    Loop, Trigger,   \* the retry loop, and the goroutines TriggerNow starts
    NoDelivery,
    MaxAttempts,     \* RetryPolicy.MaxAttempts
    MaxRetries, BatchSize, MaxFailureCount,
    MaxRounds        \* bound: how often a delivery is retried

ASSUME WebhookAssumption ==
    /\ MaxAttempts \in Nat \ {0} /\ MaxRetries \in Nat \ {0} /\ BatchSize \in Nat \ {0}
    /\ MaxFailureCount \in Nat \ {0} /\ MaxRounds \in Nat
    /\ NoDelivery \notin Delivery /\ Loop \notin Trigger
    /\ IsFiniteSet(Delivery) /\ IsFiniteSet(Trigger)

VARIABLES
    webhook,     \* the webhook: [exists, active, failures]
    record,      \* WebhookDelivery records: [saved, attempts, success, next]
    sender,      \* where deliverToWebhook or SendTestWebhook is, for each delivery
    outcome,     \* what Send told it
    running, cancelled,
    retrier,     \* where processRetries is, in each goroutine that runs it
    batch,       \* the deliveries left of its GetFailedDeliveries, as they were then
    current,     \* the delivery it is working on
    copy,        \* its copy of that delivery's record
    reenabled,   \* history: the owner enabled the webhook after its last failure
    wasInactive, \* history: the webhook has been inactive
    tests,       \* history: deliveries made by SendTestWebhook
    succeeded,   \* history: deliveries the endpoint answered 2xx
    rounds,      \* history: how often each delivery was retried
    triggered    \* history: TriggerNow has been called

Retrier == {Loop} \cup Trigger

service == <<sender, outcome, tests>>
handler == <<running, cancelled, triggered>>
retry == <<retrier, batch, current, copy>>
vars == <<webhook, record, service, handler, retry, reenabled, wasInactive, succeeded, rounds>>

\* A retry cut short while it waits for its slot adds one to the attempts.
Record == [saved : BOOLEAN, attempts : 0..(MaxAttempts + Cardinality(Retrier)), success : BOOLEAN,
           next : {"none", "later", "due"}]

\* What Send reports; attempts 0 stands for a nil result, that of a context
\* cancelled while Send waited for its slot.
Outcome == {o \in [attempts : 0..MaxAttempts, success : BOOLEAN] : o.success => o.attempts > 0}

TypeOK ==
    /\ webhook \in [exists : BOOLEAN, active : BOOLEAN, failures : 0..Cardinality(Delivery)]
    /\ record \in [Delivery -> Record]
    /\ sender \in [Delivery -> {"new", "send", "save", "count", "check", "disable", "schedule",
                                "testSend", "testSave", "done"}]
    /\ outcome \in [Delivery -> Outcome]
    /\ running \in BOOLEAN /\ cancelled \in BOOLEAN
    /\ retrier \in [Retrier -> {"idle", "query", "next", "webhook", "clearGet", "clearSave", "retryGet",
                                "retryWebhook", "send", "save", "poll", "exited"}]
    /\ \A r \in Retrier : batch[r] \in SUBSET (Delivery \X Nat) /\ Cardinality(batch[r]) <= BatchSize
    /\ current \in [Retrier -> Delivery \cup {NoDelivery}]
    /\ copy \in [Retrier -> Record]
    /\ reenabled \in BOOLEAN /\ wasInactive \in BOOLEAN
    /\ tests \subseteq Delivery /\ succeeded \subseteq Delivery
    /\ rounds \in [Delivery -> 0..MaxRounds]
    /\ triggered \in BOOLEAN

NoRecord == [saved |-> FALSE, attempts |-> 0, success |-> FALSE, next |-> "none"]

Init ==
    /\ webhook = [exists |-> TRUE, active |-> TRUE, failures |-> 0]
    /\ record = [d \in Delivery |-> NoRecord]
    /\ sender = [d \in Delivery |-> "new"]
    /\ outcome = [d \in Delivery |-> [attempts |-> 0, success |-> FALSE]]
    /\ running = FALSE /\ cancelled = FALSE
    /\ retrier = [r \in Retrier |-> IF r = Loop THEN "exited" ELSE "idle"]
    /\ batch = [r \in Retrier |-> {}]
    /\ current = [r \in Retrier |-> NoDelivery]
    /\ copy = [r \in Retrier |-> NoRecord]
    /\ reenabled = FALSE /\ wasInactive = FALSE
    /\ tests = {} /\ succeeded = {}
    /\ rounds = [d \in Delivery |-> 0]
    /\ triggered = FALSE

-----------------------------------------------------------------------------
\* The webhook's owner

Found == webhook.exists
FoundActive == webhook.exists /\ webhook.active

UpdateWebhook(active) ==
    /\ Found
    /\ webhook' = [webhook EXCEPT !.active = active]
    /\ reenabled' = (reenabled \/ active)
    /\ wasInactive' = (wasInactive \/ ~active)
    /\ UNCHANGED <<record, service, handler, retry, succeeded, rounds>>

DeleteWebhook ==
    /\ Found
    /\ webhook' = [webhook EXCEPT !.exists = FALSE]
    /\ UNCHANGED <<record, service, handler, retry, reenabled, wasInactive, succeeded, rounds>>

-----------------------------------------------------------------------------
\* deliverToWebhook

SenderStep(d, label) ==
    /\ sender' = [sender EXCEPT ![d] = label]
    /\ UNCHANGED <<handler, retry, rounds>>

\* DeliverWebhooksForEvent: GetWebhooksByEvent returns the webhook if it is active.
Deliver(d) ==
    /\ sender[d] = "new"
    /\ FoundActive
    /\ SenderStep(d, "send")
    /\ UNCHANGED <<webhook, record, outcome, tests, reenabled, wasInactive, succeeded>>

\* SendTestWebhook
SendTest(d) ==
    /\ sender[d] = "new"
    /\ Found
    /\ tests' = tests \cup {d}
    /\ SenderStep(d, "testSend")
    /\ UNCHANGED <<webhook, record, outcome, reenabled, wasInactive, succeeded>>

Send(d, o) ==
    /\ sender[d] \in {"send", "testSend"}
    /\ outcome' = [outcome EXCEPT ![d] = o]
    /\ succeeded' = IF o.success THEN succeeded \cup {d} ELSE succeeded
    /\ SenderStep(d, IF d \in tests THEN "testSave" ELSE "save")
    /\ UNCHANGED <<webhook, record, tests, reenabled, wasInactive>>

SaveDelivery(d) ==
    /\ sender[d] \in {"save", "testSave"}
    /\ record' = [record EXCEPT ![d] = [saved |-> TRUE, attempts |-> outcome[d].attempts,
                                        success |-> outcome[d].success, next |-> "none"]]
    /\ SenderStep(d, IF d \in tests THEN "done" ELSE "count")
    /\ UNCHANGED <<webhook, outcome, tests, reenabled, wasInactive, succeeded>>

\* ResetFailureCount or IncrementFailureCount; both fail if the webhook is gone.
CountResult(d) ==
    /\ sender[d] = "count"
    /\ webhook' = IF Found
                  THEN [webhook EXCEPT !.failures = IF outcome[d].success THEN 0 ELSE @ + 1]
                  ELSE webhook
    /\ reenabled' = (reenabled /\ outcome[d].success)
    /\ SenderStep(d, IF outcome[d].success THEN "done" ELSE "check")
    /\ UNCHANGED <<record, outcome, tests, wasInactive, succeeded>>

\* Wrong on purpose: the webhook is disabled after one failure too many.
LimitExceeded == webhook.failures > MaxFailureCount

LimitReached == webhook.failures >= MaxFailureCount

CheckLimit(d) ==
    /\ sender[d] = "check"
    /\ SenderStep(d, IF Found /\ LimitReached THEN "disable" ELSE "schedule")
    /\ UNCHANGED <<webhook, record, outcome, tests, reenabled, wasInactive, succeeded>>

DisableWebhook(d) ==
    /\ sender[d] = "disable"
    /\ webhook' = IF Found THEN [webhook EXCEPT !.active = FALSE] ELSE webhook
    /\ wasInactive' = (wasInactive \/ Found)
    /\ SenderStep(d, "schedule")
    /\ UNCHANGED <<record, outcome, tests, reenabled, succeeded>>

\* UpdateDeliveryRetry, whatever the number of attempts.
ScheduleRetry(d) ==
    /\ sender[d] = "schedule"
    /\ record' = [record EXCEPT ![d].next = "later"]
    /\ SenderStep(d, "done")
    /\ UNCHANGED <<webhook, outcome, tests, reenabled, wasInactive, succeeded>>

DeliverStep(d) ==
    \/ \E o \in Outcome : Send(d, o)
    \/ SaveDelivery(d) \/ CountResult(d) \/ CheckLimit(d) \/ DisableWebhook(d) \/ ScheduleRetry(d)

\* A scheduled time comes.
Due(d) ==
    /\ record[d].next = "later"
    /\ record' = [record EXCEPT ![d].next = "due"]
    /\ UNCHANGED <<webhook, service, handler, retry, reenabled, wasInactive, succeeded, rounds>>

-----------------------------------------------------------------------------
\* The retry handler

Start ==
    /\ ~running /\ ~cancelled
    /\ running' = TRUE
    /\ retrier' = [retrier EXCEPT ![Loop] = "idle"]
    /\ UNCHANGED <<webhook, record, service, cancelled, triggered, batch, current, copy, reenabled,
                   wasInactive, succeeded, rounds>>

\* Stop up to wg.Wait, which waits for the loop only.
Stop ==
    /\ running
    /\ running' = FALSE
    /\ cancelled' = TRUE
    /\ UNCHANGED <<webhook, record, service, triggered, retry, reenabled, wasInactive, succeeded, rounds>>

RetryStep(r, label) ==
    /\ retrier' = [retrier EXCEPT ![r] = label]
    /\ UNCHANGED <<service, handler, reenabled, wasInactive>>

\* Wrong on purpose: every delivery on record is taken.
RetryableAll(d) == record[d].saved

\* GetFailedDeliveries' conditions.
Retryable(d) == record[d].saved /\ ~record[d].success /\ record[d].next = "due"

Tick ==
    /\ retrier[Loop] = "idle"
    /\ ~cancelled
    /\ RetryStep(Loop, "query")
    /\ UNCHANGED <<webhook, record, batch, current, copy, succeeded, rounds>>

\* The goroutine it starts is not in the wait group.
TriggerNow(r) ==
    /\ retrier[r] = "idle"
    /\ running
    /\ retrier' = [retrier EXCEPT ![r] = "query"]
    /\ triggered' = TRUE
    /\ UNCHANGED <<webhook, record, service, running, cancelled, batch, current, copy, reenabled,
                   wasInactive, succeeded, rounds>>

\* What a query may return: in the order of a map, up to BatchSize.
Batches(ready) == IF Cardinality(ready) <= BatchSize THEN {ready} ELSE kSubset(BatchSize, ready)

\* processRetries up to its loop; a context that is cancelled does not stop it.
GetFailedDeliveries(r) ==
    /\ retrier[r] = "query"
    /\ \E chosen \in Batches({d \in Delivery : Retryable(d) /\ rounds[d] < MaxRounds}) :
          /\ batch' = [batch EXCEPT ![r] = {<<d, record[d].attempts>> : d \in chosen}]
          /\ RetryStep(r, IF chosen = {} THEN "idle" ELSE "next")
    /\ UNCHANGED <<webhook, record, current, copy, succeeded, rounds>>

LoopEnds ==
    /\ retrier[Loop] = "idle"
    /\ cancelled
    /\ RetryStep(Loop, "exited")
    /\ UNCHANGED <<webhook, record, batch, current, copy, succeeded, rounds>>

\* The next delivery of the batch, or the end of it.
NextDelivery(r) ==
    /\ retrier[r] = "next"
    /\ \/ \E entry \in batch[r] :
            /\ batch' = [batch EXCEPT ![r] = @ \ {entry}]
            /\ current' = [current EXCEPT ![r] = entry[1]]
            /\ RetryStep(r, IF entry[2] >= MaxRetries THEN "clearGet" ELSE "webhook")
       \/ /\ batch[r] = {}
          /\ RetryStep(r, "idle")
          /\ current' = [current EXCEPT ![r] = NoDelivery]
          /\ UNCHANGED batch
    /\ UNCHANGED <<webhook, record, copy, succeeded, rounds>>

\* Wrong on purpose: an inactive webhook is skipped as a deleted one is.
AfterInactiveSkip == "next"

AfterInactive == "clearGet"

CheckWebhook(r) ==
    /\ retrier[r] = "webhook"
    /\ RetryStep(r, IF ~Found THEN "next" ELSE IF webhook.active THEN "retryGet" ELSE AfterInactive)
    /\ UNCHANGED <<webhook, record, batch, current, copy, succeeded, rounds>>

\* clearRetry, and the GetDelivery of RetryFailedWebhook.
GetDelivery(r) ==
    /\ retrier[r] \in {"clearGet", "retryGet"}
    /\ copy' = [copy EXCEPT ![r] = record[current[r]]]
    /\ RetryStep(r, IF retrier[r] = "clearGet" THEN "clearSave" ELSE "retryWebhook")
    /\ UNCHANGED <<webhook, record, batch, current, succeeded, rounds>>

ClearSave(r) ==
    /\ retrier[r] = "clearSave"
    /\ record' = [record EXCEPT ![current[r]] = [copy[r] EXCEPT !.next = "none"]]
    /\ copy' = [copy EXCEPT ![r] = NoRecord]
    /\ RetryStep(r, "next")
    /\ UNCHANGED <<webhook, batch, current, succeeded, rounds>>

\* RetryFailedWebhook looks at the webhook again.
RetryWebhook(r) ==
    /\ retrier[r] = "retryWebhook"
    /\ RetryStep(r, IF FoundActive THEN "send" ELSE "poll")
    /\ UNCHANGED <<webhook, record, batch, current, copy, succeeded, rounds>>

\* Wrong on purpose: the record is updated with everything but the success.
ApplyWithoutSuccess(c, o) == [c EXCEPT !.attempts = IF o.attempts = 0 THEN @ + 1 ELSE o.attempts]

\* RetryFailedWebhook's update of its copy: a result replaces the attempts.
Apply(c, o) ==
    IF o.attempts = 0
    THEN [c EXCEPT !.attempts = @ + 1]
    ELSE [c EXCEPT !.attempts = o.attempts, !.success = o.success]

\* Wrong on purpose: the attempts are compared with the limit of another policy.
AttemptsLeftOneFewer(c) == c.attempts < MaxAttempts - 1

AttemptsLeft(c) == c.attempts < MaxAttempts

RetrySend(r, o) ==
    /\ retrier[r] = "send"
    /\ o.attempts = 0 => cancelled
    /\ LET c == Apply(copy[r], o)
       IN  copy' = [copy EXCEPT ![r] =
                       [c EXCEPT !.next = IF ~c.success /\ AttemptsLeft(c) THEN "later" ELSE "none"]]
    /\ succeeded' = IF o.success THEN succeeded \cup {current[r]} ELSE succeeded
    /\ rounds' = [rounds EXCEPT ![current[r]] = IF @ < MaxRounds THEN @ + 1 ELSE @]
    /\ RetryStep(r, "save")
    /\ UNCHANGED <<webhook, record, batch, current>>

RetrySave(r) ==
    /\ retrier[r] = "save"
    /\ record' = [record EXCEPT ![current[r]] = copy[r]]
    /\ RetryStep(r, "poll")
    /\ UNCHANGED <<webhook, batch, current, copy, succeeded, rounds>>

\* The check for cancellation after each retry.
Poll(r) ==
    /\ retrier[r] = "poll"
    /\ RetryStep(r, IF cancelled THEN "idle" ELSE "next")
    /\ batch' = [batch EXCEPT ![r] = IF cancelled THEN {} ELSE @]
    /\ copy' = [copy EXCEPT ![r] = NoRecord]
    /\ current' = [current EXCEPT ![r] = NoDelivery]
    /\ UNCHANGED <<webhook, record, succeeded, rounds>>

Process(r) ==
    \/ GetFailedDeliveries(r) \/ NextDelivery(r) \/ CheckWebhook(r) \/ GetDelivery(r)
    \/ ClearSave(r) \/ RetryWebhook(r) \/ RetrySave(r) \/ Poll(r)
    \/ \E o \in Outcome : RetrySend(r, o)

\* The webhook is gone, the handler is stopped and nothing is under way.
Terminating ==
    /\ ~Found /\ cancelled
    /\ \A d \in Delivery : sender[d] \in {"new", "done"} /\ record[d].next # "later"
    /\ \A r \in Retrier : retrier[r] = IF r = Loop THEN "exited" ELSE "idle"
    /\ UNCHANGED vars

Next ==
    \/ Terminating
    \/ \E active \in BOOLEAN : UpdateWebhook(active)
    \/ DeleteWebhook
    \/ \E d \in Delivery : Deliver(d) \/ SendTest(d) \/ DeliverStep(d) \/ Due(d)
    \/ Start \/ Stop \/ Tick \/ LoopEnds
    \/ \E r \in Trigger : TriggerNow(r)
    \/ \E r \in Retrier : Process(r)

Spec == Init /\ [][Next]_vars

\* Time passes, goroutines run and the ticker ticks.
Fairness ==
    /\ \A d \in Delivery : WF_vars(DeliverStep(d)) /\ WF_vars(Due(d))
    /\ WF_vars(Tick) /\ WF_vars(LoopEnds)
    /\ \A r \in Retrier : WF_vars(Process(r))

FairSpec == Spec /\ Fairness

-----------------------------------------------------------------------------
(* Properties *)

Working(d) ==
    \/ sender[d] # "done"
    \/ \E r \in Retrier : current[r] = d /\ retrier[r] \notin {"idle", "exited"}

\* A webhook at its failure limit does not stay active: a delivery is about to
\* disable it, or its owner enabled it again after the last failure.
LimitDisables ==
    /\ TypeOK
    /\ FoundActive /\ webhook.failures >= MaxFailureCount
        => reenabled \/ \E d \in Delivery : sender[d] \in {"check", "disable"}

\* An event's delivery that failed and is on nobody's schedule used its attempts
\* up or met an inactive webhook, whatever loops and triggers ran at once.  The
\* handler must allow as many attempts as the service (the defaults are 5 and 3):
\* otherwise one goroutine clears what another has just scheduled.
GiveUpJustified ==
    MaxAttempts <= MaxRetries =>
      \A d \in Delivery \ tests :
        ~record[d].success /\ record[d].next = "none" /\ ~Working(d)
            => record[d].attempts >= MaxAttempts \/ wasInactive

\* As long as TriggerNow has not been called, a delivery the endpoint accepted is
\* never sent again.
NoResendAfterSuccess ==
    triggered \/ \A r \in Retrier : retrier[r] = "send" => current[r] \notin succeeded

\* As long as TriggerNow has not been called, the record of a delivery the endpoint
\* accepted says so once nobody works on it.
SuccessRecorded == triggered \/ \A d \in succeeded : ~Working(d) => record[d].success

\* What the endpoint accepted stays accepted: RetryFailedWebhook neither sends it again
\* nor overwrites the record of the success, as long as TriggerNow does not run beside
\* the loop.
SuccessIsFinal == NoResendAfterSuccess /\ SuccessRecorded

\* A retry that falls due is sent or cleared, unless the webhook is deleted (then
\* it stays due for ever), the handler stops, or the owner keeps switching the
\* webhook on and off between the two looks the handler takes at it.
RetrySettles ==
    (<>[](webhook.active) \/ <>[](~webhook.active)) =>
      \A d \in Delivery :
        record[d].next = "due" /\ running
            ~> \/ record[d].next # "due"
               \/ \E r \in Retrier : current[r] = d /\ retrier[r] = "send"
               \/ ~Found \/ ~running \/ rounds[d] = MaxRounds
=============================================================================
