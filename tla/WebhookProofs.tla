--------------------------- MODULE WebhookProofs ---------------------------
(***************************************************************************)
(* Proofs about WebhookDelivery, for any deliveries, any number of         *)
(* goroutines TriggerNow has started, and any settings.                    *)
(***************************************************************************)
EXTENDS WebhookDelivery, FiniteSetTheorems, TLAPS

Times == {"none", "later", "due"}
Records == [saved : BOOLEAN, attempts : Nat, success : BOOLEAN, next : Times]
Webhooks == [exists : BOOLEAN, active : BOOLEAN, failures : Nat]
Senders == {"new", "send", "save", "count", "check", "disable", "schedule",
            "testSend", "testSave", "done"}
Places == {"idle", "query", "next", "webhook", "clearGet", "clearSave", "retryGet",
           "retryWebhook", "send", "save", "poll", "exited"}

\* TypeOK without its bounds on failures, attempts and batches.
Typed ==
    /\ webhook \in Webhooks
    /\ record \in [Delivery -> Records]
    /\ sender \in [Delivery -> Senders]
    /\ outcome \in [Delivery -> Outcome]
    /\ running \in BOOLEAN /\ cancelled \in BOOLEAN
    /\ retrier \in [Retrier -> Places]
    /\ batch \in [Retrier -> SUBSET (Delivery \X Nat)]
    /\ current \in [Retrier -> Delivery \cup {NoDelivery}]
    /\ copy \in [Retrier -> Records]
    /\ reenabled \in BOOLEAN /\ wasInactive \in BOOLEAN
    /\ tests \subseteq Delivery /\ succeeded \subseteq Delivery
    /\ rounds \in [Delivery -> 0..MaxRounds]
    /\ triggered \in BOOLEAN

-----------------------------------------------------------------------------
\* What the service and the handler know about each other's work.

Unsaved == {"new", "send", "testSend", "save", "testSave"}
Saved == {"count", "check", "disable", "schedule"}
Failed == {"check", "disable", "schedule"}

\* Until the service is done with a delivery, its record is what the service wrote.
SenderSound(d) ==
    /\ sender[d] \in {"new", "send", "save"} \cup Saved => d \notin tests
    /\ sender[d] \in {"testSend", "testSave"} => d \in tests
    /\ sender[d] \in {"new", "send", "testSend"} => d \notin succeeded
    /\ sender[d] # "done" /\ d \in succeeded => outcome[d].success
    /\ sender[d] \in Unsaved => record[d] = NoRecord
    /\ sender[d] \in Saved =>
          /\ record[d].saved /\ record[d].next = "none"
          /\ record[d].attempts = outcome[d].attempts
          /\ record[d].success = outcome[d].success
    /\ sender[d] \in Failed => ~outcome[d].success

\* What is scheduled is a failed delivery of an event that the service is done with.
RecordSound(d) ==
    /\ sender[d] = "done" => record[d].saved
    /\ record[d].next # "none" =>
          /\ record[d].saved /\ ~record[d].success
          /\ sender[d] = "done" /\ d \notin tests

Busy == {"webhook", "clearGet", "clearSave", "retryGet", "retryWebhook", "send", "save"}
Copied == {"clearSave", "retryWebhook", "send", "save"}

\* A goroutine of the handler works on deliveries that the service is done with.
RetrierSound(r) ==
    /\ \A e \in batch[r] : sender[e[1]] = "done" /\ e[1] \notin tests
    /\ retrier[r] \in Busy =>
          current[r] \in Delivery /\ sender[current[r]] = "done" /\ current[r] \notin tests
    /\ retrier[r] \in Copied => copy[r].saved
    /\ retrier[r] = "save" /\ copy[r].next # "none" => ~copy[r].success

Sound ==
    /\ \A d \in Delivery : SenderSound(d) /\ RecordSound(d)
    /\ \A r \in Retrier : RetrierSound(r)

-----------------------------------------------------------------------------
\* Why a delivery is given up.

\* The service alone has used up what the handler allows.
Exhausted(d) == outcome[d].attempts >= MaxRetries

Justified(d) ==
    /\ record[d].next # "none" /\ record[d].attempts >= MaxRetries => Exhausted(d)
    /\ record[d].saved /\ Exhausted(d) => record[d].attempts >= MaxRetries
    /\ sender[d] = "done" /\ d \notin tests /\ ~record[d].success /\ record[d].next = "none"
          => record[d].attempts >= MaxAttempts \/ wasInactive

Retrying == {"webhook", "retryGet", "retryWebhook", "send", "save"}

HandlesFairly(r) ==
    /\ \A e \in batch[r] : Exhausted(e[1]) <=> e[2] >= MaxRetries
    /\ retrier[r] \in Retrying => ~Exhausted(current[r])
    /\ retrier[r] \in {"clearGet", "clearSave"} => wasInactive \/ Exhausted(current[r])
    /\ retrier[r] \in Copied /\ Exhausted(current[r]) => copy[r].attempts >= MaxRetries
    /\ retrier[r] = "save" /\ ~copy[r].success =>
          (copy[r].next = "none" <=> copy[r].attempts >= MaxAttempts)

Fair ==
    /\ ~webhook.active => wasInactive
    /\ \A d \in Delivery : Justified(d)
    /\ \A r \in Retrier : HandlesFairly(r)

-----------------------------------------------------------------------------
\* The loop alone.

LoopAlone ==
    /\ \A r \in Trigger : retrier[r] = "idle"
    /\ \A e, f \in batch[Loop] : e[1] = f[1] => e = f
    /\ \A e \in batch[Loop] :
          e[1] \notin succeeded /\ (retrier[Loop] \in Busy => e[1] # current[Loop])
    /\ retrier[Loop] \in Busy \ {"save"} => current[Loop] \notin succeeded
    /\ retrier[Loop] = "save" /\ current[Loop] \in succeeded => copy[Loop].success
    /\ \A d \in succeeded :
          sender[d] = "done" =>
              record[d].success \/ (retrier[Loop] = "save" /\ current[Loop] = d)

-----------------------------------------------------------------------------
\* The bounds of TypeOK.

\* The deliveries that may have added to the failure count.
Counted == {d \in Delivery : sender[d] \in {"check", "disable", "schedule", "done"}}

\* The goroutines that cannot be cut short any more once the handler is cancelled.
Spent == {r \in Retrier : retrier[r] \in {"save", "poll", "idle", "exited"}}

Slack == IF cancelled THEN Cardinality(Spent) ELSE 0

Bounded ==
    /\ cancelled => ~running
    /\ webhook.failures <= Cardinality(Counted)
    /\ \A d \in Delivery : record[d].attempts <= MaxAttempts + Slack
    /\ \A r \in Retrier : copy[r].attempts <= MaxAttempts + Slack
    /\ \A r \in Retrier : IsFiniteSet(batch[r]) /\ Cardinality(batch[r]) <= BatchSize

-----------------------------------------------------------------------------
(* Records *)

\* The fields of a record.
LEMMA RecordFields ==
    ASSUME NEW x \in Records
    PROVE  x.saved \in BOOLEAN /\ x.attempts \in Nat /\ x.success \in BOOLEAN /\ x.next \in Times
  BY DEF Records

\* A record with another time for its retry.
LEMMA RecordTimed ==
    ASSUME NEW x \in Records, NEW t \in Times
    PROVE  LET y == [x EXCEPT !.next = t]
           IN  /\ y \in Records
               /\ y.saved = x.saved /\ y.attempts = x.attempts /\ y.success = x.success
               /\ y.next = t
  BY DEF Records

\* A record that the service makes.
LEMMA RecordMade ==
    ASSUME NEW a \in Nat, NEW s \in BOOLEAN
    PROVE  LET y == [saved |-> TRUE, attempts |-> a, success |-> s, next |-> "none"]
           IN  /\ y \in Records
               /\ y.saved /\ y.attempts = a /\ y.success = s /\ y.next = "none"
  BY DEF Records, Times

\* The empty record.
LEMMA NoRecordFields ==
    /\ NoRecord \in Records
    /\ ~NoRecord.saved /\ NoRecord.attempts = 0 /\ ~NoRecord.success /\ NoRecord.next = "none"
  BY DEF Records, Times, NoRecord

\* What Send reports.
LEMMA OutcomeFields ==
    ASSUME NEW o \in Outcome
    PROVE  /\ o.attempts \in Nat /\ o.attempts <= MaxAttempts /\ o.success \in BOOLEAN
           /\ o.success => o.attempts > 0
  BY WebhookAssumption DEF Outcome

\* What RetryFailedWebhook makes of its copy.
LEMMA Applied ==
    ASSUME NEW x \in Records, NEW o \in Outcome
    PROVE  LET y == Apply(x, o)
           IN  /\ y \in Records /\ y.saved = x.saved
               /\ o.attempts = 0 => y.attempts = x.attempts + 1 /\ y.success = x.success
               /\ o.attempts # 0 => y.attempts = o.attempts /\ y.success = o.success
<1>1. CASE o.attempts = 0
  <2>1. Apply(x, o) = [x EXCEPT !.attempts = @ + 1]
    BY <1>1 DEF Apply
  <2>2. QED
    BY <1>1, <2>1 DEF Records
<1>2. CASE o.attempts # 0
  <2>1. Apply(x, o) = [x EXCEPT !.attempts = o.attempts, !.success = o.success]
    BY <1>2 DEF Apply
  <2>2. QED
    BY <1>2, <2>1, OutcomeFields DEF Records
<1>3. QED
  BY <1>1, <1>2

\* The copy that RetryFailedWebhook is about to save.
Retried(x, o) ==
    LET c == Apply(x, o)
    IN  [c EXCEPT !.next = IF ~c.success /\ AttemptsLeft(c) THEN "later" ELSE "none"]

\* Its fields: a retry is scheduled exactly if it failed with attempts left.
LEMMA RetriedFields ==
    ASSUME NEW x \in Records, NEW o \in Outcome
    PROVE  LET y == Retried(x, o)
           IN  /\ y \in Records /\ y.saved = x.saved
               /\ o.attempts = 0 => y.attempts = x.attempts + 1 /\ y.success = x.success
               /\ o.attempts # 0 => y.attempts = o.attempts /\ y.success = o.success
               /\ y.success => y.next = "none"
               /\ ~y.success => (y.next = "none" <=> y.attempts >= MaxAttempts)
<1> DEFINE c == Apply(x, o)
           t == IF ~c.success /\ AttemptsLeft(c) THEN "later" ELSE "none"
<1>1. /\ c \in Records /\ c.saved = x.saved
      /\ o.attempts = 0 => c.attempts = x.attempts + 1 /\ c.success = x.success
      /\ o.attempts # 0 => c.attempts = o.attempts /\ c.success = o.success
  BY Applied
<1>2. t \in Times
  BY DEF Times
<1>3. Retried(x, o) = [c EXCEPT !.next = t]
  BY DEF Retried
<1>4. /\ c.attempts \in Nat /\ c.success \in BOOLEAN
      /\ t = "none" <=> ~(~c.success /\ c.attempts < MaxAttempts)
  BY <1>1, RecordFields DEF AttemptsLeft
<1> HIDE DEF c, t
<1>5. LET y == [c EXCEPT !.next = t]
      IN  /\ y \in Records
          /\ y.saved = c.saved /\ y.attempts = c.attempts /\ y.success = c.success
          /\ y.next = t
  BY <1>1, <1>2, RecordTimed
<1>6. QED
  BY <1>1, <1>3, <1>4, <1>5, WebhookAssumption

-----------------------------------------------------------------------------
(* Types *)

\* The variables have their types at first.
LEMMA TypedInit == Init => Typed
<1> SUFFICES ASSUME Init PROVE Typed
  OBVIOUS
<1>1. webhook \in Webhooks
  BY DEF Init, Webhooks
<1>2. [attempts |-> 0, success |-> FALSE] \in Outcome
  BY WebhookAssumption DEF Outcome
<1>3. outcome \in [Delivery -> Outcome]
  BY <1>2 DEF Init
<1>4. record \in [Delivery -> Records] /\ copy \in [Retrier -> Records]
  BY NoRecordFields DEF Init
<1>5. sender \in [Delivery -> Senders] /\ retrier \in [Retrier -> Places]
  BY DEF Init, Senders, Places
<1>6. rounds \in [Delivery -> 0..MaxRounds]
  BY WebhookAssumption DEF Init
<1>7. /\ batch \in [Retrier -> SUBSET (Delivery \X Nat)]
      /\ current \in [Retrier -> Delivery \cup {NoDelivery}]
      /\ tests \subseteq Delivery /\ succeeded \subseteq Delivery
  BY DEF Init
<1>8. /\ running \in BOOLEAN /\ cancelled \in BOOLEAN /\ reenabled \in BOOLEAN
      /\ wasInactive \in BOOLEAN /\ triggered \in BOOLEAN
  BY DEF Init
<1>9. QED
  BY <1>1, <1>3, <1>4, <1>5, <1>6, <1>7, <1>8 DEF Typed

\* The webhook's row stays a row whatever its owner and the service do to it.
LEMMA WebhookFields ==
    ASSUME NEW w \in Webhooks
    PROVE  /\ w.exists \in BOOLEAN /\ w.active \in BOOLEAN /\ w.failures \in Nat
           /\ \A b \in BOOLEAN : [w EXCEPT !.active = b] \in Webhooks
           /\ [w EXCEPT !.exists = FALSE] \in Webhooks
           /\ \A n \in Nat : [w EXCEPT !.failures = n] \in Webhooks
  BY DEF Webhooks

\* A step of the service keeps the types.
LEMMA TypedSender ==
    ASSUME Typed, NEW d \in Delivery,
           Deliver(d) \/ SendTest(d) \/ DeliverStep(d) \/ Due(d)
    PROVE  Typed'
<1> USE DEF service, handler, retry, SenderStep
<1>0. webhook.failures \in Nat /\ outcome[d] \in Outcome /\ outcome[d].attempts \in Nat
      /\ outcome[d].success \in BOOLEAN /\ webhook.exists \in BOOLEAN
  BY WebhookFields, OutcomeFields DEF Typed
<1>1. CASE Deliver(d)
  BY <1>1 DEF Deliver, Typed, Senders
<1>2. CASE SendTest(d)
  BY <1>2 DEF SendTest, Typed, Senders
<1>3. ASSUME NEW o \in Outcome, Send(d, o) PROVE Typed'
  BY <1>3 DEF Send, Typed, Senders
<1>4. CASE SaveDelivery(d)
  <2>1. [saved |-> TRUE, attempts |-> outcome[d].attempts,
         success |-> outcome[d].success, next |-> "none"] \in Records
    BY <1>0, RecordMade
  <2>2. record' \in [Delivery -> Records]
    BY <1>4, <2>1 DEF SaveDelivery, Typed
  <2>3. QED
    BY <1>4, <2>2 DEF SaveDelivery, Typed, Senders
<1>5. CASE CountResult(d)
  <2>1. webhook' \in Webhooks
    <3>1. CASE ~Found
      BY <1>5, <3>1 DEF CountResult, Typed
    <3>2. CASE Found /\ outcome[d].success
      <4>1. webhook' = [webhook EXCEPT !.failures = 0]
        BY <1>5, <3>2 DEF CountResult
      <4>2. QED
        BY <4>1, WebhookFields DEF Typed
    <3>3. CASE Found /\ ~outcome[d].success
      <4>1. webhook' = [webhook EXCEPT !.failures = webhook.failures + 1]
        BY <1>5, <3>3 DEF CountResult
      <4>2. QED
        BY <1>0, <4>1 DEF Typed, Webhooks
    <3>4. QED
      BY <3>1, <3>2, <3>3
  <2>2. reenabled' \in BOOLEAN
    BY <1>0, <1>5 DEF CountResult, Typed
  <2>3. QED
    BY <1>5, <2>1, <2>2 DEF CountResult, Typed, Senders
<1>6. CASE CheckLimit(d)
  BY <1>6 DEF CheckLimit, Typed, Senders
<1>7. CASE DisableWebhook(d)
  <2>1. webhook' \in Webhooks
    <3>1. webhook' = webhook \/ webhook' = [webhook EXCEPT !.active = FALSE]
      BY <1>7 DEF DisableWebhook
    <3>2. QED
      BY <3>1, WebhookFields DEF Typed
  <2>2. wasInactive' \in BOOLEAN
    BY <1>0, <1>7 DEF DisableWebhook, Typed, Found
  <2>3. QED
    BY <1>7, <2>1, <2>2 DEF DisableWebhook, Typed, Senders
<1>8. CASE ScheduleRetry(d)
  <2>1. record' = [record EXCEPT ![d] = [record[d] EXCEPT !.next = "later"]]
    BY <1>8 DEF ScheduleRetry
  <2>2. [record[d] EXCEPT !.next = "later"] \in Records
    BY RecordTimed DEF Typed, Times
  <2>3. QED
    BY <1>8, <2>1, <2>2 DEF ScheduleRetry, Typed, Senders
<1>9. CASE Due(d)
  <2>1. record' = [record EXCEPT ![d] = [record[d] EXCEPT !.next = "due"]]
    BY <1>9 DEF Due
  <2>2. [record[d] EXCEPT !.next = "due"] \in Records
    BY RecordTimed DEF Typed, Times
  <2>3. QED
    BY <1>9, <2>1, <2>2 DEF Due, Typed
<1>10. QED
  BY <1>1, <1>2, <1>3, <1>4, <1>5, <1>6, <1>7, <1>8, <1>9 DEF DeliverStep

\* What GetFailedDeliveries answers is a part of what is ready, no larger than a batch.
LEMMA BatchesPart ==
    ASSUME NEW S, IsFiniteSet(S), NEW T \in Batches(S)
    PROVE  T \subseteq S /\ IsFiniteSet(T) /\ Cardinality(T) <= BatchSize
<1>1. CASE Cardinality(S) <= BatchSize
  BY <1>1 DEF Batches
<1>2. CASE ~(Cardinality(S) <= BatchSize)
  <2>1. T \subseteq S /\ Cardinality(T) = BatchSize
    BY <1>2 DEF Batches, kSubset
  <2>2. QED
    BY <2>1, FS_Subset, WebhookAssumption
<1>3. QED
  BY <1>1, <1>2

\* The same, for the deliveries that are ready.
LEMMA ChosenReady ==
    ASSUME NEW T \in Batches({d \in Delivery : Retryable(d) /\ rounds[d] < MaxRounds})
    PROVE  /\ T \subseteq Delivery /\ IsFiniteSet(T) /\ Cardinality(T) <= BatchSize
           /\ \A d \in T : Retryable(d)
<1> DEFINE S == {d \in Delivery : Retryable(d) /\ rounds[d] < MaxRounds}
<1>1. S \subseteq Delivery /\ IsFiniteSet(Delivery)
  BY WebhookAssumption
<1>2. IsFiniteSet(S)
  BY <1>1, FS_Subset
<1>3. T \in Batches(S)
  OBVIOUS
<1>4. \A d \in S : Retryable(d)
  OBVIOUS
<1> HIDE DEF S
<1>5. T \subseteq S /\ IsFiniteSet(T) /\ Cardinality(T) <= BatchSize
  BY <1>2, <1>3, BatchesPart
<1>6. QED
  BY <1>1, <1>4, <1>5

\* A step of the retry handler keeps the types.
LEMMA TypedRetrier ==
    ASSUME Typed, Sound, NEW r \in Retrier, Process(r)
    PROVE  Typed'
<1> USE DEF service, handler, retry, RetryStep
<1>1. CASE GetFailedDeliveries(r)
  <2>1. PICK T \in Batches({d \in Delivery : Retryable(d) /\ rounds[d] < MaxRounds}) :
            /\ batch' = [batch EXCEPT ![r] = {<<d, record[d].attempts>> : d \in T}]
            /\ RetryStep(r, IF T = {} THEN "idle" ELSE "next")
    BY <1>1 DEF GetFailedDeliveries
  <2>2. T \subseteq Delivery
    BY ChosenReady
  <2>3. \A d \in T : record[d].attempts \in Nat
    BY <2>2, RecordFields DEF Typed
  <2>4. batch' \in [Retrier -> SUBSET (Delivery \X Nat)]
    BY <2>1, <2>2, <2>3 DEF Typed
  <2>5. retrier' \in [Retrier -> Places]
    BY <2>1 DEF Typed, Places
  <2>6. QED
    BY <1>1, <2>1, <2>4, <2>5 DEF GetFailedDeliveries, Typed
<1>2. CASE NextDelivery(r)
  <2>1. ASSUME NEW e \in batch[r], batch' = [batch EXCEPT ![r] = @ \ {e}],
               current' = [current EXCEPT ![r] = e[1]],
               RetryStep(r, IF e[2] >= MaxRetries THEN "clearGet" ELSE "webhook")
        PROVE  Typed'
    <3>1. e[1] \in Delivery
      BY DEF Typed
    <3>2. batch' \in [Retrier -> SUBSET (Delivery \X Nat)]
      BY <2>1 DEF Typed
    <3>3. QED
      BY <1>2, <2>1, <3>1, <3>2 DEF NextDelivery, Typed, Places
  <2>2. ASSUME RetryStep(r, "idle"), current' = [current EXCEPT ![r] = NoDelivery],
               UNCHANGED batch
        PROVE  Typed'
    BY <1>2, <2>2 DEF NextDelivery, Typed, Places
  <2>3. QED
    BY <1>2, <2>1, <2>2 DEF NextDelivery
<1>3. CASE CheckWebhook(r)
  BY <1>3 DEF CheckWebhook, Typed, Places, AfterInactive
<1>4. CASE GetDelivery(r)
  <2>1. record[current[r]] \in Records
    BY <1>4 DEF GetDelivery, Typed, Sound, RetrierSound, Busy
  <2>2. QED
    BY <1>4, <2>1 DEF GetDelivery, Typed, Places
<1>5. CASE ClearSave(r)
  <2>1. [copy[r] EXCEPT !.next = "none"] \in Records
    BY RecordTimed DEF Typed, Times
  <2>2. QED
    BY <1>5, <2>1, NoRecordFields DEF ClearSave, Typed, Places
<1>6. CASE RetryWebhook(r)
  BY <1>6 DEF RetryWebhook, Typed, Places
<1>7. CASE RetrySave(r)
  BY <1>7 DEF RetrySave, Typed, Places
<1>8. CASE Poll(r)
  BY <1>8, NoRecordFields DEF Poll, Typed, Places
<1>9. ASSUME NEW o \in Outcome, RetrySend(r, o) PROVE Typed'
  <2>1. copy' = [copy EXCEPT ![r] = Retried(copy[r], o)]
    BY <1>9 DEF RetrySend, Retried
  <2>2. Retried(copy[r], o) \in Records
    BY RetriedFields DEF Typed
  <2>3. current[r] \in Delivery
    BY <1>9 DEF RetrySend, Sound, RetrierSound, Busy
  <2>4. rounds' \in [Delivery -> 0..MaxRounds]
    BY <1>9, <2>3, WebhookAssumption DEF RetrySend, Typed
  <2>5. QED
    BY <1>9, <2>1, <2>2, <2>3, <2>4 DEF RetrySend, Typed, Places
<1>10. QED
  BY <1>1, <1>2, <1>3, <1>4, <1>5, <1>6, <1>7, <1>8, <1>9 DEF Process

\* Every step keeps the types.
LEMMA TypedNext == Typed /\ Sound /\ [Next]_vars => Typed'
<1> SUFFICES ASSUME Typed, Sound, [Next]_vars PROVE Typed'
  OBVIOUS
<1> USE DEF service, handler, retry
<1>1. CASE UNCHANGED vars
  BY <1>1 DEF vars, Typed
<1>2. ASSUME NEW active \in BOOLEAN, UpdateWebhook(active) PROVE Typed'
  BY <1>2, WebhookFields DEF UpdateWebhook, Typed
<1>3. CASE DeleteWebhook
  BY <1>3, WebhookFields DEF DeleteWebhook, Typed
<1>4. CASE Start
  BY <1>4 DEF Start, Typed, Places
<1>5. CASE Stop
  BY <1>5 DEF Stop, Typed
<1>6. CASE Tick
  BY <1>6 DEF Tick, RetryStep, Typed, Places
<1>7. CASE LoopEnds
  BY <1>7 DEF LoopEnds, RetryStep, Typed, Places
<1>8. ASSUME NEW r \in Trigger, TriggerNow(r) PROVE Typed'
  BY <1>8 DEF TriggerNow, Typed, Places
<1>9. QED
  BY <1>1, <1>2, <1>3, <1>4, <1>5, <1>6, <1>7, <1>8, TypedSender, TypedRetrier
     DEF Next, Terminating

-----------------------------------------------------------------------------
(* The service and the handler keep out of each other's way *)

\* At first nothing is on record and nobody works.
LEMMA SoundInit == Init => Sound
<1> SUFFICES ASSUME Init PROVE Sound
  OBVIOUS
<1>1. ASSUME NEW d \in Delivery PROVE SenderSound(d) /\ RecordSound(d)
  BY NoRecordFields DEF Init, SenderSound, RecordSound, Unsaved, Saved, Failed
<1>2. ASSUME NEW r \in Retrier PROVE RetrierSound(r)
  BY DEF Init, RetrierSound, Busy, Copied
<1>3. QED
  BY <1>1, <1>2 DEF Sound

\* The rest of the state as a step of the service for d leaves it.
SenderFrame(d) ==
    /\ UNCHANGED <<retrier, batch, current, copy>>
    /\ \A x \in Delivery \ {d} :
          /\ sender'[x] = sender[x] /\ record'[x] = record[x] /\ outcome'[x] = outcome[x]
          /\ (x \in tests') = (x \in tests)
          /\ (x \in succeeded') = (x \in succeeded)

\* A step for a delivery that the service is not done with disturbs nobody else.
LEMMA SenderFramed ==
    ASSUME Typed, Sound, NEW d \in Delivery, sender[d] # "done", SenderFrame(d),
           SenderSound(d)', RecordSound(d)'
    PROVE  Sound'
<1>1. ASSUME NEW x \in Delivery, x # d PROVE SenderSound(x)' /\ RecordSound(x)'
  BY <1>1 DEF Sound, SenderSound, RecordSound, SenderFrame
<1>2. ASSUME NEW r \in Retrier PROVE RetrierSound(r)'
  <2>1. \A x \in Delivery : sender[x] = "done" /\ x \notin tests
                               => sender'[x] = "done" /\ x \notin tests'
    BY DEF SenderFrame
  <2>2. \A e \in batch[r] : e[1] \in Delivery
    BY DEF Typed
  <2>3. QED
    BY <2>1, <2>2 DEF SenderFrame, Sound, RetrierSound
<1>3. QED
  BY <1>1, <1>2 DEF Sound

\* Each step of the service leaves the others' deliveries alone.
LEMMA SenderLocal ==
    ASSUME Typed, NEW d \in Delivery,
           Deliver(d) \/ SendTest(d) \/ DeliverStep(d) \/ Due(d)
    PROVE  SenderFrame(d)
<1> USE DEF service, handler, retry, SenderStep, Typed, SenderFrame
<1>1. CASE Deliver(d)
  BY <1>1 DEF Deliver
<1>2. CASE SendTest(d)
  BY <1>2 DEF SendTest
<1>3. ASSUME NEW o \in Outcome, Send(d, o) PROVE SenderFrame(d)
  BY <1>3 DEF Send
<1>4. CASE SaveDelivery(d)
  BY <1>4 DEF SaveDelivery
<1>5. CASE CountResult(d)
  BY <1>5 DEF CountResult
<1>6. CASE CheckLimit(d)
  BY <1>6 DEF CheckLimit
<1>7. CASE DisableWebhook(d)
  BY <1>7 DEF DisableWebhook
<1>8. CASE ScheduleRetry(d)
  BY <1>8 DEF ScheduleRetry
<1>9. CASE Due(d)
  BY <1>9 DEF Due
<1>10. QED
  BY <1>1, <1>2, <1>3, <1>4, <1>5, <1>6, <1>7, <1>8, <1>9 DEF DeliverStep

\* The record as SaveDelivery writes it.
LEMMA SavedFields ==
    ASSUME Typed, NEW d \in Delivery, SaveDelivery(d)
    PROVE  /\ record'[d].saved /\ record'[d].attempts = outcome[d].attempts
           /\ record'[d].success = outcome[d].success /\ record'[d].next = "none"
<1>1. outcome[d].attempts \in Nat /\ outcome[d].success \in BOOLEAN
  BY OutcomeFields DEF Typed
<1>2. record'[d] = [saved |-> TRUE, attempts |-> outcome[d].attempts,
                    success |-> outcome[d].success, next |-> "none"]
  BY DEF SaveDelivery, Typed
<1>3. QED
  BY <1>1, <1>2, RecordMade

\* The record as ScheduleRetry and Due leave it.
LEMMA TimedFields ==
    ASSUME Typed, NEW d \in Delivery, NEW t \in Times, record' = [record EXCEPT ![d].next = t]
    PROVE  /\ record'[d].saved = record[d].saved /\ record'[d].attempts = record[d].attempts
           /\ record'[d].success = record[d].success /\ record'[d].next = t
<1>1. record'[d] = [record[d] EXCEPT !.next = t] /\ record[d] \in Records
  BY DEF Typed
<1>2. LET y == [record[d] EXCEPT !.next = t]
      IN  /\ y.saved = record[d].saved /\ y.attempts = record[d].attempts
          /\ y.success = record[d].success /\ y.next = t
  BY <1>1, RecordTimed
<1>3. QED
  BY <1>1, <1>2

\* A step of the service keeps Sound.
LEMMA SoundSender ==
    ASSUME Typed, Sound, NEW d \in Delivery,
           Deliver(d) \/ SendTest(d) \/ DeliverStep(d) \/ Due(d)
    PROVE  Sound'
<1> USE DEF service, handler, retry, SenderStep
<1>0. /\ SenderFrame(d) /\ SenderSound(d) /\ RecordSound(d)
      /\ sender \in [Delivery -> Senders] /\ outcome \in [Delivery -> Outcome]
      /\ record \in [Delivery -> Records]
  BY SenderLocal DEF Sound, Typed
<1> USE DEF SenderSound, RecordSound, Unsaved, Saved, Failed
<1>1. CASE Deliver(d)
  BY <1>0, <1>1, SenderFramed, NoRecordFields DEF Deliver
<1>2. CASE SendTest(d)
  BY <1>0, <1>2, SenderFramed, NoRecordFields DEF SendTest
<1>3. ASSUME NEW o \in Outcome, Send(d, o) PROVE Sound'
  <2>1. /\ outcome'[d] = o /\ sender[d] # "done" /\ record'[d] = record[d]
        /\ sender'[d] = IF d \in tests THEN "testSave" ELSE "save"
        /\ tests' = tests /\ (d \in succeeded' => d \in succeeded \/ o.success)
    BY <1>0, <1>3 DEF Send
  <2>2. sender[d] \in {"send", "testSend"}
    BY <1>3 DEF Send
  <2>3. SenderSound(d)' /\ RecordSound(d)'
    BY <1>0, <2>1, <2>2, NoRecordFields
  <2>4. QED
    BY <1>0, <2>1, <2>3, SenderFramed
<1>4. CASE SaveDelivery(d)
  <2>1. /\ sender[d] \in {"save", "testSave"}
        /\ sender'[d] = IF d \in tests THEN "done" ELSE "count"
        /\ UNCHANGED <<outcome, tests, succeeded>>
    BY <1>0, <1>4 DEF SaveDelivery
  <2>2. SenderSound(d)' /\ RecordSound(d)'
    BY <1>0, <1>4, <2>1, SavedFields
  <2>3. QED
    BY <1>0, <2>1, <2>2, SenderFramed
<1>5. CASE CountResult(d)
  <2>1. /\ sender[d] = "count" /\ UNCHANGED <<record, outcome, tests, succeeded>>
        /\ sender'[d] = IF outcome[d].success THEN "done" ELSE "check"
    BY <1>0, <1>5 DEF CountResult
  <2>2. SenderSound(d)' /\ RecordSound(d)'
    BY <1>0, <2>1
  <2>3. QED
    BY <1>0, <2>1, <2>2, SenderFramed
<1>6. CASE CheckLimit(d)
  <2>1. /\ sender[d] = "check" /\ UNCHANGED <<record, outcome, tests, succeeded>>
        /\ sender'[d] \in {"disable", "schedule"}
    BY <1>0, <1>6 DEF CheckLimit
  <2>2. SenderSound(d)' /\ RecordSound(d)'
    BY <1>0, <2>1
  <2>3. QED
    BY <1>0, <2>1, <2>2, SenderFramed
<1>7. CASE DisableWebhook(d)
  <2>1. /\ sender[d] = "disable" /\ UNCHANGED <<record, outcome, tests, succeeded>>
        /\ sender'[d] = "schedule"
    BY <1>0, <1>7 DEF DisableWebhook
  <2>2. SenderSound(d)' /\ RecordSound(d)'
    BY <1>0, <2>1
  <2>3. QED
    BY <1>0, <2>1, <2>2, SenderFramed
<1>8. CASE ScheduleRetry(d)
  <2>1. /\ sender[d] = "schedule" /\ UNCHANGED <<outcome, tests, succeeded>>
        /\ sender'[d] = "done" /\ record' = [record EXCEPT ![d].next = "later"]
    BY <1>0, <1>8 DEF ScheduleRetry
  <2>2. "later" \in Times
    BY DEF Times
  <2>3. SenderSound(d)' /\ RecordSound(d)'
    BY <1>0, <2>1, <2>2, TimedFields
  <2>4. QED
    BY <1>0, <2>1, <2>3, SenderFramed
<1>9. CASE Due(d)
  <2>1. /\ record[d].next = "later" /\ record' = [record EXCEPT ![d].next = "due"]
        /\ UNCHANGED <<sender, outcome, tests, succeeded>>
        /\ UNCHANGED <<retrier, batch, current, copy>>
    BY <1>9 DEF Due
  <2>2. "due" \in Times
    BY DEF Times
  <2>3. SenderSound(d)' /\ RecordSound(d)'
    BY <1>0, <2>1, <2>2, TimedFields
  <2>4. \A x \in Delivery \ {d} : SenderSound(x)' /\ RecordSound(x)'
    BY <1>0, <2>1 DEF Sound
  <2>5. \A r \in Retrier : RetrierSound(r)'
    BY <2>1 DEF Sound, RetrierSound
  <2>6. QED
    BY <2>3, <2>4, <2>5 DEF Sound
<1>10. QED
  BY <1>1, <1>2, <1>3, <1>4, <1>5, <1>6, <1>7, <1>8, <1>9 DEF DeliverStep

\* The rest of the state as a step of the handler's goroutine r leaves it.
RetrierFrame(r) ==
    /\ UNCHANGED <<sender, outcome, tests>>
    /\ \A s \in Retrier \ {r} :
          /\ retrier'[s] = retrier[s] /\ batch'[s] = batch[s]
          /\ current'[s] = current[s] /\ copy'[s] = copy[s]
    /\ \A x \in Delivery :
          record'[x] # record[x] \/ (x \in succeeded') # (x \in succeeded)
              => retrier[r] \in Busy /\ x = current[r]

\* Each step of the handler leaves the other goroutines and deliveries alone.
LEMMA RetrierLocal ==
    ASSUME Typed, NEW r \in Retrier, Process(r)
    PROVE  RetrierFrame(r)
<1> USE DEF service, handler, retry, RetryStep, Typed, RetrierFrame, Busy
<1>1. CASE GetFailedDeliveries(r)
  <2>1. PICK b : batch' = [batch EXCEPT ![r] = b]
    BY <1>1 DEF GetFailedDeliveries
  <2>2. PICK l : retrier' = [retrier EXCEPT ![r] = l]
    BY <1>1 DEF GetFailedDeliveries
  <2>3. UNCHANGED <<sender, outcome, tests, record, current, copy, succeeded>>
    BY <1>1 DEF GetFailedDeliveries
  <2>4. QED
    BY <2>1, <2>2, <2>3
<1>2. CASE NextDelivery(r)
  BY <1>2 DEF NextDelivery
<1>3. CASE CheckWebhook(r)
  BY <1>3 DEF CheckWebhook
<1>4. CASE GetDelivery(r)
  BY <1>4 DEF GetDelivery
<1>5. CASE ClearSave(r)
  BY <1>5 DEF ClearSave
<1>6. CASE RetryWebhook(r)
  BY <1>6 DEF RetryWebhook
<1>7. CASE RetrySave(r)
  BY <1>7 DEF RetrySave
<1>8. CASE Poll(r)
  BY <1>8 DEF Poll
<1>9. ASSUME NEW o \in Outcome, RetrySend(r, o) PROVE RetrierFrame(r)
  BY <1>9 DEF RetrySend
<1>10. QED
  BY <1>1, <1>2, <1>3, <1>4, <1>5, <1>6, <1>7, <1>8, <1>9 DEF Process

\* Such a step keeps Sound if its goroutine and its delivery stay sound.
LEMMA RetrierFramed ==
    ASSUME Typed, Sound, NEW r \in Retrier, RetrierFrame(r), RetrierSound(r)',
           \A x \in Delivery : retrier[r] \in Busy /\ x = current[r] => RecordSound(x)'
    PROVE  Sound'
<1>1. ASSUME NEW x \in Delivery PROVE SenderSound(x)' /\ RecordSound(x)'
  <2>1. CASE record'[x] = record[x] /\ (x \in succeeded') = (x \in succeeded)
    BY <2>1 DEF Sound, SenderSound, RecordSound, RetrierFrame
  <2>2. CASE ~(record'[x] = record[x] /\ (x \in succeeded') = (x \in succeeded))
    <3>1. retrier[r] \in Busy /\ x = current[r]
      BY <2>2 DEF RetrierFrame
    <3>2. sender'[x] = "done"
      BY <3>1 DEF RetrierFrame, Sound, RetrierSound
    <3>3. SenderSound(x)'
      BY <3>2 DEF SenderSound, Unsaved, Saved, Failed
    <3>4. QED
      BY <3>1, <3>3
  <2>3. QED
    BY <2>1, <2>2
<1>2. ASSUME NEW s \in Retrier, s # r PROVE RetrierSound(s)'
  BY <1>2 DEF Sound, RetrierSound, RetrierFrame
<1>3. QED
  BY <1>1, <1>2 DEF Sound

\* A step of the handler keeps Sound.
LEMMA SoundRetrier ==
    ASSUME Typed, Sound, NEW r \in Retrier, Process(r)
    PROVE  Sound'
<1> USE DEF service, handler, retry, RetryStep
<1>0. /\ RetrierFrame(r) /\ RetrierSound(r) /\ Typed'
      /\ retrier \in [Retrier -> Places] /\ batch \in [Retrier -> SUBSET (Delivery \X Nat)]
      /\ current \in [Retrier -> Delivery \cup {NoDelivery}] /\ copy \in [Retrier -> Records]
      /\ record \in [Delivery -> Records]
  BY RetrierLocal, TypedRetrier DEF Sound, Typed
<1>a. \A d \in Delivery : SenderSound(d) /\ RecordSound(d)
  BY DEF Sound
<1>k. ASSUME UNCHANGED record
      PROVE  \A x \in Delivery : RecordSound(x)'
  BY <1>0, <1>a, <1>k DEF RecordSound, RetrierFrame
<1> USE DEF Busy, Copied
<1>1. CASE GetFailedDeliveries(r)
  <2>1. PICK T \in Batches({d \in Delivery : Retryable(d) /\ rounds[d] < MaxRounds}) :
            /\ batch' = [batch EXCEPT ![r] = {<<d, record[d].attempts>> : d \in T}]
            /\ RetryStep(r, IF T = {} THEN "idle" ELSE "next")
    BY <1>1 DEF GetFailedDeliveries
  <2>2. T \subseteq Delivery /\ \A d \in T : Retryable(d)
    BY ChosenReady
  <2>3. \A d \in T : sender[d] = "done" /\ d \notin tests
    BY <1>a, <2>2 DEF Retryable, RecordSound
  <2>4. \A e \in batch'[r] : e[1] \in T
    BY <1>0, <2>1
  <2>5. retrier'[r] \in {"idle", "next"} /\ UNCHANGED <<record, sender, tests>>
    BY <1>0, <1>1, <2>1 DEF GetFailedDeliveries
  <2>6. RetrierSound(r)'
    BY <2>3, <2>4, <2>5 DEF RetrierSound
  <2>7. QED
    BY <1>0, <1>k, <2>5, <2>6, RetrierFramed
<1>2. CASE NextDelivery(r)
  <2>0. UNCHANGED <<record, sender, tests>>
    BY <1>2 DEF NextDelivery
  <2>1. ASSUME NEW e \in batch[r], batch' = [batch EXCEPT ![r] = @ \ {e}],
               current' = [current EXCEPT ![r] = e[1]],
               RetryStep(r, IF e[2] >= MaxRetries THEN "clearGet" ELSE "webhook")
        PROVE  RetrierSound(r)'
    <3>1. e[1] \in Delivery /\ sender[e[1]] = "done" /\ e[1] \notin tests
      BY <1>0 DEF RetrierSound
    <3>2. /\ batch'[r] \subseteq batch[r] /\ current'[r] = e[1]
          /\ retrier'[r] \in {"clearGet", "webhook"}
      BY <1>0, <2>1
    <3>3. QED
      BY <1>0, <2>0, <3>1, <3>2 DEF RetrierSound
  <2>2. ASSUME RetryStep(r, "idle"), UNCHANGED batch
        PROVE  RetrierSound(r)'
    BY <1>0, <2>0, <2>2 DEF RetrierSound
  <2>3. RetrierSound(r)'
    BY <1>2, <2>1, <2>2 DEF NextDelivery
  <2>4. QED
    BY <1>0, <1>k, <2>0, <2>3, RetrierFramed
<1>3. CASE CheckWebhook(r)
  <2>1. /\ UNCHANGED <<record, sender, tests, batch, current, copy>>
        /\ retrier[r] = "webhook" /\ retrier'[r] \in {"next", "retryGet", "clearGet"}
    BY <1>0, <1>3 DEF CheckWebhook, AfterInactive
  <2>2. RetrierSound(r)'
    BY <1>0, <2>1 DEF RetrierSound
  <2>3. QED
    BY <1>0, <1>k, <2>1, <2>2, RetrierFramed
<1>4. CASE GetDelivery(r)
  <2>1. /\ UNCHANGED <<record, sender, tests, batch, current>>
        /\ retrier[r] \in {"clearGet", "retryGet"} /\ retrier'[r] \in {"clearSave", "retryWebhook"}
        /\ copy'[r] = record[current[r]]
    BY <1>0, <1>4 DEF GetDelivery
  <2>2. current[r] \in Delivery /\ sender[current[r]] = "done"
    BY <1>0, <2>1 DEF RetrierSound
  <2>3. copy'[r].saved
    BY <1>a, <2>1, <2>2 DEF RecordSound
  <2>4. RetrierSound(r)'
    BY <1>0, <2>1, <2>3 DEF RetrierSound
  <2>5. QED
    BY <1>0, <1>k, <2>1, <2>4, RetrierFramed
<1>5. CASE ClearSave(r)
  <2>1. /\ UNCHANGED <<sender, tests, batch, current>>
        /\ retrier[r] = "clearSave" /\ retrier'[r] = "next"
        /\ record' = [record EXCEPT ![current[r]] = [copy[r] EXCEPT !.next = "none"]]
    BY <1>0, <1>5 DEF ClearSave
  <2>2. current[r] \in Delivery /\ sender[current[r]] = "done" /\ copy[r].saved
    BY <1>0, <2>1 DEF RetrierSound
  <2>3. "none" \in Times /\ copy[r] \in Records
    BY <1>0 DEF Times
  <2>4. LET y == [copy[r] EXCEPT !.next = "none"]
        IN  y.saved = copy[r].saved /\ y.next = "none"
    BY <2>3, RecordTimed
  <2>5. record'[current[r]].saved /\ record'[current[r]].next = "none"
    BY <1>0, <2>1, <2>2, <2>4
  <2>6. RecordSound(current[r])'
    BY <2>1, <2>2, <2>5 DEF RecordSound
  <2>7. RetrierSound(r)'
    BY <1>0, <2>1 DEF RetrierSound
  <2>8. \A x \in Delivery : x = current[r] => RecordSound(x)'
    BY <2>1, <2>6
  <2>9. QED
    BY <1>0, <2>7, <2>8, RetrierFramed
<1>6. CASE RetryWebhook(r)
  <2>1. /\ UNCHANGED <<record, sender, tests, batch, current, copy>>
        /\ retrier[r] = "retryWebhook" /\ retrier'[r] \in {"send", "poll"}
    BY <1>0, <1>6 DEF RetryWebhook
  <2>2. RetrierSound(r)'
    BY <1>0, <2>1 DEF RetrierSound
  <2>3. QED
    BY <1>0, <1>k, <2>1, <2>2, RetrierFramed
<1>7. CASE RetrySave(r)
  <2>1. /\ UNCHANGED <<sender, tests, batch, current, copy>>
        /\ retrier[r] = "save" /\ retrier'[r] = "poll"
        /\ record' = [record EXCEPT ![current[r]] = copy[r]]
    BY <1>0, <1>7 DEF RetrySave
  <2>2. \A x \in Delivery : x = current[r] => RecordSound(x)'
    BY <1>0, <2>1 DEF RetrierSound, RecordSound
  <2>3. RetrierSound(r)'
    BY <1>0, <2>1 DEF RetrierSound
  <2>4. QED
    BY <1>0, <2>2, <2>3, RetrierFramed
<1>8. CASE Poll(r)
  <2>1. /\ UNCHANGED <<record, sender, tests>>
        /\ retrier'[r] \in {"idle", "next"} /\ batch'[r] \subseteq batch[r]
    BY <1>0, <1>8 DEF Poll
  <2>2. RetrierSound(r)'
    BY <1>0, <2>1 DEF RetrierSound
  <2>3. QED
    BY <1>0, <1>k, <2>1, <2>2, RetrierFramed
<1>9. ASSUME NEW o \in Outcome, RetrySend(r, o) PROVE Sound'
  <2>1. /\ UNCHANGED <<record, sender, tests, batch, current>>
        /\ retrier[r] = "send" /\ retrier'[r] = "save"
        /\ copy' = [copy EXCEPT ![r] = Retried(copy[r], o)]
    BY <1>0, <1>9 DEF RetrySend, Retried
  <2>2. copy'[r] = Retried(copy[r], o)
    BY <1>0, <2>1
  <2>3. copy'[r].saved = copy[r].saved /\ (copy'[r].success => copy'[r].next = "none")
    BY <1>0, <2>2, RetriedFields
  <2>4. RetrierSound(r)'
    BY <1>0, <2>1, <2>3 DEF RetrierSound
  <2>5. QED
    BY <1>0, <1>k, <2>1, <2>4, RetrierFramed
<1>10. QED
  BY <1>1, <1>2, <1>3, <1>4, <1>5, <1>6, <1>7, <1>8, <1>9 DEF Process

\* Steps of the owner, of Start, Stop and the ticker, and TriggerNow.
Elsewhere ==
    \/ UNCHANGED vars
    \/ \E active \in BOOLEAN : UpdateWebhook(active)
    \/ DeleteWebhook \/ Start \/ Stop \/ Tick \/ LoopEnds
    \/ \E r \in Trigger : TriggerNow(r)

\* They touch no delivery, and start or end goroutines only.
LEMMA ElsewhereLocal ==
    ASSUME Typed, Elsewhere
    PROVE  /\ UNCHANGED <<record, sender, outcome, tests, succeeded, batch, current, copy, rounds>>
           /\ \A r \in Retrier : retrier'[r] = retrier[r] \/ retrier'[r] \in {"idle", "query", "exited"}
           /\ wasInactive => wasInactive'
<1> USE DEF service, handler, retry, RetryStep
<1>1. CASE UNCHANGED vars
  BY <1>1 DEF vars
<1>2. ASSUME NEW active \in BOOLEAN, UpdateWebhook(active)
      PROVE  UNCHANGED <<record, service, retry, succeeded, rounds>> /\ (wasInactive => wasInactive')
  BY <1>2 DEF UpdateWebhook
<1>3. CASE DeleteWebhook
  BY <1>3 DEF DeleteWebhook
<1>4. CASE Start
  BY <1>4 DEF Start, Typed, Retrier
<1>5. CASE Stop
  BY <1>5 DEF Stop
<1>6. CASE Tick
  BY <1>6 DEF Tick, Typed, Retrier
<1>7. CASE LoopEnds
  BY <1>7 DEF LoopEnds, Typed, Retrier
<1>8. ASSUME NEW r \in Trigger, TriggerNow(r)
      PROVE  /\ UNCHANGED <<record, sender, outcome, tests, succeeded, batch, current, copy, rounds>>
             /\ \A s \in Retrier : retrier'[s] = retrier[s] \/ retrier'[s] = "query"
             /\ wasInactive => wasInactive'
  BY <1>8 DEF TriggerNow, Typed, Retrier
<1>9. QED
  BY <1>1, <1>2, <1>3, <1>4, <1>5, <1>6, <1>7, <1>8 DEF Elsewhere

\* Every step is one of the service, of the handler, or neither.
LEMMA Steps ==
    ASSUME [Next]_vars
    PROVE  \/ Elsewhere
           \/ \E d \in Delivery : Deliver(d) \/ SendTest(d) \/ DeliverStep(d) \/ Due(d)
           \/ \E r \in Retrier : Process(r)
  BY DEF Next, Terminating, Elsewhere

\* Every step keeps Sound.
LEMMA SoundNext == Typed /\ Sound /\ [Next]_vars => Sound'
<1> SUFFICES ASSUME Typed, Sound, [Next]_vars PROVE Sound'
  OBVIOUS
<1>1. CASE Elsewhere
  <2>1. \A d \in Delivery : SenderSound(d)' /\ RecordSound(d)'
    BY <1>1, ElsewhereLocal DEF Sound, SenderSound, RecordSound
  <2>2. \A r \in Retrier : RetrierSound(r)'
    BY <1>1, ElsewhereLocal DEF Sound, RetrierSound, Busy, Copied
  <2>3. QED
    BY <2>1, <2>2 DEF Sound
<1>2. QED
  BY <1>1, Steps, SoundSender, SoundRetrier

-----------------------------------------------------------------------------
(* Giving up *)

\* At first nothing has been given up.
LEMMA FairInit == Init => Fair
<1> SUFFICES ASSUME Init PROVE Fair
  OBVIOUS
<1>1. ASSUME NEW d \in Delivery PROVE Justified(d)
  BY NoRecordFields DEF Init, Justified
<1>2. ASSUME NEW r \in Retrier PROVE HandlesFairly(r)
  BY DEF Init, HandlesFairly, Retrying, Copied
<1>3. webhook.active
  BY DEF Init
<1>4. QED
  BY <1>1, <1>2, <1>3 DEF Fair

\* A webhook that is not active has been seen inactive, after every step.
LEMMA InactiveSeen ==
    ASSUME Typed, Fair, [Next]_vars
    PROVE  (wasInactive => wasInactive') /\ (~webhook'.active => wasInactive')
<1> USE DEF service, handler, retry, RetryStep, SenderStep
<1>0. ~webhook.active => wasInactive
  BY DEF Fair
<1>w. /\ webhook \in Webhooks
      /\ \A b \in BOOLEAN : [webhook EXCEPT !.active = b].active = b
      /\ [webhook EXCEPT !.exists = FALSE].active = webhook.active
      /\ \A n \in Nat : [webhook EXCEPT !.failures = n].active = webhook.active
  BY DEF Typed, Webhooks
<1>1. CASE UNCHANGED <<webhook, wasInactive>>
  BY <1>0, <1>1
<1>2. ASSUME NEW active \in BOOLEAN, UpdateWebhook(active)
      PROVE  (wasInactive => wasInactive') /\ (~webhook'.active => wasInactive')
  BY <1>w, <1>2 DEF UpdateWebhook
<1>3. CASE DeleteWebhook
  BY <1>0, <1>w, <1>3 DEF DeleteWebhook
<1>4. ASSUME NEW d \in Delivery, CountResult(d)
      PROVE  (wasInactive => wasInactive') /\ (~webhook'.active => wasInactive')
  <2>1. webhook'.active = webhook.active
    <3>1. CASE ~Found
      BY <1>4, <3>1 DEF CountResult
    <3>2. CASE Found
      <4>1. webhook' = [webhook EXCEPT !.failures = IF outcome[d].success THEN 0 ELSE @ + 1]
        BY <1>4, <3>2 DEF CountResult
      <4>2. QED
        BY <1>w, <4>1 DEF Webhooks
    <3>3. QED
      BY <3>1, <3>2
  <2>2. QED
    BY <1>0, <1>4, <2>1 DEF CountResult
<1>5. ASSUME NEW d \in Delivery, DisableWebhook(d)
      PROVE  (wasInactive => wasInactive') /\ (~webhook'.active => wasInactive')
  BY <1>0, <1>w, <1>5 DEF DisableWebhook
<1>6. CASE UNCHANGED vars \/ Start \/ Stop \/ Tick \/ LoopEnds \/ \E r \in Trigger : TriggerNow(r)
  BY <1>1, <1>6 DEF vars, Start, Stop, Tick, LoopEnds, TriggerNow
<1>7. ASSUME NEW d \in Delivery,
             \/ Deliver(d) \/ SendTest(d) \/ Due(d) \/ \E o \in Outcome : Send(d, o)
             \/ SaveDelivery(d) \/ CheckLimit(d) \/ ScheduleRetry(d)
      PROVE  UNCHANGED <<webhook, wasInactive>>
  BY <1>7 DEF Deliver, SendTest, Due, Send, SaveDelivery, CheckLimit, ScheduleRetry
<1>8. ASSUME NEW r \in Retrier, Process(r)
      PROVE  UNCHANGED <<webhook, wasInactive>>
  BY <1>8 DEF Process, GetFailedDeliveries, NextDelivery, CheckWebhook, GetDelivery, ClearSave,
              RetryWebhook, RetrySave, Poll, RetrySend
<1>9. QED
  BY <1>1, <1>2, <1>3, <1>4, <1>5, <1>6, <1>7, <1>8 DEF Next, DeliverStep, Terminating

\* A step of the service keeps Fair.
LEMMA FairSender ==
    ASSUME Typed, Sound, Fair, NEW d \in Delivery,
           Deliver(d) \/ SendTest(d) \/ DeliverStep(d) \/ Due(d), [Next]_vars
    PROVE  Fair'
<1> USE DEF service, handler, retry, SenderStep
<1>0. /\ SenderFrame(d) /\ SenderSound(d) /\ RecordSound(d) /\ Justified(d)
      /\ sender \in [Delivery -> Senders] /\ outcome \in [Delivery -> Outcome]
      /\ record \in [Delivery -> Records]
  BY SenderLocal DEF Sound, Fair, Typed
<1>w. (wasInactive => wasInactive') /\ (~webhook'.active => wasInactive')
  BY InactiveSeen
<1>1. \A x \in Delivery \ {d} : Justified(x)'
  BY <1>0, <1>w DEF Fair, Justified, Exhausted, SenderFrame
<1>2. Justified(d)' /\ (sender[d] = "done" => outcome'[d] = outcome[d])
  <2> USE DEF Justified, Exhausted, SenderSound, RecordSound, Unsaved, Saved, Failed
  <2>1. CASE Deliver(d) \/ SendTest(d)
    BY <1>0, <2>1, NoRecordFields DEF Deliver, SendTest
  <2>3. ASSUME NEW o \in Outcome, Send(d, o)
        PROVE  Justified(d)' /\ sender[d] # "done"
    <3>1. /\ sender[d] \in {"send", "testSend"} /\ record'[d] = record[d]
          /\ sender'[d] # "done"
      BY <1>0, <2>3 DEF Send
    <3>2. QED
      BY <1>0, <3>1, NoRecordFields
  <2>4. CASE SaveDelivery(d)
    <3>1. /\ sender[d] \in {"save", "testSave"}
          /\ sender'[d] = IF d \in tests THEN "done" ELSE "count"
          /\ UNCHANGED <<outcome, tests>>
      BY <1>0, <2>4 DEF SaveDelivery
    <3>2. QED
      BY <1>0, <2>4, <3>1, SavedFields
  <2>5. CASE CountResult(d)
    <3>1. /\ sender[d] = "count" /\ UNCHANGED <<record, outcome, tests>>
          /\ sender'[d] = IF outcome[d].success THEN "done" ELSE "check"
      BY <1>0, <2>5 DEF CountResult
    <3>2. QED
      BY <1>0, <3>1
  <2>6. CASE CheckLimit(d) \/ DisableWebhook(d)
    <3>1. /\ sender'[d] # "done" /\ UNCHANGED <<record, outcome, tests>>
      BY <1>0, <2>6 DEF CheckLimit, DisableWebhook
    <3>2. QED
      BY <1>0, <3>1
  <2>8. CASE ScheduleRetry(d)
    <3>1. /\ sender[d] = "schedule" /\ UNCHANGED <<outcome, tests>>
          /\ record' = [record EXCEPT ![d].next = "later"]
      BY <1>0, <2>8 DEF ScheduleRetry
    <3>2. "later" \in Times
      BY DEF Times
    <3>3. QED
      BY <1>0, <3>1, <3>2, TimedFields
  <2>9. CASE Due(d)
    <3>1. /\ record[d].next = "later" /\ record' = [record EXCEPT ![d].next = "due"]
          /\ UNCHANGED <<sender, outcome, tests>>
      BY <2>9 DEF Due
    <3>2. "due" \in Times
      BY DEF Times
    <3>3. QED
      BY <1>0, <3>1, <3>2, TimedFields
  <2>10. QED
    BY <2>1, <2>3, <2>4, <2>5, <2>6, <2>8, <2>9 DEF DeliverStep
<1>3. ASSUME NEW r \in Retrier PROVE HandlesFairly(r)'
  <2>1. \A x \in Delivery : sender[x] = "done" => outcome'[x] = outcome[x]
    BY <1>0, <1>2 DEF SenderFrame
  <2>2. \A e \in batch[r] : e[1] \in Delivery /\ sender[e[1]] = "done"
    BY DEF Typed, Sound, RetrierSound
  <2>3. retrier[r] \in Busy => current[r] \in Delivery /\ sender[current[r]] = "done"
    BY DEF Sound, RetrierSound
  <2>4. HandlesFairly(r) /\ UNCHANGED <<retrier, batch, current, copy>>
    BY <1>0 DEF Fair, SenderFrame
  <2>5. QED
    BY <1>w, <2>1, <2>2, <2>3, <2>4 DEF HandlesFairly, Exhausted, Retrying, Copied, Busy
<1>4. QED
  BY <1>w, <1>1, <1>2, <1>3 DEF Fair

\* A step of the handler keeps Fair if its goroutine and its delivery stay fair.
LEMMA FairFramed ==
    ASSUME Typed, Sound, Fair, NEW r \in Retrier, RetrierFrame(r), [Next]_vars, HandlesFairly(r)',
           \A x \in Delivery : retrier[r] \in Busy /\ x = current[r] => Justified(x)'
    PROVE  Fair'
<1>w. (wasInactive => wasInactive') /\ (~webhook'.active => wasInactive')
  BY InactiveSeen
<1>1. ASSUME NEW x \in Delivery PROVE Justified(x)'
  <2>1. CASE record'[x] = record[x]
    BY <1>w, <2>1 DEF Fair, Justified, Exhausted, RetrierFrame
  <2>2. CASE record'[x] # record[x]
    BY <2>2 DEF RetrierFrame
  <2>3. QED
    BY <2>1, <2>2
<1>2. ASSUME NEW s \in Retrier, s # r PROVE HandlesFairly(s)'
  BY <1>w, <1>2 DEF Fair, HandlesFairly, Exhausted, RetrierFrame
<1>3. QED
  BY <1>w, <1>1, <1>2 DEF Fair

\* A step of the handler keeps Fair: a delivery is cleared for an inactive webhook, or
\* because the service alone used up what the handler allows, and such a delivery is
\* never retried.
LEMMA FairRetrier ==
    ASSUME MaxAttempts <= MaxRetries,
           Typed, Sound, Fair, NEW r \in Retrier, Process(r), [Next]_vars
    PROVE  Fair'
<1> USE DEF service, handler, retry, RetryStep
<1>0. /\ RetrierFrame(r) /\ RetrierSound(r) /\ HandlesFairly(r) /\ Typed'
      /\ retrier \in [Retrier -> Places] /\ batch \in [Retrier -> SUBSET (Delivery \X Nat)]
      /\ current \in [Retrier -> Delivery \cup {NoDelivery}] /\ copy \in [Retrier -> Records]
      /\ record \in [Delivery -> Records] /\ outcome' = outcome
  BY RetrierLocal, TypedRetrier DEF Sound, Fair, Typed, RetrierFrame
<1>a. \A d \in Delivery : RecordSound(d) /\ Justified(d)
  BY DEF Sound, Fair
<1>w. (wasInactive => wasInactive') /\ (~webhook.active => wasInactive)
  BY InactiveSeen DEF Fair
<1>k. ASSUME UNCHANGED record
      PROVE  \A x \in Delivery : Justified(x)'
  BY <1>0, <1>a, <1>w, <1>k DEF Justified, Exhausted, RetrierFrame
<1>m. MaxAttempts \in Nat /\ MaxRetries \in Nat
  BY WebhookAssumption
<1> USE DEF Busy, Copied, Retrying
<1>1. CASE GetFailedDeliveries(r)
  <2>1. PICK T \in Batches({d \in Delivery : Retryable(d) /\ rounds[d] < MaxRounds}) :
            /\ batch' = [batch EXCEPT ![r] = {<<d, record[d].attempts>> : d \in T}]
            /\ RetryStep(r, IF T = {} THEN "idle" ELSE "next")
    BY <1>1 DEF GetFailedDeliveries
  <2>2. T \subseteq Delivery /\ \A d \in T : Retryable(d)
    BY ChosenReady
  <2>3. \A d \in T : Exhausted(d) <=> record[d].attempts >= MaxRetries
    BY <1>a, <2>2 DEF Retryable, Justified
  <2>4. \A e \in batch'[r] : e[1] \in T /\ e[2] = record[e[1]].attempts
    BY <1>0, <2>1
  <2>5. retrier'[r] \in {"idle", "next"} /\ UNCHANGED record
    BY <1>0, <1>1, <2>1 DEF GetFailedDeliveries
  <2>6. HandlesFairly(r)'
    BY <1>0, <2>3, <2>4, <2>5 DEF HandlesFairly, Exhausted
  <2>7. QED
    BY <1>0, <1>k, <2>5, <2>6, FairFramed
<1>2. CASE NextDelivery(r)
  <2>0. UNCHANGED record
    BY <1>2 DEF NextDelivery
  <2>1. ASSUME NEW e \in batch[r], batch' = [batch EXCEPT ![r] = @ \ {e}],
               current' = [current EXCEPT ![r] = e[1]],
               RetryStep(r, IF e[2] >= MaxRetries THEN "clearGet" ELSE "webhook")
        PROVE  HandlesFairly(r)'
    <3>1. Exhausted(e[1]) <=> e[2] >= MaxRetries
      BY <1>0 DEF HandlesFairly
    <3>2. /\ batch'[r] \subseteq batch[r] /\ current'[r] = e[1]
          /\ retrier'[r] = IF e[2] >= MaxRetries THEN "clearGet" ELSE "webhook"
      BY <1>0, <2>1
    <3>3. QED
      BY <1>0, <3>1, <3>2 DEF HandlesFairly, Exhausted
  <2>2. ASSUME RetryStep(r, "idle"), UNCHANGED batch
        PROVE  HandlesFairly(r)'
    BY <1>0, <2>2 DEF HandlesFairly, Exhausted
  <2>3. HandlesFairly(r)'
    BY <1>2, <2>1, <2>2 DEF NextDelivery
  <2>4. QED
    BY <1>0, <1>k, <2>0, <2>3, FairFramed
<1>3. CASE CheckWebhook(r)
  <2>1. /\ UNCHANGED <<record, batch, current, copy>> /\ retrier[r] = "webhook"
        /\ retrier'[r] \in {"next", "retryGet", "clearGet"}
        /\ retrier'[r] = "clearGet" => ~webhook.active
    BY <1>0, <1>3 DEF CheckWebhook, AfterInactive
  <2>2. HandlesFairly(r)'
    BY <1>0, <1>w, <2>1 DEF HandlesFairly, Exhausted
  <2>3. QED
    BY <1>0, <1>k, <2>1, <2>2, FairFramed
<1>4. CASE GetDelivery(r)
  <2>1. /\ UNCHANGED <<record, batch, current>> /\ retrier[r] \in {"clearGet", "retryGet"}
        /\ retrier'[r] = IF retrier[r] = "clearGet" THEN "clearSave" ELSE "retryWebhook"
        /\ copy'[r] = record[current[r]]
    BY <1>0, <1>4 DEF GetDelivery
  <2>2. current[r] \in Delivery /\ sender[current[r]] = "done"
    BY <1>0, <2>1 DEF RetrierSound
  <2>3. Exhausted(current[r]) => copy'[r].attempts >= MaxRetries
    BY <1>a, <2>1, <2>2 DEF RecordSound, Justified
  <2>4. HandlesFairly(r)'
    BY <1>0, <1>w, <2>1, <2>3 DEF HandlesFairly, Exhausted
  <2>5. QED
    BY <1>0, <1>k, <2>1, <2>4, FairFramed
<1>5. CASE ClearSave(r)
  <2>1. /\ UNCHANGED <<batch, current, sender, tests>>
        /\ retrier[r] = "clearSave" /\ retrier'[r] = "next"
        /\ record' = [record EXCEPT ![current[r]] = [copy[r] EXCEPT !.next = "none"]]
    BY <1>0, <1>5 DEF ClearSave
  <2>2. current[r] \in Delivery
    BY <1>0, <2>1 DEF RetrierSound
  <2>3. "none" \in Times /\ copy[r] \in Records /\ copy[r].attempts \in Nat
    BY <1>0, RecordFields DEF Times
  <2>4. LET y == [copy[r] EXCEPT !.next = "none"]
        IN  y.attempts = copy[r].attempts /\ y.next = "none"
    BY <2>3, RecordTimed
  <2>5. record'[current[r]].attempts = copy[r].attempts /\ record'[current[r]].next = "none"
    BY <1>0, <2>1, <2>2, <2>4
  <2>6. /\ wasInactive \/ copy[r].attempts >= MaxRetries
        /\ Exhausted(current[r]) => copy[r].attempts >= MaxRetries
    BY <1>0, <2>1 DEF HandlesFairly
  <2>7. Justified(current[r])'
    BY <1>0, <1>w, <1>m, <2>1, <2>3, <2>5, <2>6 DEF Justified, Exhausted
  <2>8. \A x \in Delivery : x = current[r] => Justified(x)'
    BY <2>1, <2>7
  <2>9. HandlesFairly(r)'
    BY <1>0, <2>1 DEF HandlesFairly, Exhausted
  <2>10. QED
    BY <1>0, <2>8, <2>9, FairFramed
<1>6. CASE RetryWebhook(r)
  <2>1. /\ UNCHANGED <<record, batch, current, copy>>
        /\ retrier[r] = "retryWebhook" /\ retrier'[r] \in {"send", "poll"}
    BY <1>0, <1>6 DEF RetryWebhook
  <2>2. HandlesFairly(r)'
    BY <1>0, <2>1 DEF HandlesFairly, Exhausted
  <2>3. QED
    BY <1>0, <1>k, <2>1, <2>2, FairFramed
<1>7. CASE RetrySave(r)
  <2>1. /\ UNCHANGED <<batch, current, copy>> /\ retrier[r] = "save" /\ retrier'[r] = "poll"
        /\ record' = [record EXCEPT ![current[r]] = copy[r]]
    BY <1>0, <1>7 DEF RetrySave
  <2>2. current[r] \in Delivery /\ ~Exhausted(current[r]) /\ copy[r].attempts \in Nat
    BY <1>0, <2>1, RecordFields DEF RetrierSound, HandlesFairly
  <2>3. /\ ~copy[r].success => (copy[r].next = "none" <=> copy[r].attempts >= MaxAttempts)
        /\ copy[r].next # "none" => ~copy[r].success
        /\ record'[current[r]] = copy[r]
    BY <1>0, <2>1, <2>2 DEF HandlesFairly, RetrierSound
  <2>4. Justified(current[r])'
    BY <1>0, <1>m, <2>1, <2>2, <2>3 DEF Justified, Exhausted
  <2>5. \A x \in Delivery : x = current[r] => Justified(x)'
    BY <2>1, <2>4
  <2>6. HandlesFairly(r)'
    BY <1>0, <2>1 DEF HandlesFairly, Exhausted
  <2>7. QED
    BY <1>0, <2>5, <2>6, FairFramed
<1>8. CASE Poll(r)
  <2>1. /\ UNCHANGED record
        /\ retrier'[r] \in {"idle", "next"} /\ batch'[r] \subseteq batch[r]
    BY <1>0, <1>8 DEF Poll
  <2>2. HandlesFairly(r)'
    BY <1>0, <2>1 DEF HandlesFairly, Exhausted
  <2>3. QED
    BY <1>0, <1>k, <2>1, <2>2, FairFramed
<1>9. ASSUME NEW o \in Outcome, RetrySend(r, o) PROVE Fair'
  <2>1. /\ UNCHANGED <<record, batch, current>>
        /\ retrier[r] = "send" /\ retrier'[r] = "save"
        /\ copy' = [copy EXCEPT ![r] = Retried(copy[r], o)]
    BY <1>0, <1>9 DEF RetrySend, Retried
  <2>2. copy'[r] = Retried(copy[r], o)
    BY <1>0, <2>1
  <2>3. ~copy'[r].success => (copy'[r].next = "none" <=> copy'[r].attempts >= MaxAttempts)
    BY <1>0, <2>2, RetriedFields
  <2>4. HandlesFairly(r)'
    BY <1>0, <2>1, <2>3 DEF HandlesFairly, Exhausted
  <2>5. QED
    BY <1>0, <1>k, <2>1, <2>4, FairFramed
<1>10. QED
  BY <1>1, <1>2, <1>3, <1>4, <1>5, <1>6, <1>7, <1>8, <1>9 DEF Process

\* Every step keeps Fair.
LEMMA FairNext ==
    ASSUME MaxAttempts <= MaxRetries
    PROVE  Typed /\ Sound /\ Fair /\ [Next]_vars => Fair'
<1> SUFFICES ASSUME Typed, Sound, Fair, [Next]_vars PROVE Fair'
  OBVIOUS
<1>1. CASE Elsewhere
  <2>1. (wasInactive => wasInactive') /\ (~webhook'.active => wasInactive')
    BY InactiveSeen
  <2>2. \A d \in Delivery : Justified(d)'
    BY <1>1, <2>1, ElsewhereLocal DEF Fair, Justified, Exhausted
  <2>3. \A r \in Retrier : HandlesFairly(r)'
    BY <1>1, <2>1, ElsewhereLocal DEF Fair, HandlesFairly, Exhausted, Retrying, Copied
  <2>4. QED
    BY <2>1, <2>2, <2>3 DEF Fair
<1>2. QED
  BY <1>1, Steps, FairSender, FairRetrier

-----------------------------------------------------------------------------
(* The failure limit *)

\* A webhook at its limit, as LimitDisables has it.
AtLimit ==
    FoundActive /\ webhook.failures >= MaxFailureCount
        => reenabled \/ \E d \in Delivery : sender[d] \in {"check", "disable"}

\* Every step keeps it: the delivery that makes the count reach the limit goes on to look
\* at it, and leaves only by disabling the webhook, or when the count is lower.
LEMMA LimitNext == Typed /\ AtLimit /\ [Next]_vars => AtLimit'
<1> SUFFICES ASSUME Typed, AtLimit, [Next]_vars PROVE AtLimit'
  OBVIOUS
<1> USE DEF service, handler, retry, RetryStep, SenderStep
<1>0. webhook \in Webhooks /\ sender \in [Delivery -> Senders] /\ MaxFailureCount \in Nat \ {0}
  BY WebhookAssumption DEF Typed
<1>1. CASE UNCHANGED <<webhook, sender, reenabled>>
  BY <1>1 DEF AtLimit, FoundActive
<1>2. ASSUME NEW active \in BOOLEAN, UpdateWebhook(active) PROVE AtLimit'
  BY <1>0, <1>2 DEF UpdateWebhook, AtLimit, FoundActive, Webhooks
<1>3. CASE DeleteWebhook
  BY <1>0, <1>3 DEF DeleteWebhook, AtLimit, FoundActive, Webhooks
<1>4. CASE UNCHANGED vars \/ Start \/ Stop \/ Tick \/ LoopEnds \/ \E r \in Trigger : TriggerNow(r)
  BY <1>1, <1>4 DEF vars, Start, Stop, Tick, LoopEnds, TriggerNow
<1>5. ASSUME NEW d \in Delivery, Deliver(d) \/ SendTest(d) \/ DeliverStep(d) \/ Due(d)
      PROVE  AtLimit'
  <2>1. CASE /\ UNCHANGED <<webhook, reenabled>> /\ sender[d] \notin {"check", "disable"}
             /\ \E l : sender' = [sender EXCEPT ![d] = l]
    BY <1>0, <2>1 DEF AtLimit, FoundActive
  <2>2. ASSUME \/ Deliver(d) \/ SendTest(d) \/ \E o \in Outcome : Send(d, o)
               \/ SaveDelivery(d) \/ ScheduleRetry(d)
        PROVE  /\ UNCHANGED <<webhook, reenabled>> /\ sender[d] \notin {"check", "disable"}
               /\ \E l : sender' = [sender EXCEPT ![d] = l]
    BY <2>2 DEF Deliver, SendTest, Send, SaveDelivery, ScheduleRetry
  <2>3. CASE CountResult(d)
    <3>1. CASE ~outcome[d].success
      BY <1>0, <2>3, <3>1 DEF CountResult, AtLimit
    <3>2. CASE outcome[d].success /\ Found
      <4>1. webhook'.failures = 0
        BY <1>0, <2>3, <3>2 DEF CountResult, Webhooks
      <4>2. QED
        BY <1>0, <4>1 DEF AtLimit
    <3>3. CASE ~Found
      BY <1>0, <2>3, <3>3 DEF CountResult, AtLimit, FoundActive, Found
    <3>4. QED
      BY <3>1, <3>2, <3>3
  <2>4. CASE CheckLimit(d)
    <3>1. CASE Found /\ LimitReached
      BY <1>0, <2>4, <3>1 DEF CheckLimit, AtLimit
    <3>2. CASE ~(Found /\ LimitReached)
      BY <1>0, <2>4, <3>2 DEF CheckLimit, AtLimit, FoundActive, Found, LimitReached
    <3>3. QED
      BY <3>1, <3>2
  <2>5. CASE DisableWebhook(d)
    <3>1. ~(webhook'.exists /\ webhook'.active)
      BY <1>0, <2>5 DEF DisableWebhook, Found, Webhooks
    <3>2. QED
      BY <3>1 DEF AtLimit, FoundActive
  <2>6. CASE Due(d)
    BY <1>1, <2>6 DEF Due
  <2>7. QED
    BY <1>5, <2>1, <2>2, <2>3, <2>4, <2>5, <2>6 DEF DeliverStep
<1>6. ASSUME NEW r \in Retrier, Process(r)
      PROVE  UNCHANGED <<webhook, sender, reenabled>>
  BY <1>6 DEF Process, GetFailedDeliveries, NextDelivery, CheckWebhook, GetDelivery, ClearSave,
              RetryWebhook, RetrySave, Poll, RetrySend
<1>7. QED
  BY <1>1, <1>2, <1>3, <1>4, <1>5, <1>6 DEF Next, Terminating

-----------------------------------------------------------------------------
(* Bounds *)

\* The sets that are counted are finite, and grow only if their cardinality does.
LEMMA CountedFinite ==
    /\ IsFiniteSet(Delivery) /\ IsFiniteSet(Counted) /\ IsFiniteSet(Counted')
    /\ IsFiniteSet(Retrier) /\ IsFiniteSet(Spent) /\ IsFiniteSet(Spent')
    /\ Cardinality(Counted) \in Nat /\ Cardinality(Counted') \in Nat
    /\ Cardinality(Counted) <= Cardinality(Delivery)
    /\ Cardinality(Spent) \in Nat /\ Cardinality(Spent') \in Nat
    /\ Cardinality(Spent) <= Cardinality(Retrier)
    /\ Cardinality(Delivery) \in Nat /\ Cardinality(Retrier) \in Nat
<1>1. IsFiniteSet(Delivery) /\ IsFiniteSet(Trigger)
  BY WebhookAssumption
<1>2. IsFiniteSet({Loop} \cup Trigger)
  BY <1>1, FS_Singleton, FS_Union
<1>3. IsFiniteSet(Retrier)
  BY <1>2 DEF Retrier
<1>4. Counted \in SUBSET Delivery /\ Counted' \in SUBSET Delivery
  BY DEF Counted
<1>5. Spent \in SUBSET Retrier /\ Spent' \in SUBSET Retrier
  BY DEF Spent
<1>6. /\ IsFiniteSet(Counted) /\ IsFiniteSet(Counted')
      /\ Cardinality(Counted) <= Cardinality(Delivery)
  BY <1>1, <1>4, FS_Subset
<1>7. /\ IsFiniteSet(Spent) /\ IsFiniteSet(Spent')
      /\ Cardinality(Spent) <= Cardinality(Retrier)
  BY <1>3, <1>5, FS_Subset
<1>8. QED
  BY <1>1, <1>3, <1>6, <1>7, FS_CardinalityType

\* At first the bounds hold.
LEMMA BoundedInit == Init => Bounded
<1> SUFFICES ASSUME Init PROVE Bounded
  OBVIOUS
<1>1. webhook.failures = 0 /\ cancelled = FALSE /\ running = FALSE
  BY DEF Init
<1>2. /\ \A d \in Delivery : record[d].attempts = 0
      /\ \A r \in Retrier : copy[r].attempts = 0 /\ batch[r] = {}
  BY NoRecordFields DEF Init
<1>3. MaxAttempts \in Nat /\ BatchSize \in Nat
  BY WebhookAssumption
<1>4. webhook.failures <= Cardinality(Counted)
  BY <1>1, CountedFinite
<1>5. Slack = 0
  BY <1>1 DEF Slack
<1>6. /\ \A d \in Delivery : record[d].attempts <= MaxAttempts + Slack
      /\ \A r \in Retrier : copy[r].attempts <= MaxAttempts + Slack
  BY <1>2, <1>3, <1>5
<1>7. \A r \in Retrier : IsFiniteSet(batch[r]) /\ Cardinality(batch[r]) <= BatchSize
  BY <1>2, <1>3, FS_EmptySet
<1>8. QED
  BY <1>1, <1>4, <1>6, <1>7 DEF Bounded

\* A step for which the count of failures does not exceed the counted deliveries.
LEMMA FailuresCounted ==
    ASSUME Typed, Bounded, [Next]_vars
    PROVE  webhook'.failures <= Cardinality(Counted')
<1> USE DEF service, handler, retry, RetryStep, SenderStep
<1>0. /\ webhook \in Webhooks /\ webhook.failures \in Nat /\ sender \in [Delivery -> Senders]
      /\ webhook.failures <= Cardinality(Counted)
  BY WebhookFields DEF Typed, Bounded
<1>k. ASSUME Counted \subseteq Counted', webhook'.failures = webhook.failures
      PROVE  webhook'.failures <= Cardinality(Counted')
  <2>1. Cardinality(Counted) <= Cardinality(Counted')
    BY <1>k, CountedFinite, FS_Subset
  <2>2. QED
    BY <1>0, <1>k, <2>1, CountedFinite
<1>1. CASE UNCHANGED <<webhook, sender>>
  BY <1>k, <1>1 DEF Counted
<1>2. ASSUME NEW active \in BOOLEAN, UpdateWebhook(active)
      PROVE  webhook'.failures <= Cardinality(Counted')
  BY <1>0, <1>k, <1>2 DEF UpdateWebhook, Webhooks, Counted
<1>3. CASE DeleteWebhook
  BY <1>0, <1>k, <1>3 DEF DeleteWebhook, Webhooks, Counted
<1>4. CASE UNCHANGED vars \/ Start \/ Stop \/ Tick \/ LoopEnds \/ \E r \in Trigger : TriggerNow(r)
  BY <1>1, <1>4 DEF vars, Start, Stop, Tick, LoopEnds, TriggerNow
<1>5. ASSUME NEW d \in Delivery, Deliver(d) \/ SendTest(d) \/ DeliverStep(d) \/ Due(d)
      PROVE  webhook'.failures <= Cardinality(Counted')
  <2>1. CASE CountResult(d)
    <3>1. d \notin Counted /\ Counted' = Counted \cup {d}
      BY <1>0, <2>1 DEF CountResult, Counted
    <3>2. Cardinality(Counted') = Cardinality(Counted) + 1
      BY <3>1, CountedFinite, FS_AddElement
    <3>3. webhook'.failures \in {0, webhook.failures, webhook.failures + 1}
      BY <1>0, <2>1 DEF CountResult, Webhooks
    <3>4. QED
      BY <1>0, <3>2, <3>3, CountedFinite
  <2>2. ASSUME ~CountResult(d)
        PROVE  Counted \subseteq Counted' /\ webhook'.failures = webhook.failures
    <3>1. CASE Deliver(d) \/ SendTest(d) \/ Due(d) \/ \E o \in Outcome : Send(d, o)
      BY <1>0, <3>1 DEF Deliver, SendTest, Due, Send, Counted
    <3>2. CASE SaveDelivery(d) \/ CheckLimit(d) \/ ScheduleRetry(d)
      BY <1>0, <3>2 DEF SaveDelivery, CheckLimit, ScheduleRetry, Counted
    <3>3. CASE DisableWebhook(d)
      <4>1. webhook' = webhook \/ webhook' = [webhook EXCEPT !.active = FALSE]
        BY <3>3 DEF DisableWebhook
      <4>2. webhook'.failures = webhook.failures
        BY <1>0, <4>1 DEF Webhooks
      <4>3. Counted \subseteq Counted'
        BY <1>0, <3>3 DEF DisableWebhook, Counted
      <4>4. QED
        BY <4>2, <4>3
    <3>4. QED
      BY <1>5, <2>2, <3>1, <3>2, <3>3 DEF DeliverStep
  <2>3. QED
    BY <1>k, <2>1, <2>2
<1>6. ASSUME NEW r \in Retrier, Process(r)
      PROVE  UNCHANGED <<webhook, sender>>
  BY <1>6 DEF Process, GetFailedDeliveries, NextDelivery, CheckWebhook, GetDelivery, ClearSave,
              RetryWebhook, RetrySave, Poll, RetrySend
<1>7. QED
  BY <1>1, <1>2, <1>3, <1>4, <1>5, <1>6 DEF Next, Terminating

\* The slack never shrinks: a cancelled handler starts nothing, and every goroutine that has
\* left its last retry behind comes to rest.
LEMMA SlackGrows ==
    ASSUME Typed, Bounded, [Next]_vars
    PROVE  /\ Slack \in Nat /\ Slack' \in Nat /\ Slack <= Slack'
           /\ cancelled' => ~running'
<1> USE DEF service, handler, retry, RetryStep, SenderStep
<1>0. /\ retrier \in [Retrier -> Places] /\ cancelled \in BOOLEAN /\ (cancelled => ~running)
      /\ Loop \in Retrier /\ Trigger \subseteq Retrier /\ running \in BOOLEAN
  BY DEF Typed, Bounded, Retrier
<1>1. /\ cancelled => cancelled'
      /\ cancelled' => ~running'
      /\ cancelled => Spent \subseteq Spent'
  <2>1. CASE UNCHANGED vars
    BY <1>0, <2>1 DEF vars, Spent
  <2>2. CASE \/ DeleteWebhook \/ Stop \/ LoopEnds
             \/ \E active \in BOOLEAN : UpdateWebhook(active)
    BY <1>0, <2>2 DEF DeleteWebhook, Stop, LoopEnds, UpdateWebhook, Spent
  <2>3. CASE Start \/ Tick \/ \E r \in Trigger : TriggerNow(r)
    BY <1>0, <2>3 DEF Start, Tick, TriggerNow
  <2>4. ASSUME NEW d \in Delivery, Deliver(d) \/ SendTest(d) \/ DeliverStep(d) \/ Due(d)
        PROVE  UNCHANGED <<retrier, cancelled, running>>
    BY <2>4 DEF Deliver, SendTest, DeliverStep, Due, Send, SaveDelivery, CountResult, CheckLimit,
                DisableWebhook, ScheduleRetry
  <2>5. ASSUME NEW r \in Retrier, Process(r)
        PROVE  /\ UNCHANGED <<cancelled, running>>
               /\ cancelled => Spent \subseteq Spent'
    <3>1. CASE Poll(r)
      BY <1>0, <3>1 DEF Poll, Spent
    <3>2. CASE RetrySave(r)
      BY <1>0, <3>2 DEF RetrySave, Spent
    <3>3. ASSUME Process(r), ~Poll(r), ~RetrySave(r)
          PROVE  /\ UNCHANGED <<cancelled, running>>
                 /\ retrier[r] \notin {"save", "poll", "idle", "exited"}
                 /\ \E l : retrier' = [retrier EXCEPT ![r] = l]
      BY <3>3 DEF Process, GetFailedDeliveries, NextDelivery, CheckWebhook, GetDelivery,
                  ClearSave, RetryWebhook, RetrySend
    <3>4. ASSUME retrier[r] \notin {"save", "poll", "idle", "exited"},
                 \E l : retrier' = [retrier EXCEPT ![r] = l]
          PROVE  Spent \subseteq Spent'
      BY <1>0, <3>4 DEF Spent
    <3>5. QED
      BY <2>5, <3>1, <3>2, <3>3, <3>4
  <2>6. QED
    BY <1>0, <2>1, <2>2, <2>3, <2>4, <2>5 DEF Next, Terminating, Spent
<1>2. cancelled => Cardinality(Spent) <= Cardinality(Spent')
  BY <1>1, CountedFinite, FS_Subset
<1>3. QED
  BY <1>0, <1>1, <1>2, CountedFinite DEF Slack

\* A batch as GetFailedDeliveries makes it is no larger than what was chosen.
LEMMA BatchSmall ==
    ASSUME NEW T, IsFiniteSet(T), Cardinality(T) <= BatchSize, NEW f
    PROVE  LET B == {<<d, f[d].attempts>> : d \in T}
           IN  IsFiniteSet(B) /\ Cardinality(B) <= BatchSize
<1> DEFINE B == {<<d, f[d].attempts>> : d \in T}
           g == [d \in T |-> <<d, f[d].attempts>>]
<1>1. g \in Surjection(T, B)
  BY DEF Surjection
<1>2. IsFiniteSet(B) /\ Cardinality(B) <= Cardinality(T)
  <2> HIDE DEF g, B
  <2>1. QED
    BY <1>1, FS_Surjection
<1>3. Cardinality(B) \in Nat /\ Cardinality(T) \in Nat /\ BatchSize \in Nat
  <2> HIDE DEF B
  <2>1. QED
    BY <1>2, FS_CardinalityType, WebhookAssumption
<1> HIDE DEF B
<1>4. IsFiniteSet(B) /\ Cardinality(B) <= BatchSize
  BY <1>2, <1>3
<1>5. QED
  BY <1>4 DEF B

\* Every step keeps the bounds on what a goroutine of the handler holds.
LEMMA BatchesBounded ==
    ASSUME Typed, Bounded, [Next]_vars, NEW r \in Retrier
    PROVE  IsFiniteSet(batch'[r]) /\ Cardinality(batch'[r]) <= BatchSize
<1> USE DEF service, handler, retry, RetryStep, SenderStep
<1>0. /\ batch \in [Retrier -> SUBSET (Delivery \X Nat)]
      /\ IsFiniteSet(batch[r]) /\ Cardinality(batch[r]) <= BatchSize
      /\ Cardinality(batch[r]) \in Nat /\ BatchSize \in Nat
  BY FS_CardinalityType, WebhookAssumption DEF Typed, Bounded
<1>k. ASSUME batch'[r] \subseteq batch[r]
      PROVE  IsFiniteSet(batch'[r]) /\ Cardinality(batch'[r]) <= BatchSize
  <2>1. IsFiniteSet(batch'[r]) /\ Cardinality(batch'[r]) <= Cardinality(batch[r])
    BY <1>0, <1>k, FS_Subset
  <2>2. QED
    BY <1>0, <2>1, FS_CardinalityType
<1>1. CASE Elsewhere
  BY <1>k, <1>1, ElsewhereLocal
<1>2. ASSUME NEW d \in Delivery, Deliver(d) \/ SendTest(d) \/ DeliverStep(d) \/ Due(d)
      PROVE  IsFiniteSet(batch'[r]) /\ Cardinality(batch'[r]) <= BatchSize
  BY <1>k, <1>2, SenderLocal DEF SenderFrame
<1>3. ASSUME NEW s \in Retrier, Process(s)
      PROVE  IsFiniteSet(batch'[r]) /\ Cardinality(batch'[r]) <= BatchSize
  <2>1. CASE s # r
    BY <1>k, <1>3, <2>1, RetrierLocal DEF RetrierFrame
  <2>2. CASE s = r /\ GetFailedDeliveries(r)
    <3>1. PICK T \in Batches({d \in Delivery : Retryable(d) /\ rounds[d] < MaxRounds}) :
              batch' = [batch EXCEPT ![r] = {<<d, record[d].attempts>> : d \in T}]
      BY <2>2 DEF GetFailedDeliveries
    <3>2. IsFiniteSet(T) /\ Cardinality(T) <= BatchSize
      BY ChosenReady
    <3>3. batch'[r] = {<<d, record[d].attempts>> : d \in T}
      BY <1>0, <3>1
    <3>4. QED
      BY <3>2, <3>3, BatchSmall
  <2>3. CASE s = r /\ ~GetFailedDeliveries(r)
    <3>1. batch'[r] \subseteq batch[r]
      <4>1. CASE NextDelivery(r) \/ Poll(r)
        BY <1>0, <4>1 DEF NextDelivery, Poll
      <4>2. CASE ~(NextDelivery(r) \/ Poll(r))
        BY <1>3, <2>3, <4>2 DEF Process, CheckWebhook, GetDelivery, ClearSave, RetryWebhook,
                                RetrySave, RetrySend
      <4>3. QED
        BY <4>1, <4>2
    <3>2. QED
      BY <1>k, <3>1
  <2>4. QED
    BY <2>1, <2>2, <2>3
<1>4. QED
  BY <1>1, <1>2, <1>3, Steps

\* Attempts up to a limit are within the limit and any slack.
LEMMA SlackRoom ==
    ASSUME NEW a \in Nat, NEW b \in Nat
    PROVE  0 <= a + b /\ \A m \in Nat : m <= a => m <= a + b
  OBVIOUS

\* Every step keeps the bound on attempts: only a goroutine of a cancelled handler adds to
\* them, and it has no second chance.
LEMMA AttemptsBounded ==
    ASSUME Typed, Sound, Bounded, [Next]_vars
    PROVE  /\ \A d \in Delivery : record'[d].attempts <= MaxAttempts + Slack'
           /\ \A r \in Retrier : copy'[r].attempts <= MaxAttempts + Slack'
<1> DEFINE Within(n) == n <= MaxAttempts + Slack'
           Good == /\ \A d \in Delivery : Within(record'[d].attempts)
                   /\ \A r \in Retrier : Within(copy'[r].attempts)
<1> SUFFICES Good
  OBVIOUS
<1> USE DEF service, handler, retry, RetryStep, SenderStep
<1>0. /\ Slack \in Nat /\ Slack' \in Nat /\ Slack <= Slack' /\ MaxAttempts \in Nat
      /\ record \in [Delivery -> Records] /\ copy \in [Retrier -> Records]
      /\ retrier \in [Retrier -> Places] /\ outcome \in [Delivery -> Outcome]
  BY SlackGrows, WebhookAssumption DEF Typed
<1>1. /\ \A d \in Delivery : record[d].attempts \in Nat /\ Within(record[d].attempts)
      /\ \A r \in Retrier : copy[r].attempts \in Nat /\ Within(copy[r].attempts)
  BY <1>0, RecordFields DEF Bounded
<1>2. Within(0) /\ \A m \in Nat : m <= MaxAttempts => Within(m)
  BY <1>0, SlackRoom
<1>s. ASSUME NEW r \in Retrier, cancelled, cancelled' = cancelled,
             retrier[r] \notin {"save", "poll", "idle", "exited"},
             retrier' = [retrier EXCEPT ![r] = "save"]
      PROVE  Within(copy[r].attempts + 1)
  <2>1. r \notin Spent /\ Spent' = Spent \cup {r}
    BY <1>0, <1>s DEF Spent
  <2>2. Cardinality(Spent') = Cardinality(Spent) + 1
    BY <2>1, CountedFinite, FS_AddElement
  <2>3. Slack' = Slack + 1
    BY <1>s, <2>2 DEF Slack
  <2>4. copy[r].attempts <= MaxAttempts + Slack /\ copy[r].attempts \in Nat
    BY <1>1 DEF Bounded
  <2>5. QED
    BY <1>0, <2>3, <2>4
<1> HIDE DEF Within
<1>3. CASE Elsewhere
  BY <1>1, <1>3, ElsewhereLocal
<1>4. ASSUME NEW d \in Delivery, Deliver(d) \/ SendTest(d) \/ DeliverStep(d) \/ Due(d)
      PROVE  Good
  <2>1. UNCHANGED copy /\ \A x \in Delivery \ {d} : record'[x] = record[x]
    BY <1>4, SenderLocal DEF SenderFrame
  <2>2. Within(record'[d].attempts)
    <3>1. CASE SaveDelivery(d)
      <4>1. outcome[d].attempts \in Nat /\ outcome[d].attempts <= MaxAttempts
        BY <1>0, OutcomeFields
      <4>2. QED
        BY <1>2, <3>1, <4>1, SavedFields
    <3>2. CASE ScheduleRetry(d) \/ Due(d)
      <4>1. PICK t \in Times : record' = [record EXCEPT ![d].next = t]
        BY <3>2 DEF ScheduleRetry, Due, Times
      <4>2. QED
        BY <1>1, <4>1, TimedFields
    <3>3. CASE ~(SaveDelivery(d) \/ ScheduleRetry(d) \/ Due(d))
      <4>1. UNCHANGED record
        BY <1>4, <3>3 DEF Deliver, SendTest, DeliverStep, Send, CountResult, CheckLimit,
                          DisableWebhook
      <4>2. QED
        BY <1>1, <4>1
    <3>4. QED
      BY <3>1, <3>2, <3>3
  <2>3. QED
    BY <1>1, <2>1, <2>2
<1>5. ASSUME NEW r \in Retrier, Process(r) PROVE Good
  <2>0. /\ \A s \in Retrier \ {r} : copy'[s] = copy[s]
        /\ \A x \in Delivery : record'[x] # record[x] => x = current[r]
    BY <1>5, RetrierLocal DEF RetrierFrame
  <2>1. CASE GetDelivery(r)
    <3>1. current[r] \in Delivery
      BY <2>1 DEF GetDelivery, Sound, RetrierSound, Busy
    <3>2. copy'[r] = record[current[r]] /\ UNCHANGED record
      BY <1>0, <2>1 DEF GetDelivery
    <3>3. QED
      BY <1>1, <2>0, <3>1, <3>2
  <2>2. CASE ClearSave(r)
    <3>1. current[r] \in Delivery
      BY <2>2 DEF ClearSave, Sound, RetrierSound, Busy
    <3>2. "none" \in Times /\ copy[r] \in Records
      BY <1>0 DEF Times
    <3>3. [copy[r] EXCEPT !.next = "none"].attempts = copy[r].attempts
      BY <3>2, RecordTimed
    <3>4. record'[current[r]].attempts = copy[r].attempts /\ copy'[r] = NoRecord
      BY <1>0, <2>2, <3>1, <3>3 DEF ClearSave
    <3>5. QED
      BY <1>1, <1>2, <2>0, <3>1, <3>4, NoRecordFields
  <2>3. CASE RetrySave(r)
    <3>1. current[r] \in Delivery
      BY <2>3 DEF RetrySave, Sound, RetrierSound, Busy
    <3>2. record'[current[r]] = copy[r] /\ UNCHANGED copy
      BY <1>0, <2>3, <3>1 DEF RetrySave
    <3>3. QED
      BY <1>1, <2>0, <3>1, <3>2
  <2>4. CASE Poll(r)
    <3>1. copy'[r] = NoRecord /\ UNCHANGED record
      BY <1>0, <2>4 DEF Poll
    <3>2. QED
      BY <1>1, <1>2, <2>0, <3>1, NoRecordFields
  <2>5. ASSUME NEW o \in Outcome, RetrySend(r, o) PROVE Good
    <3>1. /\ UNCHANGED <<record, cancelled>> /\ (o.attempts = 0 => cancelled)
          /\ retrier[r] = "send" /\ retrier' = [retrier EXCEPT ![r] = "save"]
          /\ copy' = [copy EXCEPT ![r] = Retried(copy[r], o)]
      BY <2>5 DEF RetrySend, Retried
    <3>2. copy'[r] = Retried(copy[r], o) /\ copy[r] \in Records
      BY <1>0, <3>1
    <3>3. CASE o.attempts = 0
      <4>1. copy'[r].attempts = copy[r].attempts + 1
        BY <3>2, <3>3, RetriedFields
      <4>2. Within(copy[r].attempts + 1)
        BY <1>s, <3>1, <3>3
      <4>3. QED
        BY <1>1, <2>0, <3>1, <4>1, <4>2
    <3>4. CASE o.attempts # 0
      <4>1. copy'[r].attempts = o.attempts
        BY <3>2, <3>4, RetriedFields
      <4>2. Within(o.attempts)
        BY <1>2, OutcomeFields
      <4>3. QED
        BY <1>1, <2>0, <3>1, <4>1, <4>2
    <3>5. QED
      BY <3>3, <3>4
  <2>6. CASE GetFailedDeliveries(r) \/ NextDelivery(r) \/ CheckWebhook(r) \/ RetryWebhook(r)
    <3>1. UNCHANGED <<record, copy>>
      BY <2>6 DEF GetFailedDeliveries, NextDelivery, CheckWebhook, RetryWebhook
    <3>2. QED
      BY <1>1, <3>1
  <2>7. QED
    BY <1>5, <2>1, <2>2, <2>3, <2>4, <2>5, <2>6 DEF Process
<1>6. QED
  BY <1>3, <1>4, <1>5, Steps

\* Every step keeps the bounds.
LEMMA BoundedNext == Typed /\ Sound /\ Bounded /\ [Next]_vars => Bounded'
  BY FailuresCounted, SlackGrows, BatchesBounded, AttemptsBounded DEF Bounded

\* With the bounds, TypeOK.
LEMMA TypeFollows == Typed /\ Bounded => TypeOK
<1> SUFFICES ASSUME Typed, Bounded PROVE TypeOK
  OBVIOUS
<1>1. Slack \in Nat /\ Slack <= Cardinality(Retrier) /\ MaxAttempts \in Nat
  BY CountedFinite, WebhookAssumption DEF Slack
<1>2. \A x \in Records : x.attempts <= MaxAttempts + Slack => x \in Record
  <2>1. SUFFICES ASSUME NEW x \in Records, x.attempts <= MaxAttempts + Slack
                 PROVE  x \in Record
    OBVIOUS
  <2>2. x.attempts \in 0..(MaxAttempts + Cardinality(Retrier))
    BY <1>1, <2>1, RecordFields, CountedFinite
  <2>3. QED
    BY <2>1, <2>2 DEF Records, Record, Times
<1>3. record \in [Delivery -> Record] /\ copy \in [Retrier -> Record]
  BY <1>2 DEF Typed, Bounded
<1>4. webhook.failures \in 0..Cardinality(Delivery)
  <2>1. webhook.failures \in Nat
    BY WebhookFields DEF Typed
  <2>2. webhook.failures <= Cardinality(Counted)
    BY DEF Bounded
  <2>3. QED
    BY <2>1, <2>2, CountedFinite
<1>5. webhook \in [exists : BOOLEAN, active : BOOLEAN, failures : 0..Cardinality(Delivery)]
  BY <1>4 DEF Typed, Webhooks
<1>6. \A r \in Retrier : batch[r] \in SUBSET (Delivery \X Nat) /\ Cardinality(batch[r]) <= BatchSize
  BY DEF Typed, Bounded
<1>7. QED
  BY <1>3, <1>5, <1>6 DEF Typed, TypeOK, Senders, Places

-----------------------------------------------------------------------------
(* The loop alone *)

\* Only the loop works, as long as TriggerNow has not been called.
Alone == triggered \/ LoopAlone

\* A step of the service.
LEMMA AloneSender ==
    ASSUME Typed, Sound, Alone, NEW d \in Delivery,
           Deliver(d) \/ SendTest(d) \/ DeliverStep(d) \/ Due(d)
    PROVE  Alone'
<1> USE DEF service, handler, retry, SenderStep
<1>0. SenderFrame(d) /\ Sound' /\ UNCHANGED triggered
  <2>1. UNCHANGED triggered
    BY DEF Deliver, SendTest, DeliverStep, Due, Send, SaveDelivery, CountResult, CheckLimit,
           DisableWebhook, ScheduleRetry
  <2>2. QED
    BY <2>1, SenderLocal, SoundSender
<1> SUFFICES ASSUME ~triggered PROVE LoopAlone'
  BY <1>0 DEF Alone
<1>1. LoopAlone /\ Loop \in Retrier /\ RetrierSound(Loop)
  BY DEF Alone, Sound, Retrier
<1>2. \A x \in Delivery : sender[x] = "done" => (x \in succeeded' => x \in succeeded)
  <2>1. sender[d] = "done" => UNCHANGED succeeded
    BY DEF Deliver, SendTest, DeliverStep, Due, Send, SaveDelivery, CountResult, CheckLimit,
           DisableWebhook, ScheduleRetry
  <2>2. QED
    BY <1>0, <2>1 DEF SenderFrame
<1>3. ASSUME NEW x \in succeeded', sender'[x] = "done"
      PROVE  record'[x].success \/ (retrier[Loop] = "save" /\ current[Loop] = x)
  <2>1. x \in Delivery
    BY <1>0, TypedSender DEF Typed
  <2>2. CASE x # d
    BY <1>0, <1>1, <1>3, <2>1, <2>2 DEF SenderFrame, LoopAlone
  <2>3. CASE x = d
    <3>1. CASE SaveDelivery(d)
      <4>1. sender[d] # "done" /\ d \in succeeded
        BY <1>3, <2>3, <3>1 DEF SaveDelivery
      <4>2. outcome[d].success
        BY <4>1 DEF Sound, SenderSound
      <4>3. QED
        BY <2>3, <3>1, <4>2, SavedFields
    <3>2. CASE CountResult(d)
      <4>1. sender[d] = "count" /\ d \in succeeded /\ UNCHANGED record
        BY <1>3, <2>3, <3>2 DEF CountResult
      <4>2. QED
        BY <2>3, <4>1 DEF Sound, SenderSound, Saved
    <3>3. CASE ScheduleRetry(d)
      <4>1. sender[d] = "schedule" /\ d \in succeeded
        BY <1>3, <2>3, <3>3 DEF ScheduleRetry
      <4>2. QED
        BY <4>1 DEF Sound, SenderSound, Failed
    <3>4. CASE Due(d)
      <4>1. /\ record' = [record EXCEPT ![d].next = "due"] /\ UNCHANGED <<sender, succeeded>>
            /\ "due" \in Times
        BY <3>4 DEF Due, Times
      <4>2. record'[d].success = record[d].success
        BY <4>1, TimedFields
      <4>3. QED
        BY <1>1, <1>3, <2>3, <4>1, <4>2 DEF LoopAlone
    <3>5. CASE ~(SaveDelivery(d) \/ CountResult(d) \/ ScheduleRetry(d) \/ Due(d))
      <4>1. sender'[d] # "done"
        BY <3>5 DEF Deliver, SendTest, DeliverStep, Send, CheckLimit, DisableWebhook, Typed
      <4>2. QED
        BY <1>3, <2>3, <4>1
    <3>6. QED
      BY <3>1, <3>2, <3>3, <3>4, <3>5
  <2>4. QED
    BY <2>2, <2>3
<1>4. \A e \in batch[Loop] : e[1] \in Delivery /\ sender[e[1]] = "done"
  BY <1>1 DEF Typed, RetrierSound
<1>5. retrier[Loop] \in Busy => current[Loop] \in Delivery /\ sender[current[Loop]] = "done"
  BY <1>1 DEF RetrierSound
<1>6. UNCHANGED <<retrier, batch, current, copy>>
  BY <1>0 DEF SenderFrame
<1>7. QED
  BY <1>1, <1>2, <1>3, <1>4, <1>5, <1>6 DEF LoopAlone, Busy

\* A step of the handler: the loop takes a delivery once, reads its record, and is the only
\* one to write it.
LEMMA AloneRetrier ==
    ASSUME Typed, Sound, Alone, NEW r \in Retrier, Process(r)
    PROVE  Alone'
<1> USE DEF service, handler, retry, RetryStep
<1>0. RetrierFrame(r) /\ UNCHANGED <<sender, triggered>>
  <2>1. UNCHANGED triggered
    BY DEF Process, GetFailedDeliveries, NextDelivery, CheckWebhook, GetDelivery, ClearSave,
           RetryWebhook, RetrySave, Poll, RetrySend
  <2>2. QED
    BY <2>1, RetrierLocal DEF RetrierFrame
<1> SUFFICES ASSUME ~triggered PROVE LoopAlone'
  BY <1>0 DEF Alone
<1>1. LoopAlone
  BY DEF Alone
<1>2. r = Loop
  <2>1. retrier[r] # "idle"
    BY DEF Process, GetFailedDeliveries, NextDelivery, CheckWebhook, GetDelivery, ClearSave,
           RetryWebhook, RetrySave, Poll, RetrySend
  <2>2. QED
    BY <1>1, <2>1 DEF LoopAlone, Retrier
<1>3. \A s \in Trigger : retrier'[s] = "idle"
  <2>1. \A s \in Trigger : s \in Retrier /\ s # Loop
    BY WebhookAssumption DEF Retrier
  <2>2. QED
    BY <1>0, <1>1, <1>2, <2>1 DEF RetrierFrame, LoopAlone
<1>4. /\ Loop \in Retrier /\ RetrierSound(Loop)
      /\ retrier \in [Retrier -> Places] /\ batch \in [Retrier -> SUBSET (Delivery \X Nat)]
      /\ current \in [Retrier -> Delivery \cup {NoDelivery}] /\ copy \in [Retrier -> Records]
      /\ record \in [Delivery -> Records] /\ succeeded \subseteq Delivery
  BY <1>2 DEF Sound, Typed
<1>5. \A d \in Delivery : RecordSound(d)
  BY DEF Sound
<1> USE DEF Busy
<1>6. CASE GetFailedDeliveries(Loop)
  <2>1. PICK T \in Batches({d \in Delivery : Retryable(d) /\ rounds[d] < MaxRounds}) :
            /\ batch' = [batch EXCEPT ![Loop] = {<<d, record[d].attempts>> : d \in T}]
            /\ RetryStep(Loop, IF T = {} THEN "idle" ELSE "next")
    BY <1>6 DEF GetFailedDeliveries
  <2>2. T \subseteq Delivery /\ \A d \in T : Retryable(d)
    BY ChosenReady
  <2>3. /\ retrier[Loop] = "query" /\ retrier'[Loop] \in {"idle", "next"}
        /\ UNCHANGED <<record, succeeded, current, copy>>
    BY <1>4, <1>6, <2>1 DEF GetFailedDeliveries
  <2>4. \A d \in T : d \notin succeeded
    BY <1>1, <1>5, <2>2, <2>3 DEF Retryable, RecordSound, LoopAlone
  <2>5. \A e \in batch'[Loop] : e[1] \in T /\ e = <<e[1], record[e[1]].attempts>>
    BY <1>4, <2>1
  <2>6. \A e, f \in batch'[Loop] : e[1] = f[1] => e = f
    BY <2>5
  <2>7. QED
    BY <1>0, <1>1, <1>3, <2>3, <2>4, <2>5, <2>6 DEF LoopAlone
<1>7. CASE NextDelivery(Loop)
  <2>1. retrier[Loop] = "next" /\ UNCHANGED <<record, succeeded, copy>>
    BY <1>7 DEF NextDelivery
  <2>2. ASSUME NEW e \in batch[Loop], batch' = [batch EXCEPT ![Loop] = @ \ {e}],
               current' = [current EXCEPT ![Loop] = e[1]],
               RetryStep(Loop, IF e[2] >= MaxRetries THEN "clearGet" ELSE "webhook")
        PROVE  LoopAlone'
    <3>1. /\ batch'[Loop] = batch[Loop] \ {e} /\ current'[Loop] = e[1]
          /\ retrier'[Loop] \in {"clearGet", "webhook"}
      BY <1>4, <2>2
    <3>2. e[1] \notin succeeded /\ \A f \in batch[Loop] \ {e} : f[1] # e[1]
      BY <1>1 DEF LoopAlone
    <3>3. QED
      BY <1>0, <1>1, <1>3, <2>1, <3>1, <3>2 DEF LoopAlone
  <2>3. ASSUME RetryStep(Loop, "idle"), UNCHANGED batch
        PROVE  LoopAlone'
    <3>1. retrier'[Loop] = "idle"
      BY <1>4, <2>3
    <3>2. QED
      BY <1>0, <1>1, <1>3, <2>1, <2>3, <3>1 DEF LoopAlone
  <2>4. QED
    BY <1>7, <2>2, <2>3 DEF NextDelivery
<1>8. CASE CheckWebhook(Loop) \/ RetryWebhook(Loop) \/ GetDelivery(Loop)
  <2>1. /\ UNCHANGED <<record, succeeded, batch, current>>
        /\ retrier[Loop] \in Busy \ {"save"} /\ retrier'[Loop] # "save"
    BY <1>4, <1>8 DEF CheckWebhook, RetryWebhook, GetDelivery, AfterInactive
  <2>2. QED
    BY <1>0, <1>1, <1>3, <2>1 DEF LoopAlone
<1>9. CASE ClearSave(Loop)
  <2>1. /\ UNCHANGED <<succeeded, batch, current>>
        /\ retrier[Loop] = "clearSave" /\ retrier'[Loop] = "next"
        /\ \A x \in Delivery : x # current[Loop] => record'[x] = record[x]
    BY <1>4, <1>9 DEF ClearSave
  <2>2. current[Loop] \notin succeeded
    BY <1>1, <2>1 DEF LoopAlone
  <2>3. QED
    BY <1>0, <1>1, <1>3, <1>4, <2>1, <2>2 DEF LoopAlone
<1>10. CASE RetrySave(Loop)
  <2>1. /\ UNCHANGED <<succeeded, batch, current, copy>>
        /\ retrier[Loop] = "save" /\ retrier'[Loop] = "poll"
        /\ record' = [record EXCEPT ![current[Loop]] = copy[Loop]]
    BY <1>4, <1>10 DEF RetrySave
  <2>2. \A x \in succeeded : record'[x] = IF x = current[Loop] THEN copy[Loop] ELSE record[x]
    BY <1>4, <2>1
  <2>3. QED
    BY <1>0, <1>1, <1>3, <2>1, <2>2 DEF LoopAlone
<1>11. CASE Poll(Loop)
  <2>1. /\ retrier[Loop] = "poll" /\ retrier'[Loop] \in {"idle", "next"}
        /\ batch'[Loop] \subseteq batch[Loop] /\ UNCHANGED <<record, succeeded>>
    BY <1>4, <1>11 DEF Poll
  <2>2. QED
    BY <1>0, <1>1, <1>3, <2>1 DEF LoopAlone
<1>12. ASSUME NEW o \in Outcome, RetrySend(Loop, o) PROVE LoopAlone'
  <2>1. /\ UNCHANGED <<record, batch, current>>
        /\ retrier[Loop] = "send" /\ retrier'[Loop] = "save"
        /\ copy' = [copy EXCEPT ![Loop] = Retried(copy[Loop], o)]
        /\ succeeded' = IF o.success THEN succeeded \cup {current[Loop]} ELSE succeeded
    BY <1>4, <1>12 DEF RetrySend, Retried
  <2>2. copy'[Loop] = Retried(copy[Loop], o) /\ copy[Loop] \in Records
    BY <1>4, <2>1
  <2>3. o.success => copy'[Loop].success
    BY <2>2, RetriedFields, OutcomeFields
  <2>4. current[Loop] \notin succeeded
    BY <1>1, <2>1 DEF LoopAlone
  <2>5. QED
    BY <1>0, <1>1, <1>3, <2>1, <2>3, <2>4 DEF LoopAlone
<1>13. QED
  BY <1>2, <1>6, <1>7, <1>8, <1>9, <1>10, <1>11, <1>12 DEF Process

\* The loop does not run before Start.
Dormant == ~running /\ ~cancelled => retrier[Loop] = "exited"

\* Every step keeps it so.
LEMMA DormantNext == Typed /\ Dormant /\ [Next]_vars => Dormant'
<1> SUFFICES ASSUME Typed, Dormant, [Next]_vars PROVE Dormant'
  OBVIOUS
<1> USE DEF service, handler, retry, RetryStep, SenderStep
<1>0. Loop \in Retrier /\ Trigger \subseteq Retrier /\ Loop \notin Trigger
      /\ retrier \in [Retrier -> Places]
  BY WebhookAssumption DEF Retrier, Typed
<1>1. CASE Elsewhere
  BY <1>0, <1>1
     DEF Elsewhere, vars, UpdateWebhook, DeleteWebhook, Start, Stop, Tick, LoopEnds, TriggerNow,
         Dormant
<1>2. ASSUME NEW d \in Delivery, Deliver(d) \/ SendTest(d) \/ DeliverStep(d) \/ Due(d)
      PROVE  UNCHANGED <<retrier, cancelled, running>>
  BY <1>2 DEF Deliver, SendTest, DeliverStep, Due, Send, SaveDelivery, CountResult, CheckLimit,
              DisableWebhook, ScheduleRetry
<1>3. ASSUME NEW r \in Retrier, Process(r)
      PROVE  /\ UNCHANGED <<cancelled, running>> /\ retrier[r] # "exited"
             /\ \A s \in Retrier \ {r} : retrier'[s] = retrier[s]
  <2>1. UNCHANGED <<cancelled, running>> /\ retrier[r] # "exited"
    BY <1>3 DEF Process, GetFailedDeliveries, NextDelivery, CheckWebhook, GetDelivery, ClearSave,
                RetryWebhook, RetrySave, Poll, RetrySend
  <2>2. QED
    BY <1>3, <2>1, RetrierLocal DEF RetrierFrame
<1>4. QED
  BY <1>0, <1>1, <1>2, <1>3, Steps DEF Dormant

\* Every step keeps Alone.
LEMMA AloneNext == Typed /\ Sound /\ Dormant /\ Alone /\ [Next]_vars => Alone'
<1> SUFFICES ASSUME Typed, Sound, Dormant, Alone, [Next]_vars PROVE Alone'
  OBVIOUS
<1>1. CASE Elsewhere
  <2>1. CASE \E r \in Trigger : TriggerNow(r)
    BY <2>1 DEF TriggerNow, Alone
  <2>2. CASE ~\E r \in Trigger : TriggerNow(r)
    <3>1. UNCHANGED triggered /\ \A r \in Trigger : retrier'[r] = retrier[r]
      BY <1>1, <2>2, WebhookAssumption
         DEF Elsewhere, vars, UpdateWebhook, DeleteWebhook, Start, Stop, Tick, LoopEnds, service,
             handler, retry, RetryStep, Typed, Retrier
    <3>2. /\ UNCHANGED <<record, sender, succeeded, batch, current, copy>>
          /\ retrier'[Loop] = retrier[Loop] \/ retrier'[Loop] \in {"idle", "query", "exited"}
      BY <1>1, ElsewhereLocal DEF Retrier
    <3>3. retrier[Loop] = "save" => retrier'[Loop] = "save"
      BY <1>1, <2>2
         DEF Elsewhere, vars, UpdateWebhook, DeleteWebhook, Start, Stop, Tick, LoopEnds, service,
             handler, retry, RetryStep, Typed, Dormant
    <3>4. QED
      BY <3>1, <3>2, <3>3 DEF Alone, LoopAlone, Busy
  <2>3. QED
    BY <2>1, <2>2
<1>2. QED
  BY <1>1, Steps, AloneSender, AloneRetrier

-----------------------------------------------------------------------------
(* The theorems *)

\* What holds whatever the settings are.
WebhookInv == Typed /\ Sound /\ Bounded /\ Dormant /\ Alone /\ AtLimit

\* Every state of the webhook service and its retry handler satisfies WebhookInv.
THEOREM WebhookInvariant == Spec => []WebhookInv
<1>1. Init => WebhookInv
  <2>1. Init => Dormant /\ Alone /\ AtLimit
    BY WebhookAssumption DEF Init, Dormant, Alone, LoopAlone, AtLimit, Busy, Retrier
  <2>2. QED
    BY <2>1, TypedInit, SoundInit, BoundedInit DEF WebhookInv
<1>2. WebhookInv /\ [Next]_vars => WebhookInv'
  BY TypedNext, SoundNext, BoundedNext, DormantNext, AloneNext, LimitNext DEF WebhookInv
<1>3. QED
  BY <1>1, <1>2, PTL DEF Spec

\* A webhook at its failure limit does not stay active, for any number of concurrent
\* deliveries, and every variable keeps its type: failures, attempts and batches their bounds.
THEOREM LimitsDisable == Spec => []LimitDisables
<1>1. WebhookInv => LimitDisables
  BY TypeFollows DEF WebhookInv, LimitDisables, AtLimit
<1>2. QED
  BY <1>1, WebhookInvariant, PTL

\* As long as TriggerNow has not been called, what the endpoint accepted is neither sent again
\* nor forgotten, for any number of deliveries and whatever the settings are.
THEOREM SuccessesAreFinal == Spec => []SuccessIsFinal
<1>1. WebhookInv => SuccessIsFinal
  <2> SUFFICES ASSUME WebhookInv, ~triggered
               PROVE  /\ \A r \in Retrier : retrier[r] = "send" => current[r] \notin succeeded
                      /\ \A d \in succeeded : ~Working(d) => record[d].success
    BY DEF SuccessIsFinal, NoResendAfterSuccess, SuccessRecorded
  <2>1. LoopAlone /\ Loop \in Retrier
    BY DEF WebhookInv, Alone, Retrier
  <2>2. QED
    BY <2>1 DEF LoopAlone, Retrier, Busy, Working
<1>2. QED
  BY <1>1, WebhookInvariant, PTL

\* A delivery that is given up used its attempts up or met an inactive webhook, for any number
\* of deliveries and of goroutines that process retries at once.
THEOREM GiveUpsAreJustified == Spec => []GiveUpJustified
<1>1. CASE MaxAttempts <= MaxRetries
  <2>1. Init => Typed /\ Sound /\ Fair
    BY TypedInit, SoundInit, FairInit
  <2>2. Typed /\ Sound /\ Fair /\ [Next]_vars => (Typed /\ Sound /\ Fair)'
    BY <1>1, TypedNext, SoundNext, FairNext
  <2>3. Typed /\ Sound /\ Fair => GiveUpJustified
    BY DEF Fair, Justified, GiveUpJustified, Working
  <2>4. QED
    BY <2>1, <2>2, <2>3, PTL DEF Spec
<1>2. CASE ~(MaxAttempts <= MaxRetries)
  <2>1. GiveUpJustified
    BY <1>2 DEF GiveUpJustified
  <2>2. QED
    BY <2>1, PTL
<1>3. QED
  BY <1>1, <1>2
=============================================================================
