---------------------------- MODULE OutgoingCall ----------------------------
(***************************************************************************)
(* pkg/integration: one call of the REST, GraphQL or Brevo client. Do asks *)
(* the circuit breaker once, then makes attempts through the Retryer; each *)
(* attempt runs in a goroutine of TimeoutManager.Execute, which the caller *)
(* leaves behind when the deadline passes first. The breaker is the one of *)
(* module CircuitBreaker; here it may refuse any call.                     *)
(***************************************************************************)
EXTENDS Integers, FiniteSets

CONSTANTS
    ApiCaller,             \* goroutines that call
    MaxCallAttempts     \* RetryConfig.MaxAttempts

CallAssumption == IsFiniteSet(ApiCaller) /\ MaxCallAttempts \in Nat \ {0}

VARIABLES
    call,       \* per caller: what it does
    flying,     \* <<caller, attempt>> whose goroutine is under way
    performed,  \* <<caller, attempt>> the service has carried out
    arrived,    \* per caller: results in the channels of its attempts
    ledger      \* permissions of the breaker without a recorded result

outgoingVars == <<call, flying, performed, arrived, ledger>>

Client == {"rest", "graphql", "brevo"}
CallResult == {"ok", "refused", "http 4xx", "http 429", "http 5xx", "network", "unparseable", "deadline", "canceled", "ErrTimeout", "circuit open"}
Attempt == 1..MaxCallAttempts
Ready == [at |-> "ready", client |-> "rest", retry |-> TRUE, circuit |-> TRUE, attempt |-> 0,
          expired |-> FALSE, canceled |-> FALSE, result |-> "ok"]

CallTypeOK ==
    /\ call \in [ApiCaller -> [at : {"ready", "send", "wait", "backoff", "record", "returned"}, client : Client, retry : BOOLEAN,
                            circuit : BOOLEAN, attempt : 0..MaxCallAttempts, expired : BOOLEAN, canceled : BOOLEAN, result : CallResult]]
    /\ flying \subseteq ApiCaller \X Attempt /\ performed \subseteq ApiCaller \X Attempt
    /\ arrived \subseteq ApiCaller \X Attempt \X CallResult /\ ledger \in 0..Cardinality(ApiCaller)

CallInit ==
    /\ call = [c \in ApiCaller |-> Ready]
    /\ flying = {} /\ performed = {} /\ arrived = {} /\ ledger = 0

\* Do of the REST client, Execute of the GraphQL client: both take SkipRetry
\* and SkipCircuit; the Brevo client has neither retryer nor breaker.
BeginCall(c, client, retry, circuit, allowed) ==
    /\ call[c].at = "ready"
    /\ client = "brevo" => ~retry /\ ~circuit
    /\ ~circuit => allowed
    /\ call' = [call EXCEPT ![c] = [Ready EXCEPT !.client = client, !.retry = retry, !.circuit = circuit,
                                                 !.at = IF allowed THEN "send" ELSE "returned",
                                                 !.result = IF allowed THEN "ok" ELSE "circuit open"]]
    /\ ledger' = ledger + IF circuit /\ allowed THEN 1 ELSE 0
    /\ UNCHANGED <<flying, performed, arrived>>

\* Wrong on purpose: a timeout of TimeoutManager is retried as well.
RetryableTimeout(r) == r \in {"deadline", "network", "http 429", "http 5xx", "ErrTimeout"}
\* IsRetryable: ErrTimeout is not context.DeadlineExceeded, and its text
\* matches none of the patterns.
IsRetryable(r) == r \in {"deadline", "network", "http 429", "http 5xx"}

\* The Retryer after an attempt.
Decided(s, r) ==
    LET again == s.retry /\ r # "ok" /\ ~s.canceled /\ s.attempt < MaxCallAttempts /\ IsRetryable(r) IN
    [s EXCEPT !.result = IF s.retry /\ s.canceled /\ r # "ok" THEN "canceled" ELSE r,
              !.at = IF again THEN "backoff" ELSE "record"]

\* execute: the request is built, or cannot be.
ExecuteAttempt(c, built) ==
    /\ call[c].at = "send"
    /\ LET s == [call[c] EXCEPT !.attempt = @ + 1, !.expired = FALSE] IN
       IF built
       THEN /\ call' = [call EXCEPT ![c] = [s EXCEPT !.at = "wait"]]
            /\ flying' = flying \union {<<c, s.attempt>>}
       ELSE call' = [call EXCEPT ![c] = Decided(s, "refused")] /\ UNCHANGED flying
    /\ UNCHANGED <<performed, arrived, ledger>>

\* Answers that leave open what the service did, or will do.
Unsettled == {"network", "deadline", "canceled", "http 5xx"}

\* The service carries a request out: while httpClient.Do waits for it, or later,
\* once Do has ended without the service's own answer.
Perform(c, k) ==
    /\ <<c, k>> \in flying \/ \E r \in Unsettled : <<c, k, r>> \in arrived
    /\ performed' = performed \union {<<c, k>>}
    /\ UNCHANGED <<call, flying, arrived, ledger>>

\* Whether httpClient.Do of attempt k may end with result r.
Possible(c, k, r) ==
    CASE r = "ok" -> <<c, k>> \in performed
      [] r = "unparseable" -> <<c, k>> \in performed /\ call[c].client # "rest"
      [] r \in {"http 4xx", "http 429", "http 5xx", "network"} -> TRUE
      [] r = "deadline" -> call[c].expired \/ call[c].attempt # k \/ call[c].at # "wait"
      [] r = "canceled" -> call[c].canceled
      [] OTHER -> FALSE

\* The goroutine of an attempt ends; its channel has room for the result.
AttemptEnds(c, k, r) ==
    /\ <<c, k>> \in flying /\ Possible(c, k, r)
    /\ flying' = flying \ {<<c, k>>} /\ arrived' = arrived \union {<<c, k, r>>}
    /\ UNCHANGED <<call, performed, ledger>>

DeadlinePasses(c) ==
    /\ call[c].at = "wait" /\ ~call[c].expired
    /\ call' = [call EXCEPT ![c].expired = TRUE] /\ UNCHANGED <<flying, performed, arrived, ledger>>

\* The context of the caller ends.
CancelCall(c) ==
    /\ call[c].at \in {"send", "wait", "backoff"} /\ ~call[c].canceled
    /\ call' = [call EXCEPT ![c].canceled = TRUE] /\ UNCHANGED <<flying, performed, arrived, ledger>>

\* Execute: select between the channel and the context; both may be ready.
\* Brevo calls httpClient.Do itself and waits for it.
ReceiveResult(c) ==
    \E r \in CallResult :
        /\ call[c].at = "wait" /\ <<c, call[c].attempt, r>> \in arrived
        /\ call' = [call EXCEPT ![c] = Decided(@, r)]
        /\ UNCHANGED <<flying, performed, arrived, ledger>>
GiveUpWaiting(c) ==
    /\ call[c].at = "wait" /\ call[c].client # "brevo" /\ (call[c].expired \/ call[c].canceled)
    /\ \E r \in (IF call[c].expired THEN {"ErrTimeout"} ELSE {}) \union (IF call[c].canceled THEN {"canceled"} ELSE {}) :
        call' = [call EXCEPT ![c] = Decided(@, r)]
    /\ UNCHANGED <<flying, performed, arrived, ledger>>

\* Between two attempts.
BackoffEnds(c) ==
    /\ call[c].at = "backoff"
    /\ call' = [call EXCEPT ![c].at = IF call[c].canceled THEN "record" ELSE "send",
                            ![c].result = IF call[c].canceled THEN "canceled" ELSE @]
    /\ UNCHANGED <<flying, performed, arrived, ledger>>

\* RecordSuccess or RecordFailure, once for the call, and return.
RecordResult(c) ==
    /\ call[c].at = "record"
    /\ call' = [call EXCEPT ![c].at = "returned"]
    /\ ledger' = ledger - IF call[c].circuit THEN 1 ELSE 0
    /\ UNCHANGED <<flying, performed, arrived>>

CallNext ==
    \E c \in ApiCaller :
        \/ \E client \in Client, retry, circuit, allowed \in BOOLEAN : BeginCall(c, client, retry, circuit, allowed)
        \/ \E built \in BOOLEAN : ExecuteAttempt(c, built)
        \/ \E k \in Attempt : Perform(c, k) \/ \E r \in CallResult : AttemptEnds(c, k, r)
        \/ DeadlinePasses(c) \/ CancelCall(c) \/ ReceiveResult(c) \/ GiveUpWaiting(c) \/ BackoffEnds(c) \/ RecordResult(c)

CallSpec == CallInit /\ [][CallNext]_outgoingVars

-----------------------------------------------------------------------------
\* Answers after which a request may be sent again.
Repeatable == {"deadline", "network", "http 429", "http 5xx"}

\* Although Execute leaves goroutines behind, a call never has two of them waiting for
\* answers, and repeats an attempt only upon that attempt's own answer, one that invites to
\* it: an attempt that was given up is not repeated, whatever it still brings, and one that
\* succeeded neither. (The service may nevertheless act on an attempt after its repetition.)
\* A call that returned without an error was carried out by its last attempt; and the
\* breaker is owed a result by exactly the calls that it let through and that have not
\* returned.
RepeatsFollowAnswers ==
    /\ CallTypeOK
    /\ \A c \in ApiCaller :
          /\ Cardinality({k \in Attempt : <<c, k>> \in flying}) <= 1
          /\ \A k \in Attempt : k < call[c].attempt =>
                /\ \E r \in Repeatable : <<c, k, r>> \in arrived
                /\ \A r \in CallResult : <<c, k, r>> \in arrived => r \in Repeatable
          /\ call[c].at = "returned" /\ call[c].result = "ok" => <<c, call[c].attempt>> \in performed
    /\ ledger = Cardinality({c \in ApiCaller : call[c].circuit /\ call[c].at \notin {"ready", "returned"}})
=============================================================================
