----------------------------- MODULE MCProgress -----------------------------
(***************************************************************************)
(* What must eventually happen, in three parts of the program that do not  *)
(* meet: the graceful shutdown, the retries of webhook deliveries and the  *)
(* refresh of token keys.  A behaviour is one of one part, chosen at the   *)
(* start; the other two stay where they begin, with nothing to do.         *)
(***************************************************************************)
EXTENDS GracefulShutdown, TokenKeys

CONSTANTS drainer, database, d1, t1, NoDelivery, k1, k2

MCPriorityOf == [h \in Hook |-> IF h = database THEN 70 ELSE 90]

\* Tokens that pass, that each check of ValidateToken refuses, and that ask for a
\* key the cache may not have.
MCToken(alg, kid, signer, fault) == [alg |-> alg, kid |-> kid, signer |-> signer, fault |-> fault]
MCTokens == {MCToken("RS", k1, k1, "none"), MCToken("RS", k2, k2, "expired"), MCToken("RS", k2, k1, "none"),
             MCToken("RS", NoKid, "static", "issuer"), MCToken("RS", k2, "static", "audience"),
             MCToken("HS", NoKid, "secret", "none"), MCToken("HS", k1, k1, "none"),
             MCToken("other", k1, k1, "none")}

VARIABLES
    part,
    webhook, record, sender, sendOutcome, running, cancelled, retrier, batch, current, copy,
    reenabled, wasInactive, tests, succeeded, rounds, triggered

W == INSTANCE WebhookDelivery WITH
        outcome <- sendOutcome, Delivery <- {d1}, Trigger <- {t1}, MaxAttempts <- 2,
        MaxRetries <- 2, BatchSize <- 1, MaxFailureCount <- 1, MaxRounds <- 2

webhookVars == <<webhook, record, sender, sendOutcome, running, cancelled, retrier, batch, current,
                 copy, reenabled, wasInactive, tests, succeeded, rounds, triggered>>

ProgressInit ==
    /\ part \in {"shutdown", "webhook", "keys"}
    /\ GracefulInit /\ W!Init /\ KeysInit
    /\ part # "keys" => published = Kid

ProgressNext ==
    \/ part = "shutdown" /\ GracefulNext /\ UNCHANGED <<part, keysVars, webhookVars>>
    \/ part = "webhook" /\ W!Next /\ UNCHANGED <<part, keysVars, gracefulVars>>
    \/ part = "keys" /\ KeysNext /\ UNCHANGED <<part, webhookVars, gracefulVars>>

\* Each part's own fairness; of a part at rest nothing that is fair is enabled.
ProgressSpec ==
    /\ ProgressInit /\ [][ProgressNext]_<<part, gracefulVars, keysVars, webhookVars>>
    /\ GracefulFairness /\ KeysFairness /\ W!Fairness

\* A failed delivery that is due is retried, or given up, by the retry handler.
RetrySettles == W!RetrySettles
=============================================================================
