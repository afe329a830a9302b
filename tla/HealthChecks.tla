---------------------------- MODULE HealthChecks ----------------------------
(***************************************************************************)
(* internal/health: Registry runs the registered checkers of a call        *)
(* concurrently, each in a goroutine, and puts the answer together as they *)
(* come in; Handler turns it into a status code. The checkers look at the  *)
(* database, the cache, memory and disk, and there are custom ones. Health *)
(* probes overlap with each other and with Register.                       *)
(***************************************************************************)
EXTENDS Integers, Sequences, FiniteSets, SequencesExt

CONSTANTS
    HealthChecker,      \* checkers that may be registered
    NameOf,             \* NameOf[c]: its name; two checkers may have one name
    SeverityOf,         \* SeverityOf[c]: "critical" or "warning"
    KindOf,             \* KindOf[c]: which of the checkers below it is
    Probe,              \* requests of the endpoints
    MaxProbes           \* bound: requests

HealthAssumption ==
    /\ KindOf \in [HealthChecker -> {"database", "cache", "memory", "disk", "custom"}]
    /\ MaxProbes \in Nat

VARIABLES
    checkers,       \* Registry.checkers
    probing,        \* probing[p]: the request p
    probes          \* requests so far

healthVars == <<checkers, probing, probes>>

NoProbe == [pc |-> "idle", kind |-> "none", running |-> {}, results |-> {}, checks |-> <<>>, status |-> "healthy", code |-> 0]

HealthInit == checkers = <<>> /\ probing = [p \in Probe |-> NoProbe] /\ probes = 0

Levels == {"healthy", "degraded", "unhealthy"}
HealthTypeOK ==
    /\ checkers \in Seq(HealthChecker) /\ probes \in 0..MaxProbes
    /\ \A p \in Probe : probing[p].pc \in {"idle", "checking", "done"} /\ probing[p].status \in Levels
                          /\ probing[p].running \subseteq 1..Len(checkers) /\ probing[p].code \in {0, 200, 503}

\* Register
RegisterChecker(c) ==
    /\ c \notin ToSet(checkers)
    /\ checkers' = Append(checkers, c) /\ UNCHANGED <<probing, probes>>

\* The results a checker may give: a ping of the database or of the cache
\* that fails or runs into its timeout is unhealthy, memory and disk beyond
\* their threshold are degraded, a disk that cannot be read is unhealthy; a
\* custom function answers what it likes.
DatabaseOutcomes == {"healthy", "unhealthy"}
CacheOutcomes == {"healthy", "unhealthy"}
MemoryOutcomes == {"healthy", "degraded"}
DiskOutcomes == Levels
CustomOutcomes == Levels
Outcomes(c) == [database |-> DatabaseOutcomes, cache |-> CacheOutcomes, memory |-> MemoryOutcomes,
                disk |-> DiskOutcomes, custom |-> CustomOutcomes][KindOf[c]]

\* HealthHandler, LivenessHandler, ReadinessHandler: the checkers that run
\* are those registered when the call starts; liveness runs none.
Chosen(kind) ==
    {i \in 1..Len(checkers) : kind = "health" \/ (kind = "ready" /\ SeverityOf[checkers[i]] = "critical")}

StartProbe(p, kind) ==
    /\ probing[p].pc = "idle" /\ probes < MaxProbes
    /\ probes' = probes + 1
    /\ probing' = [probing EXCEPT ![p] = [NoProbe EXCEPT !.pc = "checking", !.kind = kind, !.running = Chosen(kind)]]
    /\ UNCHANGED checkers

\* The overall status after one more result
\* Wrong on purpose: each result that is not healthy sets the status anew.
LatestStatus(overall, result, severity) ==
    IF result = "unhealthy" THEN IF severity = "critical" THEN "unhealthy" ELSE "degraded"
    ELSE IF result = "degraded" THEN "degraded" ELSE overall
UpdateOverall(overall, result, severity) ==
    IF result = "unhealthy" /\ severity = "critical" THEN "unhealthy"
    ELSE IF result \in {"unhealthy", "degraded"} /\ overall = "healthy" THEN "degraded" ELSE overall

\* One goroutine gets its result and takes the lock: checks is keyed by name.
CheckDone(p, i) ==
    LET c == checkers[i] IN
    /\ probing[p].pc = "checking" /\ i \in probing[p].running
    /\ \E r \in Outcomes(c) :
         probing' = [probing EXCEPT ![p].running = @ \ {i}, ![p].results = @ \cup {<<i, r>>},
                                    ![p].checks = [n \in DOMAIN @ \cup {NameOf[c]} |-> IF n = NameOf[c] THEN r ELSE @[n]],
                                    ![p].status = UpdateOverall(@, r, SeverityOf[c])]
    /\ UNCHANGED <<checkers, probes>>

\* wg.Wait returns, and writeResponse
StatusCode(status) == IF status = "unhealthy" THEN 503 ELSE 200
AnswerProbe(p) ==
    /\ probing[p].pc = "checking" /\ probing[p].running = {}
    /\ probing' = [probing EXCEPT ![p].pc = "done", ![p].code = StatusCode(probing[p].status)]
    /\ UNCHANGED <<checkers, probes>>

EndProbe(p) ==
    /\ probing[p].pc = "done" /\ probing' = [probing EXCEPT ![p] = NoProbe]
    /\ UNCHANGED <<checkers, probes>>

HealthNext ==
    \/ \E c \in HealthChecker : RegisterChecker(c)
    \/ \E p \in Probe : \/ \E kind \in {"health", "live", "ready"} : StartProbe(p, kind)
                        \/ \E i \in 1..Len(checkers) : CheckDone(p, i)
                        \/ AnswerProbe(p) \/ EndProbe(p)

HealthSpec == HealthInit /\ [][HealthNext]_healthVars

\* The answer does not depend on the order in which the checkers finish nor
\* on what is registered meanwhile: 503 exactly if a critical checker that
\* the endpoint covers was unhealthy, "degraded" exactly if another one was
\* not healthy; a warning never makes the readiness probe fail; and the map
\* has a result for each name, from a checker of that name.
AnswerIsOrderFree ==
    HealthTypeOK /\ \A p \in Probe : LET q == probing[p] IN
        q.pc = "done" =>
            /\ q.code = 503 <=> \E x \in q.results : x[2] = "unhealthy" /\ SeverityOf[checkers[x[1]]] = "critical"
            /\ q.status = "healthy" <=> \A x \in q.results : x[2] = "healthy"
            /\ q.kind = "ready" => \A x \in q.results : SeverityOf[checkers[x[1]]] = "critical"
            /\ DOMAIN q.checks = {NameOf[checkers[x[1]]] : x \in q.results}
            /\ \A n \in DOMAIN q.checks : \E x \in q.results : NameOf[checkers[x[1]]] = n /\ x[2] = q.checks[n]
=============================================================================
