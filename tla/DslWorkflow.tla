---------------------------- MODULE DslWorkflow ----------------------------
(***************************************************************************)
(* internal/workflow/dsl_loader.go: ExecuteDSLWorkflow runs the steps of a *)
(* declared workflow as Temporal activities. The steps run one after the   *)
(* other; the steps of a parallel block are started together and awaited   *)
(* in their order. Temporal is external: it retries an activity up to the  *)
(* limit of the retry policy, and gives up what is still under way when    *)
(* the workflow function returns. Conditions and input mappings are        *)
(* placeholders in the code: every step runs.                              *)
(***************************************************************************)
EXTENDS Integers, Sequences, FiniteSets

CONSTANTS
    Workflows,      \* the declared workflows: sequences of blocks, a block being a
                    \* sequence of step names (a single step is a block of one)
    MaxActivityAttempts     \* MaximumAttempts of the retry policy

FlowAssumption == Workflows \subseteq Seq(Seq(STRING)) /\ MaxActivityAttempts \in Nat \ {0}

VARIABLES
    blocks,         \* the blocks of the workflow that runs; <<>> before
    flow,           \* block and step that executeStep awaits, and the output
    activity,       \* activity[i]: the activities of the current block
    performed       \* the steps whose activity has succeeded

flowVars == <<blocks, flow, activity, performed>>

FlowInit ==
    /\ blocks = <<>> /\ activity = <<>> /\ performed = {}
    /\ flow = [pc |-> "idle", block |-> 0, step |-> 0, status |-> "running", results |-> {}]

FlowTypeOK ==
    /\ blocks \in Workflows \cup {<<>>} /\ flow.pc \in {"idle", "schedule", "await", "ended"}
    /\ flow.block \in 0..(Len(blocks) + 1) /\ flow.status \in {"running", "completed", "failed"}
    /\ \A i \in DOMAIN activity : activity[i].state \in {"running", "ok", "failed"}
                                    /\ activity[i].attempts \in 1..MaxActivityAttempts

\* Steps have an identity of their own: a name may be used twice.
StepAt(b, i) == <<b, i>>
StepName(step) == blocks[step[1]][step[2]]
Steps == UNION {{StepAt(b, i) : i \in DOMAIN blocks[b]} : b \in DOMAIN blocks}

StartFlow(w) ==
    /\ flow.pc = "idle"
    /\ blocks' = w /\ flow' = [flow EXCEPT !.pc = "schedule", !.block = 1]
    /\ UNCHANGED <<activity, performed>>

\* ExecuteActivity for every step of the block, without waiting; there is nothing to wait for in
\* an empty parallel block
Schedule ==
    /\ flow.pc = "schedule" /\ flow.block <= Len(blocks)
    /\ activity' = [i \in DOMAIN blocks[flow.block] |-> [state |-> "running", attempts |-> 1]]
    /\ flow' = IF blocks[flow.block] = <<>> THEN [flow EXCEPT !.block = @ + 1]
               ELSE [flow EXCEPT !.pc = "await", !.step = 1]
    /\ UNCHANGED <<blocks, performed>>

\* External: an attempt of an activity succeeds, or fails and is retried.
ActivitySucceeds(i) ==
    /\ flow.pc = "await" /\ i \in DOMAIN activity /\ activity[i].state = "running"
    /\ activity' = [activity EXCEPT ![i].state = "ok"]
    /\ performed' = performed \cup {StepAt(flow.block, i)}
    /\ UNCHANGED <<blocks, flow>>
ActivityFails(i) ==
    /\ flow.pc = "await" /\ i \in DOMAIN activity /\ activity[i].state = "running"
    /\ activity' = IF activity[i].attempts < MaxActivityAttempts THEN [activity EXCEPT ![i].attempts = @ + 1]
                   ELSE [activity EXCEPT ![i].state = "failed"]
    /\ UNCHANGED <<blocks, flow, performed>>

StepResult(i, status) == [name |-> blocks[flow.block][i], status |-> status]
\* output.StepResults is a map: a second step of the name replaces the first.
Recorded(i, status) == {x \in flow.results : x.name # blocks[flow.block][i]} \cup {StepResult(i, status)}

\* The futures are awaited in order and the first error ends the workflow.
\* Wrong on purpose: a failed step does not end the workflow.
FailureIgnored(state) == "next"
AfterFuture(state) == IF state = "ok" THEN "next" ELSE "failed"
AwaitFuture ==
    LET i == flow.step IN
    /\ flow.pc = "await" /\ activity[i].state \in {"ok", "failed"}
    /\ flow' = IF AfterFuture(activity[i].state) = "failed"
               THEN [flow EXCEPT !.pc = "ended", !.status = "failed", !.results = Recorded(i, "failed")]
               ELSE IF i < Len(activity)
               THEN [flow EXCEPT !.step = i + 1, !.results = Recorded(i, "completed")]
               ELSE [flow EXCEPT !.pc = "schedule", !.block = @ + 1, !.results = Recorded(i, "completed")]
    /\ UNCHANGED <<blocks, activity, performed>>

CompleteFlow ==
    /\ flow.pc = "schedule" /\ flow.block > Len(blocks)
    /\ flow' = [flow EXCEPT !.pc = "ended", !.status = "completed"]
    /\ UNCHANGED <<blocks, activity, performed>>

FlowNext ==
    \/ \E w \in Workflows : StartFlow(w)
    \/ \E i \in DOMAIN activity : ActivitySucceeds(i) \/ ActivityFails(i)
    \/ Schedule \/ AwaitFuture \/ CompleteFlow

FlowSpec == FlowInit /\ [][FlowNext]_flowVars

(***************************************************************************)
(* Properties                                                              *)
(***************************************************************************)

\* What ExecuteDSLWorkflow reports is what happened: "completed" means that
\* the activity of every declared step succeeded, a result "completed" that an
\* activity of that name did, and no step of a later block has run when an
\* earlier one has not.
ReportMatchesSteps ==
    /\ FlowTypeOK
    /\ flow.status = "completed" => performed = Steps
    /\ \A x \in flow.results : x.status = "completed" => \E step \in performed : StepName(step) = x.name
    /\ \A step \in performed : \A other \in Steps : other[1] < step[1] => other \in performed
    /\ flow.status = "failed" => \E x \in flow.results : x.status = "failed"
=============================================================================
