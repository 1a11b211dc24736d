-------------------------- MODULE WorkflowExecutor --------------------------
(***************************************************************************)
(* One run of a workflow by WorkflowExecutor.execute (workflow-executor.ts)*)
(* with its steps (step-runner.ts, retry-strategy.ts, timeout-handler.ts)  *)
(* and the write of its step logs (execution.processor.ts).                *)
(*                                                                         *)
(* The steps of a layer run concurrently on one event loop.  Timers and    *)
(* answers are taken only when no promise reaction is left (Quiet), so     *)
(* each of those actions is a turn of the loop and the reactions it sets   *)
(* off (Advance, the reports) come before the next turn.  A promise that   *)
(* loses a race with a timer is not stopped: after the workflow's timeout  *)
(* the run goes on and writes to the map of results the caller was given.  *)
(***************************************************************************)
EXTENDS Integers

CONSTANTS
  Steps,       \* ids of a validated definition
  DependsOn,   \* dependsOn of each step
  Depth,       \* how many layers topologicalSort returned
  Layer,       \* the layer it put each step in
  MaxRetries,  \* retryConfig.maxRetries of each step, 0 without a retryConfig and
               \* negative also if the retryConfig has none: nothing checks it
  Sync,        \* SCRIPT and CONDITION steps: they end before they can time out
  RunIf        \* steps with a runIf expression

ASSUME ExecutorAssumption ==
  /\ DependsOn \in [Steps -> SUBSET Steps]
  /\ Depth \in Nat
  /\ Layer \in [Steps -> 1 .. Depth]
  /\ \A s \in Steps : \A d \in DependsOn[s] : Layer[d] < Layer[s]
  /\ MaxRetries \in [Steps -> Int]
  /\ Sync \subseteq Steps /\ RunIf \subseteq Steps

VARIABLES
  current,  \* how many layers executeLayered has started
  run,      \* its promise: "going", "resolved", "rejected"
  state,    \* what each step is doing
  attempt,  \* withRetry's attempt counter, from 0
  results,  \* status of the step in the map ctx.steps, "none" if it has none
  report,   \* status that execute has returned, "none" before
  logged    \* statuses the processor read for the step logs

vars == <<current, run, state, attempt, results, report, logged>>

StepStates == {"idle", "attempt", "backoff", "settled", "crashed"}
Good       == {"success", "skipped"}
Bad        == {"failed", "timeout"}
\* "aborted" is the 'failed' entry that execute fills in for a step without one.
Results    == {"none", "aborted"} \cup Good \cup Bad

LayerSteps(k) == {s \in Steps : Layer[s] = k}

\* Seeded bug: a step that waits for its next attempt counts as done.
LayerDoneOrWaiting ==
  \A s \in LayerSteps(current) : state[s] \in {"settled", "backoff"}

LayerDone   == \A s \in LayerSteps(current) : state[s] = "settled"
LayerBroken == \E s \in LayerSteps(current) : state[s] = "crashed"

\* No promise reaction is pending: no script has just been called, the layer is
\* not complete and a finished run has been reported.
Quiet ==
  /\ \A s \in Sync : state[s] # "attempt"
  /\ run = "going" => ~LayerDone /\ ~LayerBroken
  /\ run # "going" => report # "none"

Init ==
  /\ current = 0
  /\ run = "going"
  /\ state = [s \in Steps |-> "idle"]
  /\ attempt = [s \in Steps |-> 0]
  /\ results = [s \in Steps |-> "none"]
  /\ report = "none"
  /\ logged = [s \in Steps |-> "none"]

-----------------------------------------------------------------------------
(* executeLayered.                                                          *)

\* withRetry's loop has no turn at all: it throws undefined.
NoAttempts == {s \in Steps : MaxRetries[s] < 0}

\* Launch the steps of layer k together.  runIf is evaluated at once: false
\* skips the step; an interpolation that throws rejects its promise, for the
\* evaluation is outside runStep's try.
Launch(k) ==
  \E skip \in SUBSET (LayerSteps(k) \cap RunIf) :
  \E crash \in SUBSET ((LayerSteps(k) \cap RunIf) \ skip) :
    LET fail == (LayerSteps(k) \cap NoAttempts) \ (skip \cup crash) IN
    /\ state' = [s \in Steps |->
                   IF s \in skip \cup fail THEN "settled"
                   ELSE IF s \in crash THEN "crashed"
                   ELSE IF s \in LayerSteps(k) THEN "attempt" ELSE state[s]]
    /\ results' = [s \in Steps |->
                     IF s \in skip THEN "skipped"
                     ELSE IF s \in fail THEN "failed" ELSE results[s]]

\* Seeded bug: only 'failed' results stop the run, a timed out step does not.
LayerFailedOnly == \E s \in LayerSteps(current) : results[s] = "failed"

LayerFailed == \E s \in LayerSteps(current) : results[s] \in Bad

Advance ==
  /\ run = "going" /\ LayerDone
  /\ IF LayerFailed
       THEN run' = "rejected" /\ UNCHANGED <<current, state, results>>
     ELSE IF current = Depth
       THEN run' = "resolved" /\ UNCHANGED <<current, state, results>>
     ELSE /\ current' = current + 1
          /\ Launch(current + 1)
          /\ UNCHANGED run
  /\ UNCHANGED <<attempt, report, logged>>

\* Promise.all rejects with the first promise that does, the others go on.
Break ==
  /\ run = "going" /\ LayerBroken
  /\ run' = "rejected"
  /\ UNCHANGED <<current, state, attempt, results, report, logged>>

-----------------------------------------------------------------------------
(* executeStep and runStep.                                                 *)

Settle(s, r) ==
  /\ state' = [state EXCEPT ![s] = "settled"]
  /\ results' = [results EXCEPT ![s] = r]
  /\ UNCHANGED attempt

\* Seeded bug: off by one, a step gets an attempt too many.
RetryOnceMoreOr(s, r) ==
  IF attempt[s] <= MaxRetries[s]
    THEN /\ state' = [state EXCEPT ![s] = "backoff"]
         /\ UNCHANGED <<attempt, results>>
    ELSE Settle(s, r)

\* withRetry: sleep before another attempt, or give up with the last error.
RetryOr(s, r) ==
  IF attempt[s] < MaxRetries[s]
    THEN /\ state' = [state EXCEPT ![s] = "backoff"]
         /\ UNCHANGED <<attempt, results>>
    ELSE Settle(s, r)

\* A reaction of the event loop for a script, a turn of its own for the others.
MayEnd(s) == state[s] = "attempt" /\ (s \in Sync \/ Quiet)

Succeed(s) ==
  /\ MayEnd(s)
  /\ Settle(s, "success")
  /\ UNCHANGED <<current, run, report, logged>>

Fail(s) ==
  /\ MayEnd(s)
  /\ RetryOr(s, "failed")
  /\ UNCHANGED <<current, run, report, logged>>

\* Seeded bug: the step timers are cleared when the run has been reported.
StepTimeoutUnlessReported(s) ==
  /\ state[s] = "attempt" /\ s \notin Sync /\ Quiet /\ report = "none"
  /\ RetryOr(s, "timeout")
  /\ UNCHANGED <<current, run, report, logged>>

\* withStepTimeout: the timer wins the race, the call itself goes on unheard.
StepTimeout(s) ==
  /\ state[s] = "attempt" /\ s \notin Sync /\ Quiet
  /\ RetryOr(s, "timeout")
  /\ UNCHANGED <<current, run, report, logged>>

Retry(s) ==
  /\ state[s] = "backoff" /\ Quiet
  /\ state' = [state EXCEPT ![s] = "attempt"]
  /\ attempt' = [attempt EXCEPT ![s] = @ + 1]
  /\ UNCHANGED <<current, run, results, report, logged>>

-----------------------------------------------------------------------------
(* execute.                                                                 *)

\* Seeded bug: only steps that were started get an entry.
FillStarted ==
  results' = [s \in Steps |-> IF results[s] = "none" /\ state[s] # "idle"
                                THEN "aborted" ELSE results[s]]

\* Seeded bug: a step's own error is replaced.
FillAllNotGood ==
  results' = [s \in Steps |-> IF results[s] \in Good THEN results[s] ELSE "aborted"]

\* Lines 103-116: an entry for each step that has none.
FillMissing ==
  results' = [s \in Steps |-> IF results[s] = "none" THEN "aborted" ELSE results[s]]

ReportResolved ==
  /\ run = "resolved" /\ report = "none"
  /\ report' = IF \E s \in Steps : results[s] = "failed" THEN "failed" ELSE "success"
  /\ UNCHANGED <<current, run, state, attempt, results, logged>>

\* Seeded bug: the catch branch handles timeouts only and throws the rest on.
ReportRejectedRethrows ==
  /\ run = "rejected" /\ report = "none"
  /\ UNCHANGED vars

ReportRejected ==
  /\ run = "rejected" /\ report = "none"
  /\ report' = "failed"
  /\ FillMissing
  /\ UNCHANGED <<current, run, state, attempt, logged>>

\* Seeded bug: a timeout is reported like any other error.
WorkflowTimeoutAsFailure ==
  /\ report = "none" /\ Quiet
  /\ report' = "failed"
  /\ FillMissing
  /\ UNCHANGED <<current, run, state, attempt, logged>>

WorkflowTimeout ==
  /\ report = "none" /\ Quiet
  /\ report' = "timeout"
  /\ FillMissing
  /\ UNCHANGED <<current, run, state, attempt, logged>>

\* handleRun reads the map again when the update of the row has returned.
Persist ==
  /\ report # "none" /\ Quiet
  /\ \A s \in Steps : logged[s] = "none"
  /\ logged' = results
  /\ UNCHANGED <<current, run, state, attempt, results, report>>

Reaction == Advance \/ Break \/ ReportResolved \/ ReportRejected

Next ==
  \/ Reaction
  \/ \E s \in Steps : Succeed(s) \/ Fail(s) \/ StepTimeout(s) \/ Retry(s)
  \/ WorkflowTimeout \/ Persist

\* Reactions run, scripts end (they have a timeout of their own), timers fire.
\* No server has to answer.
Fairness ==
  /\ WF_vars(Reaction)
  /\ \A s \in Sync : WF_vars(Succeed(s) \/ Fail(s))
  /\ \A s \in Steps : WF_vars(StepTimeout(s)) /\ WF_vars(Retry(s))
  /\ WF_vars(WorkflowTimeout)
  /\ WF_vars(Persist)

Spec == Init /\ [][Next]_vars
FairSpec == Spec /\ Fairness

-----------------------------------------------------------------------------
(* What a run promises, as DagSchedule states it, and what it looks like    *)
(* from there.                                                              *)

PhaseOf(s) ==
  CASE state[s] = "idle" -> "waiting"
    [] state[s] \in {"attempt", "backoff"} -> "running"
    [] state[s] = "settled" /\ results[s] \in Good -> "good"
    [] OTHER -> "bad"

phase == [s \in Steps |-> PhaseOf(s)]

DS == INSTANCE DagSchedule WITH phase <- phase, verdict <- report

\* Every run of a workflow is a schedule of its graph: steps start when what
\* they need has ended well and nothing has failed, end once, and the verdict
\* is given once and says what happened.
ImplementsDagSchedule == DS!Spec

-----------------------------------------------------------------------------
TypeOK ==
  /\ current \in 0 .. Depth
  /\ run \in {"going", "resolved", "rejected"}
  /\ state \in [Steps -> StepStates]
  /\ attempt \in [Steps -> Nat]
  /\ \A s \in Steps : attempt[s] = 0 \/ attempt[s] <= MaxRetries[s]
  /\ results \in [Steps -> Results]
  /\ report \in {"none", "success", "failed", "timeout"}
  /\ logged \in [Steps -> Results]

\* A step is not started before all it depends on has ended well (success or
\* skipped), in the run that goes on after a workflow timeout too.
DependencyOrder ==
  \A s \in Steps :
    state[s] # "idle" =>
      \A d \in DependsOn[s] : state[d] = "settled" /\ results[d] \in Good

\* The map returned has an entry for every step, however the run ended.
ReportComplete == report # "none" => \A s \in Steps : results[s] # "none"

\* The step logs agree with the status they are stored with, although the map
\* is read after the report and the run may still write to it: success has
\* good steps only, and failed has at least one step to blame.
LogsExplainStatus ==
  (\A s \in Steps : logged[s] # "none") =>
    /\ report = "success" => \A s \in Steps : logged[s] \in Good
    /\ report = "failed" => \E s \in Steps : logged[s] \in Bad \cup {"aborted"}

\* A result that a step has produced is never changed, and a step is never run
\* a second time, by the fill-in of missing results or by the run going on.
ResultsFinal ==
  [][\A s \in Steps :
       state[s] = "settled" =>
         state'[s] = "settled" /\ results'[s] = results[s]]_vars

\* What was returned changes later only after a workflow timeout, or when one
\* step's runIf threw while others of its layer were in flight.
ReportStable ==
  [][report # "none" /\ results' # results =>
       report = "timeout" \/ \E s \in Steps : state[s] = "crashed"]_vars

\* execute returns, with servers that never answer too.
Returns == <>(report # "none")

\* No step goes on for ever: a run that nobody waits for any more ends as well.
Drains == <>[](\A s \in Steps : state[s] \notin {"attempt", "backoff"})

=============================================================================
