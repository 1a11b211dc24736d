----------------------- MODULE WorkflowExecutorProofs -----------------------
(***************************************************************************)
(* Proofs about WorkflowExecutor and StepData, for every validated graph   *)
(* of steps and every configuration of retries, scripts, conditions and    *)
(* runIf expressions.                                                      *)
(***************************************************************************)
EXTENDS StepData, SequenceTheorems, FiniteSetTheorems, TLAPS

Ended(s, R) == state[s] = "settled" /\ results[s] \in R

\* How far executeLayered has got: everything in the layers before the current
\* one has ended well, nothing in those behind it has been touched.
LayersInv ==
  \A s \in Steps :
    /\ Layer[s] < current => Ended(s, Good)
    /\ Layer[s] > current => state[s] = "idle"
    /\ Layer[s] = current => state[s] # "idle"

\* The entries of the map: a step's own result from when it settles, before
\* that none or the entry filled in by a report.
ResultsInv ==
  \A s \in Steps :
    /\ state[s] = "settled" => results[s] \in Good \cup Bad
    /\ state[s] # "settled" => results[s] \in {"none", "aborted"}

\* No step is in flight.
AtRest == \A s \in Steps : state[s] \in {"idle", "settled", "crashed"}

\* What the promise of executeLayered tells.
RunInv ==
  /\ run = "resolved" => \A s \in Steps : Ended(s, Good)
  /\ run = "rejected" => \/ AtRest /\ \E s \in Steps : Ended(s, Bad)
                         \/ \E s \in Steps : state[s] = "crashed"

\* What was reported, and that nothing is left out of it.
ReportInv ==
  /\ report = "success" => run = "resolved"
  /\ report = "failed" => run = "rejected"
  /\ report # "none" => \A s \in Steps : results[s] # "none"

\* A step waits for another attempt only if it has one left.
AttemptInv == \A s \in Steps : state[s] = "backoff" => attempt[s] < MaxRetries[s]

IInv == TypeOK /\ AttemptInv /\ LayersInv /\ ResultsInv /\ RunInv /\ ReportInv

LEMMA LayerType ==
  /\ Depth \in Nat
  /\ \A s \in Steps : Layer[s] \in Nat /\ Layer[s] >= 1 /\ Layer[s] <= Depth
  BY ExecutorAssumption DEF ExecutorAssumption

LEMMA InvInit == Init => IInv
<1> SUFFICES ASSUME Init PROVE IInv
  OBVIOUS
<1> USE ExecutorAssumption DEF ExecutorAssumption, Init
<1>1. TypeOK
  BY DEF TypeOK, StepStates, Results
<1>2. LayersInv
  <2>1. ASSUME NEW s \in Steps
        PROVE  state[s] = "idle" /\ ~(Layer[s] < current) /\ Layer[s] # current
    BY LayerType
  <2> QED
    BY <2>1 DEF LayersInv
<1>3. AttemptInv /\ ResultsInv /\ RunInv /\ ReportInv
  BY DEF AttemptInv, ResultsInv, RunInv, ReportInv
<1> QED
  BY <1>1, <1>2, <1>3 DEF IInv

-----------------------------------------------------------------------------
(* Type correctness of one step.                                            *)

LEMMA RetryType ==
  ASSUME TypeOK, NEW s \in Steps, NEW r \in Bad, RetryOr(s, r)
  PROVE  /\ state' \in [Steps -> StepStates]
         /\ results' \in [Steps -> Results]
         /\ UNCHANGED attempt
  BY DEF TypeOK, RetryOr, Settle, StepStates, Results

\* What launching a layer does to its steps: some are skipped, some fail at once.
LEMMA LaunchTells ==
  ASSUME NEW k, Launch(k)
  PROVE  \E skip \in SUBSET (LayerSteps(k) \cap RunIf), fail \in SUBSET LayerSteps(k) :
           /\ skip \cap fail = {}
           /\ state' \in [Steps -> {"settled", "crashed", "attempt"} \cup {state[t] : t \in Steps}]
           /\ results' = [t \in Steps |->
                            IF t \in skip THEN "skipped"
                            ELSE IF t \in fail THEN "failed" ELSE results[t]]
           /\ \A t \in Steps :
                /\ t \in skip \cup fail => state'[t] = "settled"
                /\ t \in LayerSteps(k) \ (skip \cup fail) => state'[t] \in {"crashed", "attempt"}
                /\ t \notin LayerSteps(k) => state'[t] = state[t]
<1>1. PICK skip \in SUBSET (LayerSteps(k) \cap RunIf) :
      \E crash \in SUBSET ((LayerSteps(k) \cap RunIf) \ skip) :
        LET fail == (LayerSteps(k) \cap NoAttempts) \ (skip \cup crash) IN
        /\ state' = [s \in Steps |->
                       IF s \in skip \cup fail THEN "settled"
                       ELSE IF s \in crash THEN "crashed"
                       ELSE IF s \in LayerSteps(k) THEN "attempt" ELSE state[s]]
        /\ results' = [s \in Steps |->
                         IF s \in skip THEN "skipped"
                         ELSE IF s \in fail THEN "failed" ELSE results[s]]
  BY DEF Launch
<1>2. PICK crash \in SUBSET ((LayerSteps(k) \cap RunIf) \ skip) :
        LET fail == (LayerSteps(k) \cap NoAttempts) \ (skip \cup crash) IN
        /\ state' = [s \in Steps |->
                       IF s \in skip \cup fail THEN "settled"
                       ELSE IF s \in crash THEN "crashed"
                       ELSE IF s \in LayerSteps(k) THEN "attempt" ELSE state[s]]
        /\ results' = [s \in Steps |->
                         IF s \in skip THEN "skipped"
                         ELSE IF s \in fail THEN "failed" ELSE results[s]]
  BY <1>1
<1> DEFINE fail == (LayerSteps(k) \cap NoAttempts) \ (skip \cup crash)
<1>3. skip \cap fail = {} /\ fail \in SUBSET LayerSteps(k) /\ skip \subseteq LayerSteps(k)
  OBVIOUS
<1>4. \A t \in Steps :
        /\ t \in skip \cup fail => state'[t] = "settled"
        /\ t \in LayerSteps(k) \ (skip \cup fail) => state'[t] \in {"crashed", "attempt"}
        /\ t \notin LayerSteps(k) => state'[t] = state[t]
  BY <1>2, <1>3
<1>5. state' \in [Steps -> {"settled", "crashed", "attempt"} \cup {state[t] : t \in Steps}]
  BY <1>2
<1> QED
  BY <1>2, <1>3, <1>4, <1>5

LEMMA TypeStep == TypeOK /\ AttemptInv /\ [Next]_vars => TypeOK'
<1> SUFFICES ASSUME TypeOK, AttemptInv, [Next]_vars PROVE TypeOK'
  OBVIOUS
<1>1. CASE Advance
  <2>1. /\ state' \in [Steps -> StepStates]
        /\ results' \in [Steps -> Results]
    <3>1. CASE UNCHANGED <<state, results>>
      BY <3>1 DEF TypeOK
    <3>2. CASE Launch(current + 1)
      <4>1. state' \in [Steps -> {"settled", "crashed", "attempt"} \cup {state[t] : t \in Steps}]
        BY <3>2, LaunchTells
      <4>2. {"settled", "crashed", "attempt"} \cup {state[t] : t \in Steps} \subseteq StepStates
        BY DEF TypeOK, StepStates
      <4>3. results' \in [Steps -> Results]
        BY <3>2, LaunchTells DEF TypeOK, Results, Good, Bad
      <4> QED
        BY <4>1, <4>2, <4>3
    <3> QED
      BY <1>1, <3>1, <3>2 DEF Advance
  <2>2. current' \in 0 .. Depth /\ run' \in {"going", "resolved", "rejected"}
    BY <1>1, ExecutorAssumption DEF ExecutorAssumption, Advance, TypeOK
  <2> QED
    BY <1>1, <2>1, <2>2 DEF Advance, TypeOK
<1>2. CASE Break
  BY <1>2 DEF Break, TypeOK
<1>3. ASSUME NEW s \in Steps, Succeed(s) PROVE TypeOK'
  BY <1>3 DEF Succeed, Settle, TypeOK, StepStates, Results, Good
<1>4. ASSUME NEW s \in Steps, Fail(s) PROVE TypeOK'
  BY <1>4, RetryType DEF Fail, TypeOK, Bad
<1>5. ASSUME NEW s \in Steps, StepTimeout(s) PROVE TypeOK'
  BY <1>5, RetryType DEF StepTimeout, TypeOK, Bad
<1>6. ASSUME NEW s \in Steps, Retry(s) PROVE TypeOK'
  <2>1. attempt[s] \in Nat /\ MaxRetries[s] \in Int /\ attempt[s] < MaxRetries[s]
    BY <1>6, ExecutorAssumption DEF ExecutorAssumption, Retry, TypeOK, AttemptInv
  <2>2. /\ attempt' \in [Steps -> Nat]
        /\ \A t \in Steps : attempt'[t] = 0 \/ attempt'[t] <= MaxRetries[t]
    BY <1>6, <2>1 DEF Retry, TypeOK
  <2>3. state' \in [Steps -> StepStates]
    BY <1>6 DEF Retry, TypeOK, StepStates
  <2> QED
    BY <1>6, <2>2, <2>3 DEF Retry, TypeOK
<1>7. CASE ReportResolved
  BY <1>7 DEF ReportResolved, TypeOK
<1>8. CASE ReportRejected \/ WorkflowTimeout
  BY <1>8 DEF ReportRejected, WorkflowTimeout, FillMissing, TypeOK, Results
<1>9. CASE Persist
  BY <1>9 DEF Persist, TypeOK
<1>10. CASE UNCHANGED vars
  BY <1>10 DEF vars, TypeOK
<1> QED
  BY <1>1, <1>2, <1>3, <1>4, <1>5, <1>6, <1>7, <1>8, <1>9, <1>10
  DEF Next, Reaction

-----------------------------------------------------------------------------
(* The invariant is inductive.  What most steps do is one of two changes: a  *)
(* step of the current layer goes on, or entries are filled in.             *)

LEMMA AttemptStep == IInv /\ [Next]_vars => AttemptInv'
<1> SUFFICES ASSUME IInv, [Next]_vars PROVE AttemptInv'
  OBVIOUS
<1> USE DEF IInv, TypeOK, AttemptInv
<1>1. CASE Advance
  BY <1>1 DEF Advance, Launch
<1>2. CASE Break \/ ReportResolved \/ ReportRejected \/ WorkflowTimeout \/ Persist
  BY <1>2 DEF Break, ReportResolved, ReportRejected, WorkflowTimeout, Persist
<1>3. ASSUME NEW s \in Steps, Succeed(s) \/ Fail(s) \/ StepTimeout(s) PROVE AttemptInv'
  BY <1>3 DEF Succeed, Fail, StepTimeout, RetryOr, Settle
<1>4. ASSUME NEW s \in Steps, Retry(s) PROVE AttemptInv'
  BY <1>4 DEF Retry
<1>5. CASE UNCHANGED vars
  BY <1>5 DEF vars
<1> QED
  BY <1>1, <1>2, <1>3, <1>4, <1>5 DEF Next, Reaction

\* A step that was running goes on running, or settles with a result.
GoesOn(s) ==
  /\ state[s] \in {"attempt", "backoff"}
  /\ \E x \in {"attempt", "backoff", "settled"}, r \in Good \cup Bad :
       /\ state' = [state EXCEPT ![s] = x]
       /\ results' = IF x = "settled" THEN [results EXCEPT ![s] = r] ELSE results
  /\ UNCHANGED <<current, run, report, logged>>

LEMMA StepGoesOn ==
  ASSUME NEW s \in Steps, Succeed(s) \/ Fail(s) \/ StepTimeout(s) \/ Retry(s)
  PROVE  GoesOn(s)
<1>1. CASE Succeed(s)
  BY <1>1 DEF Succeed, MayEnd, Settle, GoesOn, Good
<1>2. CASE Fail(s)
  BY <1>2 DEF Fail, MayEnd, RetryOr, Settle, GoesOn, Bad
<1>3. CASE StepTimeout(s)
  BY <1>3 DEF StepTimeout, RetryOr, Settle, GoesOn, Bad
<1>4. CASE Retry(s)
  BY <1>4 DEF Retry, GoesOn, Good
<1> QED
  BY <1>1, <1>2, <1>3, <1>4

\* Entries are filled in, for steps that have no result of their own.
Fills ==
  /\ results' = [s \in Steps |-> IF results[s] = "none" THEN "aborted" ELSE results[s]]
  /\ UNCHANGED <<current, run, state>>

LEMMA InvStep == IInv /\ [Next]_vars => IInv'
<1> SUFFICES ASSUME IInv, [Next]_vars PROVE IInv'
  OBVIOUS
<1>0. TypeOK' /\ AttemptInv'
  BY TypeStep, AttemptStep DEF IInv
<1> DEFINE Rest == (LayersInv /\ ResultsInv /\ RunInv /\ ReportInv)'
<1> USE DEF IInv, Ended
<1>1. CASE Advance
  <2> USE DEF TypeOK
  <2>1. current \in Nat /\ run = "going" /\ report = report'
    BY <1>1, LayerType DEF Advance
  <2>2. \A s \in Steps : Layer[s] = current => state[s] = "settled"
    BY <1>1 DEF Advance, LayerDone, LayerSteps
  <2>3. CASE LayerFailed
    <3>1. \E s \in Steps : Ended(s, Bad)
      BY <2>2, <2>3 DEF LayerFailed, LayerSteps
    <3>2. run' = "rejected" /\ UNCHANGED <<current, state, results, report>>
      BY <1>1, <2>3 DEF Advance
    <3>3. AtRest
      BY <2>1, <2>2, LayerType DEF AtRest, LayersInv
    <3> QED
      BY <1>0, <2>1, <3>1, <3>2, <3>3 DEF LayersInv, ResultsInv, RunInv, ReportInv, AtRest
  <2>4. CASE ~LayerFailed /\ current = Depth
    <3>1. run' = "resolved" /\ UNCHANGED <<current, state, results, report>>
      BY <1>1, <2>4 DEF Advance
    <3>2. \A s \in Steps : Ended(s, Good)
      <4> SUFFICES ASSUME NEW s \in Steps PROVE Ended(s, Good)
        OBVIOUS
      <4>1. CASE Layer[s] < current
        BY <4>1 DEF LayersInv
      <4>2. CASE Layer[s] = current
        BY <4>2, <2>2, <2>4 DEF LayerFailed, LayerSteps, ResultsInv
      <4> QED
        BY <4>1, <4>2, <2>4, LayerType
    <3> QED
      BY <1>0, <2>1, <3>1, <3>2 DEF LayersInv, ResultsInv, RunInv, ReportInv
  <2>5. CASE ~LayerFailed /\ current # Depth
    <3>1. current' = current + 1 /\ UNCHANGED run /\ Launch(current + 1)
      BY <1>1, <2>5 DEF Advance
    <3>2. \A s \in Steps : Layer[s] <= current => Ended(s, Good)
      BY <2>2, <2>5, LayerType, <2>1 DEF LayersInv, LayerFailed, LayerSteps, ResultsInv
    <3>3. \A s \in Steps :
            /\ Layer[s] # current + 1 => state'[s] = state[s] /\ results'[s] = results[s]
            /\ Layer[s] = current + 1 =>
                 \/ state'[s] = "settled" /\ results'[s] \in {"skipped", "failed"}
                 \/ state'[s] \in {"attempt", "crashed"} /\ results'[s] = results[s]
      BY <3>1 DEF Launch, LayerSteps
    <3>4. LayersInv'
      <4> SUFFICES ASSUME NEW s \in Steps
                   PROVE  /\ Layer[s] < current' => Ended(s, Good)'
                          /\ Layer[s] > current' => state'[s] = "idle"
                          /\ Layer[s] = current' => state'[s] # "idle"
        BY DEF LayersInv
      <4>1. CASE Layer[s] = current + 1
        BY <4>1, <3>1, <3>3, <2>1
      <4>2. CASE Layer[s] < current + 1
        BY <4>2, <3>1, <3>2, <3>3, <2>1, LayerType
      <4>3. CASE Layer[s] > current + 1
        <5>1. state[s] = "idle" /\ state'[s] = state[s]
          BY <4>3, <3>3, <2>1, LayerType DEF LayersInv
        <5> QED
          BY <5>1, <4>3, <3>1, <2>1, LayerType
      <4> QED
        BY <4>1, <4>2, <4>3, <2>1, LayerType
    <3>5. ResultsInv'
      <4> SUFFICES ASSUME NEW s \in Steps
                   PROVE  /\ state'[s] = "settled" => results'[s] \in Good \cup Bad
                          /\ state'[s] # "settled" => results'[s] \in {"none", "aborted"}
        BY DEF ResultsInv
      <4>1. CASE Layer[s] = current + 1
        <5>1. state[s] = "idle"
          BY <4>1, <2>1 DEF LayersInv
        <5> QED
          BY <5>1, <4>1, <3>3 DEF ResultsInv, Good, Bad
      <4>2. CASE Layer[s] # current + 1
        BY <4>2, <3>3 DEF ResultsInv
      <4> QED
        BY <4>1, <4>2
    <3>6. RunInv'
      BY <3>1, <2>1 DEF RunInv
    <3>7. ReportInv'
      <4>1. report # "none" => \A s \in Steps : results'[s] # "none"
        BY <3>3 DEF ReportInv
      <4> QED
        BY <4>1, <2>1, <3>1 DEF ReportInv
    <3> QED
      BY <1>0, <3>4, <3>5, <3>6, <3>7
  <2> QED
    BY <2>3, <2>4, <2>5
<1>2. CASE Break
  BY <1>0, <1>2 DEF Break, LayerBroken, LayerSteps, LayersInv, ResultsInv, RunInv, AtRest, ReportInv
<1>3. ASSUME NEW s \in Steps, GoesOn(s) PROVE Rest
  <2>1. Layer[s] = current
    BY <1>3, LayerType DEF GoesOn, LayersInv, TypeOK
  <2>2. /\ UNCHANGED <<current, run, report>>
        /\ \A t \in Steps : t # s => state'[t] = state[t] /\ results'[t] = results[t]
        /\ state'[s] \in {"attempt", "backoff"} => results'[s] = results[s]
        /\ state'[s] \notin {"attempt", "backoff"} =>
             state'[s] = "settled" /\ results'[s] \in Good \cup Bad
        /\ state[s] \in {"attempt", "backoff"}
    BY <1>3 DEF GoesOn, TypeOK
  <2>3. LayersInv'
    BY <2>1, <2>2, LayerType DEF LayersInv
  <2>4. ResultsInv'
    BY <2>2 DEF ResultsInv
  <2>5. RunInv'
    BY <2>2 DEF RunInv, AtRest
  <2>6. ReportInv'
    BY <2>2 DEF ReportInv, Good, Bad
  <2> QED
    BY <2>3, <2>4, <2>5, <2>6
<1>4. ASSUME Fills,
             report' = "success" => run = "resolved",
             report' = "failed" => run = "rejected"
      PROVE  Rest
  BY <1>4 DEF Fills, LayersInv, ResultsInv, RunInv, AtRest, ReportInv, TypeOK, Good, Bad
<1>5. CASE ReportResolved
  <2>1. \A s \in Steps : Ended(s, Good)
    BY <1>5 DEF ReportResolved, RunInv
  <2>2. report' = "success" /\ UNCHANGED <<current, run, state, results>>
    BY <1>5, <2>1 DEF ReportResolved, Good
  <2>3. run = "resolved"
    BY <1>5 DEF ReportResolved
  <2> QED
    BY <1>0, <2>1, <2>2, <2>3
    DEF LayersInv, ResultsInv, RunInv, ReportInv, Good
<1>6. CASE ReportRejected
  BY <1>0, <1>4, <1>6 DEF ReportRejected, FillMissing, Fills
<1>7. CASE WorkflowTimeout
  BY <1>0, <1>4, <1>7 DEF WorkflowTimeout, FillMissing, Fills
<1>8. CASE Persist \/ UNCHANGED vars
  BY <1>0, <1>8
  DEF Persist, vars, LayersInv, ResultsInv, RunInv, AtRest, ReportInv
<1> QED
  BY <1>0, <1>1, <1>2, <1>3, <1>5, <1>6, <1>7, <1>8, StepGoesOn DEF Next, Reaction

LEMMA InvCorrect == Spec => []IInv
  BY InvInit, InvStep, PTL DEF Spec

-----------------------------------------------------------------------------
(* The safety properties.                                                   *)

\* Every variable keeps its type, and no step gets more attempts than its
\* retryConfig allows.
THEOREM TypeCorrect == Spec => []TypeOK
  BY InvCorrect, PTL DEF IInv

\* A step is never started before what it depends on has ended well, in the
\* run that nobody waits for any more too (executeLayered, 137-155).
THEOREM StepsWaitForDependencies == Spec => []DependencyOrder
<1>1. IInv => DependencyOrder
  <2> SUFFICES ASSUME IInv, NEW s \in Steps, state[s] # "idle", NEW d \in DependsOn[s]
               PROVE  Ended(d, Good)
    BY DEF DependencyOrder, Ended
  <2>1. d \in Steps /\ Layer[d] < Layer[s]
    BY ExecutorAssumption DEF ExecutorAssumption
  <2>2. current \in Nat /\ ~(Layer[s] > current)
    BY LayerType DEF IInv, TypeOK, LayersInv
  <2> QED
    BY <2>1, <2>2, LayerType DEF IInv, LayersInv
<1> QED
  BY <1>1, InvCorrect, PTL

\* The map that execute returns has an entry for every step (103-116).
THEOREM ReportsAreComplete == Spec => []ReportComplete
<1>1. IInv => ReportComplete
  BY DEF IInv, ReportInv, ReportComplete
<1> QED
  BY <1>1, InvCorrect, PTL

\* Before the report nothing is logged; what is logged agrees with the report.
LogInv ==
  /\ report = "none" => \A s \in Steps : logged[s] = "none"
  /\ LogsExplainStatus

LEMMA ReportReasons ==
  ASSUME IInv
  PROVE  /\ report = "success" => \A s \in Steps : results[s] \in Good
         /\ report = "failed" => \E s \in Steps : results[s] \in Bad \cup {"aborted"}
<1>1. report = "success" => \A s \in Steps : results[s] \in Good
  BY DEF IInv, ReportInv, RunInv, Ended
<1>2. ASSUME report = "failed"
      PROVE  \E s \in Steps : results[s] \in Bad \cup {"aborted"}
  <2>1. PICK s \in Steps : Ended(s, Bad) \/ state[s] = "crashed"
    BY <1>2 DEF IInv, ReportInv, RunInv
  <2>2. results[s] # "none"
    BY <1>2 DEF IInv, ReportInv
  <2> QED
    BY <2>1, <2>2 DEF Ended, IInv, ResultsInv
<1> QED
  BY <1>1, <1>2

LEMMA LogStep == IInv /\ LogInv /\ [Next]_vars => LogInv'
<1> SUFFICES ASSUME IInv, LogInv, [Next]_vars PROVE LogInv'
  OBVIOUS
<1>1. CASE Persist
  BY <1>1, ReportReasons DEF Persist, LogInv, LogsExplainStatus
<1>2. ASSUME report' = report, logged' = logged PROVE LogInv'
  BY <1>2 DEF LogInv, LogsExplainStatus
<1>3. CASE ReportResolved \/ ReportRejected \/ WorkflowTimeout
  <2>1. report = "none" /\ report' # "none" /\ logged' = logged
    BY <1>3 DEF ReportResolved, ReportRejected, WorkflowTimeout
  <2>2. \A s \in Steps : logged[s] = "none"
    BY <2>1 DEF LogInv
  <2>3. report' = "failed" => \E s \in Steps : TRUE
    BY <1>3, <2>1 DEF ReportResolved, ReportRejected, WorkflowTimeout, IInv, RunInv
  <2> QED
    BY <2>1, <2>2, <2>3 DEF LogInv, LogsExplainStatus
<1>4. CASE Advance \/ Break \/ UNCHANGED vars
  BY <1>2, <1>4 DEF Advance, Break, vars
<1>5. ASSUME NEW s \in Steps, GoesOn(s) PROVE LogInv'
  BY <1>2, <1>5 DEF GoesOn
<1> QED
  BY <1>1, <1>3, <1>4, <1>5, StepGoesOn DEF Next, Reaction

\* The step logs are stored with a status they explain, although the map is
\* read after execute has returned it (execution.processor.ts, 111-141).
THEOREM LogsAgreeWithStatus == Spec => []LogsExplainStatus
<1>1. Init => LogInv
  BY DEF Init, LogInv, LogsExplainStatus
<1>2. LogInv => LogsExplainStatus
  BY DEF LogInv
<1> QED
  BY <1>1, <1>2, LogStep, InvCorrect, PTL DEF Spec

-----------------------------------------------------------------------------
(* What a step may never do.                                                *)

LEMMA SettledStays ==
  IInv /\ [Next]_vars =>
    \A s \in Steps : state[s] = "settled" => state'[s] = "settled" /\ results'[s] = results[s]
<1>0. CASE UNCHANGED vars
  BY <1>0 DEF vars
<1> SUFFICES ASSUME IInv, Next, NEW s \in Steps, state[s] = "settled"
             PROVE  state'[s] = "settled" /\ results'[s] = results[s]
  BY <1>0
<1> USE DEF IInv, TypeOK
<1>1. CASE Advance
  <2>1. current \in Nat /\ Layer[s] <= current
    BY LayerType DEF LayersInv
  <2> QED
    BY <1>1, <2>1, LayerType DEF Advance, Launch, LayerSteps
<1>2. CASE Break \/ ReportResolved \/ Persist
  BY <1>2 DEF Break, ReportResolved, Persist
<1>3. ASSUME NEW t \in Steps, GoesOn(t)
      PROVE  state'[s] = "settled" /\ results'[s] = results[s]
  BY <1>3 DEF GoesOn
<1>4. CASE ReportRejected \/ WorkflowTimeout
  BY <1>4 DEF ReportRejected, WorkflowTimeout, FillMissing, ResultsInv, Good, Bad
<1> QED
  BY <1>1, <1>2, <1>3, <1>4, StepGoesOn DEF Next, Reaction

\* The result of a step that has settled is final and the step is not run a
\* second time (runStep, and the entries execute fills in).
THEOREM ResultsAreFinal == Spec => ResultsFinal
<1>1. IInv /\ [Next]_vars =>
        [\A s \in Steps : state[s] = "settled" =>
           state'[s] = "settled" /\ results'[s] = results[s]]_vars
  BY SettledStays
<1> QED
  BY <1>1, InvCorrect, PTL DEF Spec, ResultsFinal

\* Once it is returned, the map changes only behind a workflow timeout or a
\* step whose runIf threw (Promise.all and Promise.race abandon the rest).
THEOREM ReportsAreStable == Spec => ReportStable
<1>1. IInv /\ [Next]_vars =>
        [report # "none" /\ results' # results =>
           report = "timeout" \/ \E s \in Steps : state[s] = "crashed"]_vars
  <2> SUFFICES ASSUME IInv, Next, report # "none", results' # results, report # "timeout"
               PROVE  \E s \in Steps : state[s] = "crashed"
    OBVIOUS
  <2>1. run # "going"
    BY DEF IInv, TypeOK, ReportInv
  <2>2. ~Advance /\ ~Break /\ ~ReportResolved /\ ~ReportRejected /\ ~WorkflowTimeout /\ ~Persist
    BY <2>1 DEF Advance, Break, ReportResolved, ReportRejected, WorkflowTimeout, Persist
  <2>3. PICK s \in Steps : GoesOn(s)
    BY <2>2, StepGoesOn DEF Next, Reaction
  <2>4. ~AtRest /\ ~Ended(s, Good)
    BY <2>3 DEF GoesOn, AtRest, Ended
  <2> QED
    BY <2>1, <2>4 DEF IInv, TypeOK, RunInv
<1> QED
  BY <1>1, InvCorrect, PTL DEF Spec, ReportStable

-----------------------------------------------------------------------------
(* Every run is a schedule of the graph.                                    *)

LEMMA PhaseFrame ==
  ASSUME NEW s \in Steps, state'[s] = state[s],
         state[s] = "settled" => results'[s] = results[s]
  PROVE  PhaseOf(s)' = PhaseOf(s)
  BY DEF PhaseOf

LEMMA PhaseSame ==
  ASSUME \A s \in Steps : PhaseOf(s)' = PhaseOf(s)
  PROVE  phase' = phase
  BY DEF phase

\* The next layer is a set of ready steps.
LEMMA AdvanceStarts ==
  ASSUME IInv, Advance
  PROVE  DS!Start \/ UNCHANGED DS!vars
<1> USE DEF IInv, TypeOK
<1>1. CASE UNCHANGED <<state, results>>
  <2>1. phase' = phase
    BY <1>1, PhaseFrame, PhaseSame
  <2> QED
    BY <2>1 DEF Advance, DS!vars
<1>2. CASE ~LayerFailed /\ current' = current + 1 /\ Launch(current + 1)
  <2>1. current \in Nat
    OBVIOUS
  <2>2. \A s \in Steps : Layer[s] <= current => Ended(s, Good)
    BY <2>1, <1>2, LayerType DEF Advance, LayerDone, LayersInv, LayerFailed, LayerSteps, ResultsInv, Ended
  <2>3. \A s \in Steps : Layer[s] > current => state[s] = "idle"
    BY DEF LayersInv
  <2>4. \A s \in Steps : Layer[s] <= current => PhaseOf(s) = "good"
    BY <2>2 DEF PhaseOf, Ended
  <2>5. \A s \in Steps : Layer[s] > current => PhaseOf(s) = "waiting"
    BY <2>3 DEF PhaseOf
  <2>6. \A s \in Steps : Layer[s] # current + 1 => PhaseOf(s)' = PhaseOf(s)
    <3>1. \A s \in Steps : Layer[s] # current + 1 => state'[s] = state[s] /\ results'[s] = results[s]
      BY <1>2 DEF Launch, LayerSteps
    <3> QED
      BY <3>1, PhaseFrame
  <2>7. \A s \in Steps : phase[s] # "bad"
    <3> SUFFICES ASSUME NEW s \in Steps PROVE PhaseOf(s) # "bad"
      BY DEF phase
    <3>1. Layer[s] \in Nat
      BY LayerType
    <3>2. Layer[s] <= current \/ Layer[s] > current
      BY <2>1, <3>1
    <3> QED
      BY <2>4, <2>5, <3>2
  <2>8. phase' \in [Steps -> {"waiting", "running", "good", "bad"}]
    BY DEF phase, PhaseOf
  <2>9. ASSUME NEW s \in Steps, phase'[s] # phase[s] PROVE DS!Ready(s)
    <3>1. Layer[s] = current + 1
      BY <2>6, <2>9 DEF phase
    <3>2. phase[s] = "waiting"
      BY <2>1, <2>5, <3>1 DEF phase
    <3>3. \A d \in DependsOn[s] : d \in Steps /\ Layer[d] <= current
      BY <2>1, <3>1, ExecutorAssumption, LayerType DEF ExecutorAssumption
    <3>4. \A d \in DependsOn[s] : phase[d] = "good"
      BY <2>4, <3>3 DEF phase
    <3> QED
      BY <3>2, <3>4 DEF DS!Ready
  <2> QED
    BY <2>7, <2>8, <2>9 DEF DS!Start, Advance
<1> QED
  BY <1>1, <1>2 DEF Advance

\* A step that goes on is still running, or ends well or badly.
LEMMA GoingOnEnds ==
  ASSUME IInv, NEW s \in Steps, GoesOn(s)
  PROVE  DS!Next \/ UNCHANGED DS!vars
<1> USE DEF IInv, TypeOK, GoesOn
<1>1. phase[s] = "running"
  BY DEF phase, PhaseOf
<1>2. ASSUME NEW t \in Steps, t # s PROVE PhaseOf(t)' = PhaseOf(t)
  <2>1. state'[t] = state[t] /\ results'[t] = results[t]
    BY <1>2
  <2> QED
    BY <2>1, PhaseFrame
<1>3. PhaseOf(s)' \in {"running", "good", "bad"}
  BY DEF PhaseOf
<1>4. phase' = [phase EXCEPT ![s] = PhaseOf(s)']
  BY <1>2 DEF phase
<1>a. phase[s] = PhaseOf(s) /\ UNCHANGED report
  BY DEF phase
<1> HIDE DEF IInv, TypeOK, GoesOn
<1>5. CASE PhaseOf(s)' = "running"
  <2>1. phase = [t \in Steps |-> phase[t]]
    BY DEF phase
  <2>2. phase' = phase
    BY <1>1, <1>4, <1>5, <2>1
  <2> QED
    BY <1>a, <2>2 DEF DS!vars
<1>6. CASE PhaseOf(s)' \in {"good", "bad"}
  <2>1. PICK p \in {"good", "bad"} : PhaseOf(s)' = p
    BY <1>6
  <2>2. phase' = [phase EXCEPT ![s] = p]
    BY <1>4, <2>1
  <2>4. DS!End(s)
    BY <1>1, <1>a, <2>2 DEF DS!End
  <2> QED
    BY <2>4 DEF DS!Next
<1> QED
  BY <1>3, <1>5, <1>6

\* A report says what has happened to the steps.
LEMMA ReportConcludes ==
  ASSUME IInv, ReportResolved \/ ReportRejected \/ WorkflowTimeout
  PROVE  DS!Next
<1>1. phase' = phase
  <2>1. ASSUME NEW s \in Steps PROVE PhaseOf(s)' = PhaseOf(s)
    <3>1. state' = state
      BY DEF ReportResolved, ReportRejected, WorkflowTimeout
    <3>2. state[s] = "settled" => results'[s] = results[s]
      BY DEF ReportResolved, ReportRejected, WorkflowTimeout, FillMissing, IInv, ResultsInv,
             Good, Bad
    <3> QED
      BY <3>1, <3>2, PhaseFrame
  <2> QED
    BY <2>1, PhaseSame
<1>2. CASE ReportResolved
  <2>1. \A s \in Steps : Ended(s, Good)
    BY <1>2 DEF ReportResolved, IInv, RunInv
  <2>2. report = "none" /\ report' = "success"
    BY <1>2, <2>1 DEF ReportResolved, Ended, Good
  <2>3. \A s \in Steps : phase[s] = "good"
    BY <2>1 DEF phase, PhaseOf, Ended
  <2> QED
    BY <1>1, <2>2, <2>3 DEF DS!Conclude, DS!Next
<1>3. CASE ReportRejected
  <2>1. PICK s \in Steps : Ended(s, Bad) \/ state[s] = "crashed"
    BY <1>3 DEF ReportRejected, IInv, RunInv
  <2>2. phase[s] = "bad"
    BY <2>1 DEF phase, PhaseOf, Ended, Good, Bad
  <2> QED
    BY <1>1, <1>3, <2>2 DEF ReportRejected, DS!Conclude, DS!Next
<1>4. CASE WorkflowTimeout
  BY <1>1, <1>4 DEF WorkflowTimeout, DS!Conclude, DS!Next
<1> QED
  BY <1>2, <1>3, <1>4

\* WorkflowExecutor implements DagSchedule: layers, retries, timers and the
\* run that goes on after a timeout change nothing about what may start when.
THEOREM RunsAreSchedules == Spec => ImplementsDagSchedule
<1>1. Init => DS!Init
  BY DEF Init, DS!Init, phase, PhaseOf
<1>2. IInv /\ [Next]_vars => [DS!Next]_(DS!vars)
  <2> SUFFICES ASSUME IInv, [Next]_vars PROVE [DS!Next]_(DS!vars)
    OBVIOUS
  <2>1. CASE Advance
    BY <2>1, AdvanceStarts DEF DS!Next
  <2>2. ASSUME UNCHANGED <<state, results, report>> PROVE UNCHANGED DS!vars
    BY <2>2, PhaseFrame, PhaseSame DEF DS!vars
  <2>3. CASE Break \/ Persist \/ UNCHANGED vars
    BY <2>2, <2>3 DEF Break, Persist, vars
  <2>4. CASE ReportResolved \/ ReportRejected \/ WorkflowTimeout
    BY <2>4, ReportConcludes
  <2> QED
    BY <2>1, <2>3, <2>4, StepGoesOn, GoingOnEnds DEF Next, Reaction
<1> QED
  BY <1>1, <1>2, InvCorrect, PTL DEF Spec, ImplementsDagSchedule, DS!Spec

-----------------------------------------------------------------------------
(* How long a run takes.  Every turn of the event loop uses up one of a     *)
(* number of turns, which the steps, their retries and the layers bound.    *)

\* A negative number of retries takes no more turns than none.
Retries(s) == IF MaxRetries[s] < 0 THEN 0 ELSE MaxRetries[s]

\* The turns a step may still take: an attempt or a pause is one.
TurnsOf(s) ==
  CASE state[s] = "idle"    -> 2 * Retries(s) + 2
    [] state[s] = "attempt" -> 2 * (Retries(s) - attempt[s]) + 1
    [] state[s] = "backoff" -> 2 * (Retries(s) - attempt[s])
    [] OTHER                -> 0

StepTurns == UNION {{s} \X (1 .. TurnsOf(s)) : s \in Steps}
AllTurns  == UNION {{s} \X (1 .. 2 * Retries(s) + 2) : s \in Steps}

Unlogged == \A s \in Steps : logged[s] = "none"

TurnsLeft ==
  Cardinality(StepTurns) + (Depth - current)
    + (IF run = "going" THEN 1 ELSE 0)
    + (IF report = "none" THEN 1 ELSE 0)
    + (IF Unlogged THEN 1 ELSE 0)

LEMMA RetriesType ==
  ASSUME TypeOK, NEW s \in Steps
  PROVE  Retries(s) \in Nat /\ attempt[s] \in Nat /\ attempt[s] <= Retries(s)
<1>1. MaxRetries[s] \in Int /\ attempt[s] \in Nat /\ (attempt[s] = 0 \/ attempt[s] <= MaxRetries[s])
  BY ExecutorAssumption DEF ExecutorAssumption, TypeOK
<1> QED
  BY <1>1 DEF Retries

LEMMA TurnsOfType ==
  ASSUME TypeOK, NEW s \in Steps
  PROVE  TurnsOf(s) \in Nat
<1>1. Retries(s) \in Nat /\ attempt[s] \in Nat /\ attempt[s] <= Retries(s)
  BY RetriesType
<1> QED
  BY <1>1 DEF TurnsOf

\* A finite number of turns for each of finitely many steps.
LEMMA TurnsFinite ==
  ASSUME IsFiniteSet(Steps), NEW f \in [Steps -> Nat]
  PROVE  IsFiniteSet(UNION {{s} \X (1 .. f[s]) : s \in Steps})
<1> DEFINE g == [s \in Steps |-> {s} \X (1 .. f[s])]
           T == {{s} \X (1 .. f[s]) : s \in Steps}
<1>1. g \in Surjection(Steps, T)
  BY DEF Surjection
<1>2. IsFiniteSet(T)
  <2> HIDE DEF g, T
  <2> QED
    BY <1>1, FS_Surjection
<1>3. ASSUME NEW s \in Steps PROVE IsFiniteSet({s} \X (1 .. f[s]))
  <2>1. IsFiniteSet({s})
    BY FS_Singleton
  <2>2. 1 \in Int /\ f[s] \in Int
    OBVIOUS
  <2>3. IsFiniteSet(1 .. f[s])
    BY <2>2, FS_Interval
  <2> QED
    BY <2>1, <2>3, FS_Product
<1>4. \A x \in T : IsFiniteSet(x)
  BY <1>3
<1> HIDE DEF T
<1>5. IsFiniteSet(UNION T)
  BY <1>2, <1>4, FS_UNION
<1> QED
  BY <1>5 DEF T

LEMMA StepTurnsFinite ==
  ASSUME IsFiniteSet(Steps), TypeOK
  PROVE  IsFiniteSet(StepTurns) /\ Cardinality(StepTurns) \in Nat
<1> DEFINE f == [s \in Steps |-> TurnsOf(s)]
<1>1. f \in [Steps -> Nat]
  BY TurnsOfType
<1>2. StepTurns = UNION {{s} \X (1 .. f[s]) : s \in Steps}
  BY DEF StepTurns
<1> HIDE DEF f
<1>3. IsFiniteSet(StepTurns)
  BY <1>1, <1>2, TurnsFinite
<1> QED
  BY <1>3, FS_CardinalityType

LEMMA InStepTurns ==
  ASSUME NEW x
  PROVE  x \in StepTurns <=> \E s \in Steps : \E k \in 1 .. TurnsOf(s) : x = <<s, k>>
BY DEF StepTurns

LEMMA InStepTurnsNext ==
  ASSUME NEW x
  PROVE  x \in StepTurns' <=> \E s \in Steps : \E k \in 1 .. TurnsOf(s)' : x = <<s, k>>
BY DEF StepTurns

\* No step gets turns back, and a step that goes on uses one up.
LEMMA TurnsGoDown ==
  ASSUME IsFiniteSet(Steps), TypeOK, TypeOK',
         \A s \in Steps : TurnsOf(s)' <= TurnsOf(s)
  PROVE  /\ Cardinality(StepTurns') \in Nat
         /\ Cardinality(StepTurns') <= Cardinality(StepTurns)
         /\ (\E s \in Steps : TurnsOf(s)' < TurnsOf(s)) =>
              Cardinality(StepTurns') < Cardinality(StepTurns)
<1>1. ASSUME NEW s \in Steps PROVE TurnsOf(s) \in Nat /\ TurnsOf(s)' \in Nat
  <2>1. TurnsOf(s) \in Nat
    BY TurnsOfType
  <2>2. Retries(s) \in Nat /\ attempt'[s] \in Nat /\ attempt'[s] <= Retries(s)
    <3>1. MaxRetries[s] \in Int /\ attempt'[s] \in Nat /\ (attempt'[s] = 0 \/ attempt'[s] <= MaxRetries[s])
      BY ExecutorAssumption DEF ExecutorAssumption, TypeOK
    <3> QED
      BY <3>1 DEF Retries
  <2>3. TurnsOf(s)' \in Nat
    BY <2>2 DEF TurnsOf, Retries
  <2> QED
    BY <2>1, <2>3
<1>2. ASSUME NEW s \in Steps PROVE 1 .. TurnsOf(s)' \subseteq 1 .. TurnsOf(s)
  BY <1>1
<1>3. StepTurns' \subseteq StepTurns
  BY <1>2, InStepTurns, InStepTurnsNext
<1>4. IsFiniteSet(StepTurns) /\ Cardinality(StepTurns) \in Nat
  BY StepTurnsFinite
<1>5. /\ IsFiniteSet(StepTurns')
      /\ Cardinality(StepTurns') <= Cardinality(StepTurns)
      /\ Cardinality(StepTurns) = Cardinality(StepTurns') => StepTurns = StepTurns'
  <2> HIDE DEF StepTurns
  <2> QED
    BY <1>3, <1>4, FS_Subset
<1>6. Cardinality(StepTurns') \in Nat
  BY <1>5, FS_CardinalityType
<1>7. ASSUME NEW s \in Steps, TurnsOf(s)' < TurnsOf(s) PROVE StepTurns # StepTurns'
  <2>1. TurnsOf(s) \in 1 .. TurnsOf(s) /\ TurnsOf(s) \notin 1 .. TurnsOf(s)'
    BY <1>1, <1>7
  <2>2. <<s, TurnsOf(s)>> \in StepTurns
    BY <2>1, InStepTurns
  <2>3. <<s, TurnsOf(s)>> \notin StepTurns'
    BY <2>1, InStepTurnsNext
  <2> QED
    BY <2>2, <2>3
<1> QED
  BY <1>4, <1>5, <1>6, <1>7

\* The turns that are no step's own: the layers, the end of executeLayered, the
\* report and the write of the step logs.
OthersLeft ==
  (Depth - current) + (IF run = "going" THEN 1 ELSE 0)
    + (IF report = "none" THEN 1 ELSE 0) + (IF Unlogged THEN 1 ELSE 0)

LEMMA OthersType ==
  IsFiniteSet(Steps) /\ TypeOK =>
    OthersLeft \in Nat /\ TurnsLeft = Cardinality(StepTurns) + OthersLeft
<1> SUFFICES ASSUME IsFiniteSet(Steps), TypeOK
             PROVE  OthersLeft \in Nat /\ TurnsLeft = Cardinality(StepTurns) + OthersLeft
  OBVIOUS
<1>1. Depth \in Nat /\ current \in Nat /\ current <= Depth
  BY ExecutorAssumption DEF ExecutorAssumption, TypeOK
<1>2. OthersLeft \in Nat
  BY <1>1 DEF OthersLeft
<1>3. Cardinality(StepTurns) \in Nat
  BY StepTurnsFinite
<1>4. TurnsLeft = Cardinality(StepTurns) + OthersLeft
  BY <1>1, <1>3 DEF OthersLeft, TurnsLeft
<1> QED
  BY <1>2, <1>4

LEMMA TurnsType == IsFiniteSet(Steps) /\ TypeOK => TurnsLeft \in Nat
<1> SUFFICES ASSUME IsFiniteSet(Steps), TypeOK PROVE TurnsLeft \in Nat
  OBVIOUS
<1>1. Cardinality(StepTurns) \in Nat
  BY StepTurnsFinite
<1> QED
  BY <1>1, OthersType

LEMMA OthersUsed ==
  ASSUME IInv, IInv', vars' # vars,
         Advance \/ Break \/ ReportResolved \/ ReportRejected \/ WorkflowTimeout \/ Persist
  PROVE  OthersLeft' < OthersLeft
<1>1. Depth \in Nat /\ current \in Nat /\ current <= Depth
  BY ExecutorAssumption DEF ExecutorAssumption, IInv, TypeOK
<1>2. CASE Advance
  <2>1. UNCHANGED <<report, Unlogged>> /\ run = "going"
    BY <1>2 DEF Advance, Unlogged
  <2>2. \/ run' # "going" /\ current' = current
        \/ run' = "going" /\ current' = current + 1
    BY <1>2, <2>1 DEF Advance
  <2> QED
    BY <1>1, <2>1, <2>2 DEF OthersLeft
<1>3. CASE Break
  <2>1. UNCHANGED <<report, Unlogged, current>> /\ run = "going" /\ run' # "going"
    BY <1>3 DEF Break, Unlogged
  <2> QED
    BY <1>1, <2>1 DEF OthersLeft
<1>4. CASE ReportResolved \/ ReportRejected \/ WorkflowTimeout
  <2>1. UNCHANGED <<run, Unlogged, current>> /\ report = "none" /\ report' # "none"
    BY <1>4 DEF ReportResolved, ReportRejected, WorkflowTimeout, Unlogged
  <2> QED
    BY <1>1, <2>1 DEF OthersLeft
<1>5. CASE Persist
  <2>1. UNCHANGED <<run, report, current>> /\ Unlogged
    BY <1>5 DEF Persist, Unlogged
  <2>2. PICK s \in Steps : TRUE
    <3>1. CASE Steps = {}
      <4>1. logged' = logged
        BY <3>1, <1>5 DEF Persist, IInv, TypeOK
      <4> QED
        BY <4>1, <1>5 DEF Persist, vars
    <3> QED
      BY <3>1
  <2>3. logged'[s] # "none"
    BY <1>5, <2>2 DEF Persist, IInv, ReportInv
  <2>4. ~Unlogged'
    BY <2>2, <2>3 DEF Unlogged
  <2> QED
    BY <1>1, <2>1, <2>4 DEF OthersLeft
<1> QED
  BY <1>2, <1>3, <1>4, <1>5

LEMMA StepUsesTurn ==
  ASSUME IInv, NEW s \in Steps, Succeed(s) \/ Fail(s) \/ StepTimeout(s) \/ Retry(s)
  PROVE  /\ TurnsOf(s)' < TurnsOf(s)
         /\ \A t \in Steps : TurnsOf(t)' <= TurnsOf(t)
         /\ OthersLeft' = OthersLeft
<1>1. Retries(s) \in Nat /\ attempt[s] \in Nat /\ attempt[s] <= Retries(s)
  BY RetriesType DEF IInv
<1>2. TurnsOf(s)' < TurnsOf(s)
  <2>1. CASE Retry(s)
    <3>1. /\ state[s] = "backoff" /\ state'[s] = "attempt" /\ attempt'[s] = attempt[s] + 1
      BY <2>1 DEF Retry, IInv, TypeOK
    <3> QED
      BY <1>1, <3>1 DEF TurnsOf, Retries
  <2>2. CASE Succeed(s) \/ Fail(s) \/ StepTimeout(s)
    <3>1. /\ state[s] = "attempt" /\ attempt' = attempt
          /\ state'[s] = "settled" \/ state'[s] = "backoff"
      BY <2>2 DEF Succeed, Fail, StepTimeout, MayEnd, RetryOr, Settle, IInv, TypeOK
    <3> QED
      BY <1>1, <3>1 DEF TurnsOf, Retries
  <2> QED
    BY <2>1, <2>2
<1>3. ASSUME NEW t \in Steps, t # s PROVE TurnsOf(t)' = TurnsOf(t)
  <2>1. state'[t] = state[t]
    BY <1>3, StepGoesOn DEF GoesOn, IInv, TypeOK
  <2>2. attempt'[t] = attempt[t]
    BY <1>3 DEF Succeed, Fail, StepTimeout, RetryOr, Settle, Retry, IInv, TypeOK
  <2> QED
    BY <2>1, <2>2 DEF TurnsOf, Retries
<1>4. ASSUME NEW t \in Steps PROVE TurnsOf(t)' <= TurnsOf(t)
  <2>1. TurnsOf(t) \in Nat
    BY TurnsOfType DEF IInv
  <2>2. CASE t = s
    <3>1. TurnsOf(s)' \in Int
      <4>1. attempt'[s] \in Nat
        BY <1>1 DEF Succeed, Fail, StepTimeout, RetryOr, Settle, Retry, IInv, TypeOK
      <4> QED
        BY <1>1, <4>1 DEF TurnsOf, Retries
    <3> QED
      BY <1>2, <2>1, <2>2, <3>1
  <2>3. CASE t # s
    BY <1>3, <2>1, <2>3
  <2> QED
    BY <2>2, <2>3
<1>5. UNCHANGED <<current, run, report, logged>>
  BY StepGoesOn DEF GoesOn
<1> QED
  BY <1>2, <1>4, <1>5 DEF OthersLeft, Unlogged

\* Launching a layer takes no turns from steps but those that start.
LEMMA OthersLeaveSteps ==
  ASSUME IInv, NEW s \in Steps,
         Advance \/ Break \/ ReportResolved \/ ReportRejected \/ WorkflowTimeout \/ Persist
  PROVE  TurnsOf(s)' <= TurnsOf(s)
<1>1. /\ Retries(s) \in Nat /\ attempt[s] \in Nat /\ attempt[s] <= Retries(s)
      /\ TurnsOf(s) \in Nat
  BY RetriesType, TurnsOfType DEF IInv
<1>2. attempt' = attempt
  BY DEF Advance, Break, ReportResolved, ReportRejected, WorkflowTimeout, Persist
<1>3. CASE state'[s] = state[s]
  <2>1. TurnsOf(s)' = TurnsOf(s)
    BY <1>2, <1>3 DEF TurnsOf, Retries
  <2> QED
    BY <1>1, <2>1
<1>4. CASE state'[s] # state[s]
  <2>1. Launch(current + 1)
    BY <1>4 DEF Advance, Break, ReportResolved, ReportRejected, WorkflowTimeout, Persist
  <2>2. Layer[s] = current + 1 /\ state'[s] \in {"settled", "crashed", "attempt"}
    BY <1>4, <2>1 DEF Launch, LayerSteps
  <2>3. current \in Nat
    BY DEF IInv, TypeOK
  <2>4. state[s] = "idle"
    BY <2>2, <2>3 DEF IInv, LayersInv
  <2> QED
    BY <1>1, <1>2, <2>2, <2>4 DEF TurnsOf, Retries
<1> QED
  BY <1>3, <1>4

LEMMA TurnUsed ==
  ASSUME IsFiniteSet(Steps), IInv, IInv', Next, vars' # vars
  PROVE  TurnsLeft' < TurnsLeft
<1>1. /\ OthersLeft \in Nat /\ TurnsLeft = Cardinality(StepTurns) + OthersLeft
      /\ Cardinality(StepTurns) \in Nat
  BY OthersType, StepTurnsFinite DEF IInv
<1>2. OthersLeft' \in Nat /\ TurnsLeft' = Cardinality(StepTurns') + OthersLeft'
  <2>1. IsFiniteSet(Steps) /\ TypeOK' => (OthersLeft \in Nat /\ TurnsLeft = Cardinality(StepTurns) + OthersLeft)'
    BY OthersType, PTL
  <2> QED
    BY <2>1 DEF IInv
<1>3. ASSUME Advance \/ Break \/ ReportResolved \/ ReportRejected \/ WorkflowTimeout \/ Persist
      PROVE  TurnsLeft' < TurnsLeft
  <2>1. OthersLeft' < OthersLeft
    BY <1>3, OthersUsed
  <2>2. \A s \in Steps : TurnsOf(s)' <= TurnsOf(s)
    BY <1>3, OthersLeaveSteps
  <2>3. Cardinality(StepTurns') \in Nat /\ Cardinality(StepTurns') <= Cardinality(StepTurns)
    BY <2>2, TurnsGoDown DEF IInv
  <2> QED
    BY <1>1, <1>2, <2>1, <2>3
<1>4. ASSUME NEW s \in Steps, Succeed(s) \/ Fail(s) \/ StepTimeout(s) \/ Retry(s)
      PROVE  TurnsLeft' < TurnsLeft
  <2>1. /\ \E t \in Steps : TurnsOf(t)' < TurnsOf(t)
        /\ \A t \in Steps : TurnsOf(t)' <= TurnsOf(t)
        /\ OthersLeft' = OthersLeft
    BY <1>4, StepUsesTurn
  <2>2. Cardinality(StepTurns') \in Nat /\ Cardinality(StepTurns') < Cardinality(StepTurns)
    BY <2>1, TurnsGoDown DEF IInv
  <2> QED
    BY <1>1, <1>2, <2>1, <2>2
<1> QED
  BY <1>3, <1>4 DEF Next, Reaction

\* Every step of the model uses a turn up.
TurnsRunOut == [][TurnsLeft' < TurnsLeft]_vars

\* However steps fail, time out and are retried, and whatever the workflow's
\* timeout leaves running, a run of a finite workflow takes a bounded number of
\* turns of the event loop: two for each attempt, and those of the layers and
\* of execute (executeLayered, withRetry, the race in execute).
THEOREM TurnsAreBounded ==
  ASSUME IsFiniteSet(Steps)
  PROVE  Spec => /\ TurnsLeft = Cardinality(AllTurns) + Depth + 3
                 /\ [](TurnsLeft \in Nat)
                 /\ TurnsRunOut
<1>1. Init => TurnsLeft = Cardinality(AllTurns) + Depth + 3
  <2> SUFFICES ASSUME Init PROVE TurnsLeft = Cardinality(AllTurns) + Depth + 3
    OBVIOUS
  <2>1. \A s \in Steps : TurnsOf(s) = 2 * Retries(s) + 2
    BY DEF Init, TurnsOf
  <2>2. StepTurns = AllTurns
    BY <2>1 DEF StepTurns, AllTurns
  <2>3. TypeOK
    BY InvInit DEF IInv
  <2>4. Unlogged /\ current = 0 /\ run = "going" /\ report = "none"
    BY DEF Init, Unlogged
  <2>5. Cardinality(StepTurns) \in Nat /\ Depth \in Nat
    BY <2>3, StepTurnsFinite, LayerType
  <2> QED
    BY <2>2, <2>4, <2>5 DEF TurnsLeft
<1>2. IInv => TurnsLeft \in Nat
  BY TurnsType DEF IInv
<1>3. IInv /\ IInv' /\ [Next]_vars => [TurnsLeft' < TurnsLeft]_vars
  BY TurnUsed
<1> QED
  BY <1>1, <1>2, <1>3, InvCorrect, PTL DEF Spec, TurnsRunOut

-----------------------------------------------------------------------------
(* Runs with their data.                                                    *)

LEMMA DataNextIsNext == [DataNext]_allVars => [Next]_vars
  BY DEF DataNext, DataReaction, DataAdvance, DataSucceed, DataFail, DataRetry,
         Next, Reaction, allVars

\* Conditions, runIf expressions on them and the inputs of scripts narrow down
\* what a run does and add nothing: all that is proved of Spec holds with them.
THEOREM DataRunsAreRuns == DataSpec => Spec
<1>1. DataInit => Init
  BY DEF DataInit
<1> QED
  BY <1>1, DataNextIsNext, PTL DEF DataSpec, Spec

\* A step on a branch was started after its condition had settled, and the
\* global still says what it said then.
BranchInv ==
  \A s \in DOMAIN Guard :
    state[s] # "idle" =>
      /\ state[Guard[s].on] = "settled"
      /\ state[s] # "crashed"
      /\ Runs(s) => results[s] # "skipped"
      /\ ~Runs(s) => state[s] = "settled" /\ results[s] = "skipped"

\* A condition that has succeeded has written its result.
GlobalsInv ==
  /\ globals \in [Conditions -> {"", "true", "false"}]
  /\ \A a \in Conditions : results[a] = "success" => globals[a] \in {"true", "false"}

DataInv == BranchInv /\ GlobalsInv

LEMMA GuardType ==
  ASSUME NEW s \in DOMAIN Guard
  PROVE  /\ s \in Steps /\ s \in RunIf
         /\ Guard[s].on \in Conditions /\ Guard[s].on \in Steps
         /\ Guard[s].is \in {"true", "false"}
         /\ Layer[Guard[s].on] < Layer[s]
  BY StepDataAssumption, ExecutorAssumption DEF StepDataAssumption, ExecutorAssumption

LEMMA DataInvInit == DataInit => DataInv
<1> SUFFICES ASSUME DataInit PROVE DataInv
  OBVIOUS
<1>1. Conditions \subseteq Steps
  BY StepDataAssumption, ExecutorAssumption DEF StepDataAssumption, ExecutorAssumption
<1>2. BranchInv
  BY GuardType DEF DataInit, Init, BranchInv
<1>3. GlobalsInv
  BY <1>1 DEF DataInit, Init, GlobalsInv
<1> QED
  BY <1>2, <1>3 DEF DataInv

\* A step in flight gets a result of its own, or stays in flight.
Answers(s) ==
  /\ state[s] \in {"attempt", "backoff"}
  /\ \E x \in {"attempt", "backoff", "settled"}, r \in {"success"} \cup Bad :
       /\ state' = [state EXCEPT ![s] = x]
       /\ results' = IF x = "settled" THEN [results EXCEPT ![s] = r] ELSE results

LEMMA StepAnswers ==
  ASSUME NEW s \in Steps, Succeed(s) \/ Fail(s) \/ StepTimeout(s) \/ Retry(s)
  PROVE  Answers(s)
<1>1. CASE Succeed(s)
  BY <1>1 DEF Succeed, MayEnd, Settle, Answers
<1>2. CASE Fail(s)
  BY <1>2 DEF Fail, MayEnd, RetryOr, Settle, Answers, Bad
<1>3. CASE StepTimeout(s)
  BY <1>3 DEF StepTimeout, RetryOr, Settle, Answers, Bad
<1>4. CASE Retry(s)
  BY <1>4 DEF Retry, Answers
<1> QED
  BY <1>1, <1>2, <1>3, <1>4

\* What a step in flight does to its own global only disturbs no branch.
LEMMA BranchFrame ==
  ASSUME IInv, BranchInv, NEW x \in Steps, Answers(x),
         \A a \in Conditions : a # x => globals'[a] = globals[a]
  PROVE  BranchInv'
<1> SUFFICES ASSUME NEW s \in DOMAIN Guard, state'[s] # "idle"
             PROVE  /\ state'[Guard[s].on] = "settled"
                    /\ state'[s] # "crashed"
                    /\ Runs(s)' => results'[s] # "skipped"
                    /\ ~Runs(s)' => state'[s] = "settled" /\ results'[s] = "skipped"
  BY DEF BranchInv
<1>0. PICK y \in {"attempt", "backoff", "settled"}, r \in {"success"} \cup Bad :
        /\ state' = [state EXCEPT ![x] = y]
        /\ results' = IF y = "settled" THEN [results EXCEPT ![x] = r] ELSE results
  BY DEF Answers
<1>1. state \in [Steps -> StepStates] /\ results \in [Steps -> Results]
  BY DEF IInv, TypeOK
<1>2. state[s] # "idle"
  BY <1>0, <1>1, GuardType DEF Answers
<1>3. state[Guard[s].on] = "settled" /\ Guard[s].on # x
  BY <1>2 DEF BranchInv, Answers
<1>4. Runs(s)' = Runs(s)
  BY <1>3, GuardType DEF Runs
<1>5. CASE s = x
  <2>1. Runs(s)
    BY <1>2, <1>5 DEF BranchInv, Answers
  <2>2. results[s] # "skipped" /\ r # "skipped"
    BY <1>2, <2>1 DEF BranchInv, Bad
  <2> QED
    BY <1>0, <1>1, <1>3, <1>4, <1>5, <2>1, <2>2, GuardType
<1>6. CASE s # x
  BY <1>0, <1>1, <1>2, <1>3, <1>4, <1>6, GuardType DEF BranchInv
<1> QED
  BY <1>5, <1>6

LEMMA BranchAdvance == IInv /\ BranchInv /\ DataAdvance => BranchInv'
<1> SUFFICES ASSUME IInv, BranchInv, DataAdvance, NEW s \in DOMAIN Guard, state'[s] # "idle"
             PROVE  /\ state'[Guard[s].on] = "settled"
                    /\ state'[s] # "crashed"
                    /\ Runs(s)' => results'[s] # "skipped"
                    /\ ~Runs(s)' => state'[s] = "settled" /\ results'[s] = "skipped"
  BY DEF BranchInv
<1> DEFINE a == Guard[s].on
<1>0. s \in Steps /\ a \in Steps /\ a \in Conditions /\ Layer[a] < Layer[s]
  BY GuardType
<1>1. Runs(s)' = Runs(s)
  BY DEF DataAdvance, Runs
<1>2. CASE UNCHANGED <<state, results>>
  BY <1>1, <1>2 DEF BranchInv
<1>3. CASE current' = current + 1 /\ Launch(current + 1)
  <2>1. PICK skip \in SUBSET (LayerSteps(current + 1) \cap RunIf), fail \in SUBSET LayerSteps(current + 1) :
          /\ skip \cap fail = {}
          /\ results' = [t \in Steps |->
                           IF t \in skip THEN "skipped"
                           ELSE IF t \in fail THEN "failed" ELSE results[t]]
          /\ \A t \in Steps :
               /\ t \in skip \cup fail => state'[t] = "settled"
               /\ t \in LayerSteps(current + 1) \ (skip \cup fail) => state'[t] \in {"crashed", "attempt"}
               /\ t \notin LayerSteps(current + 1) => state'[t] = state[t]
    BY <1>3, LaunchTells
  <2>2. current \in Nat /\ Layer[s] \in Nat /\ Layer[a] \in Nat
    BY <1>0, LayerType DEF IInv, TypeOK
  <2>3. CASE Layer[s] # current + 1
    <3>1. s \notin LayerSteps(current + 1)
      BY <2>3 DEF LayerSteps
    <3>2. state'[s] = state[s] /\ results'[s] = results[s]
      BY <1>0, <2>1, <3>1
    <3>3. Layer[a] # current + 1
      BY <1>0, <2>2, <2>3, <3>2 DEF IInv, LayersInv
    <3>4. state'[a] = state[a]
      BY <1>0, <2>1, <3>3 DEF LayerSteps
    <3> QED
      BY <1>1, <3>2, <3>4 DEF BranchInv
  <2>4. CASE Layer[s] = current + 1
    <3>1. state[s] = "idle" /\ results[s] # "skipped"
      BY <1>0, <2>2, <2>4 DEF IInv, LayersInv, ResultsInv
    <3>2. state'[s] # "crashed" /\ (results'[s] = "skipped") = ~Runs(s)
      BY <3>1 DEF DataAdvance
    <3>3. state[a] = "settled" /\ a \notin LayerSteps(current + 1)
      <4>1. CASE Layer[a] < current
        BY <1>0, <2>2, <4>1 DEF IInv, LayersInv, Ended, LayerSteps
      <4>2. CASE Layer[a] = current
        BY <1>0, <2>2, <4>2 DEF DataAdvance, Advance, LayerDone, LayerSteps
      <4> QED
        BY <1>0, <2>2, <2>4, <4>1, <4>2
    <3>4. state'[a] = "settled"
      BY <1>0, <2>1, <3>3
    <3>5. s \in LayerSteps(current + 1)
      BY <1>0, <2>4 DEF LayerSteps
    <3>6. s \in skip <=> results'[s] = "skipped"
      BY <1>0, <2>1, <3>1
    <3>7. ~Runs(s) => state'[s] = "settled"
      BY <1>0, <2>1, <3>2, <3>6
    <3> QED
      BY <1>0, <1>1, <3>2, <3>4, <3>7
  <2> QED
    BY <2>3, <2>4
<1> QED
  BY <1>2, <1>3 DEF DataAdvance, Advance

LEMMA GlobalsStep == IInv /\ GlobalsInv /\ [DataNext]_allVars => GlobalsInv'
<1> SUFFICES ASSUME IInv, GlobalsInv, [DataNext]_allVars PROVE GlobalsInv'
  OBVIOUS
<1> USE DEF GlobalsInv
<1>0. Conditions \subseteq Steps /\ state \in [Steps -> StepStates] /\ results \in [Steps -> Results]
  BY StepDataAssumption, ExecutorAssumption DEF StepDataAssumption, ExecutorAssumption, IInv, TypeOK
<1>1. ASSUME UNCHANGED globals, \A a \in Conditions : results'[a] = "success" => results[a] = "success"
      PROVE  GlobalsInv'
  BY <1>1
<1>2. CASE DataAdvance
  <2>1. \A a \in Conditions : results'[a] = "success" => results[a] = "success"
    BY <1>0, <1>2 DEF DataAdvance, Advance, Launch
  <2> QED
    BY <1>1, <1>2, <2>1 DEF DataAdvance
<1>3. CASE (Break \/ ReportResolved \/ Persist) /\ UNCHANGED dataVars
  BY <1>1, <1>3 DEF Break, ReportResolved, Persist, dataVars
<1>4. CASE (ReportRejected \/ WorkflowTimeout) /\ UNCHANGED dataVars
  <2>1. \A a \in Conditions : results'[a] = "success" => results[a] = "success"
    BY <1>0, <1>4 DEF ReportRejected, WorkflowTimeout, FillMissing
  <2> QED
    BY <1>1, <1>4, <2>1 DEF dataVars
<1>5. ASSUME NEW s \in Steps, DataFail(s) \/ DataRetry(s) \/ (StepTimeout(s) /\ UNCHANGED dataVars)
      PROVE  GlobalsInv'
  <2>1. \A a \in Conditions : results'[a] = "success" => results[a] = "success"
    BY <1>0, <1>5 DEF DataFail, Fail, DataRetry, Retry, StepTimeout, RetryOr, Settle
  <2> QED
    BY <1>1, <1>5, <2>1 DEF DataFail, DataRetry, dataVars
<1>6. ASSUME NEW s \in Steps, DataSucceed(s) PROVE GlobalsInv'
  <2>1. results' = [results EXCEPT ![s] = "success"]
    BY <1>6 DEF DataSucceed, Succeed, Settle
  <2>2. CASE s \in Conditions
    <3>1. PICK b \in {"true", "false"} : globals' = [globals EXCEPT ![s] = b]
      BY <1>6, <2>2 DEF DataSucceed, Evaluates
    <3> QED
      BY <1>0, <2>1, <2>2, <3>1
  <2>3. CASE s \notin Conditions
    BY <1>0, <1>1, <1>6, <2>1, <2>3 DEF DataSucceed
  <2> QED
    BY <2>2, <2>3
<1>7. CASE UNCHANGED allVars
  BY <1>1, <1>7 DEF allVars, vars, dataVars
<1> QED
  BY <1>2, <1>3, <1>4, <1>5, <1>6, <1>7 DEF DataNext, DataReaction

LEMMA BranchStep == IInv /\ BranchInv /\ GlobalsInv /\ [DataNext]_allVars => BranchInv'
<1> SUFFICES ASSUME IInv, BranchInv, GlobalsInv, [DataNext]_allVars PROVE BranchInv'
  OBVIOUS
<1>0. results \in [Steps -> Results] /\ globals \in [Conditions -> {"", "true", "false"}]
  BY DEF IInv, TypeOK, GlobalsInv
<1>1. CASE DataAdvance
  BY <1>1, BranchAdvance
<1>2. ASSUME NEW s \in Steps, DataSucceed(s) PROVE BranchInv'
  <2>1. \A a \in Conditions : a # s => globals'[a] = globals[a]
    BY <1>0, <1>2 DEF DataSucceed
  <2> QED
    BY <1>2, <2>1, StepAnswers, BranchFrame DEF DataSucceed
<1>3. ASSUME NEW s \in Steps, DataFail(s) \/ DataRetry(s) \/ (StepTimeout(s) /\ UNCHANGED dataVars)
      PROVE  BranchInv'
  <2>1. UNCHANGED globals
    BY <1>3 DEF DataFail, DataRetry, dataVars
  <2> QED
    BY <1>3, <2>1, StepAnswers, BranchFrame DEF DataFail, DataRetry
<1>4. CASE (ReportRejected \/ WorkflowTimeout) /\ UNCHANGED dataVars
  <2>1. UNCHANGED <<state, globals>>
    BY <1>4 DEF ReportRejected, WorkflowTimeout, dataVars
  <2>2. \A s \in Steps : (results'[s] = "skipped") = (results[s] = "skipped")
    BY <1>0, <1>4 DEF ReportRejected, WorkflowTimeout, FillMissing
  <2> QED
    BY <2>1, <2>2, GuardType DEF BranchInv, Runs
<1>5. CASE \/ (Break \/ ReportResolved \/ Persist) /\ UNCHANGED dataVars
           \/ UNCHANGED allVars
  <2>1. UNCHANGED <<state, results, globals>>
    BY <1>5 DEF Break, ReportResolved, Persist, allVars, vars, dataVars
  <2> QED
    BY <2>1 DEF BranchInv, Runs
<1> QED
  BY <1>1, <1>2, <1>3, <1>4, <1>5 DEF DataNext, DataReaction

\* Exactly one of two opposite branches is taken once their condition has
\* succeeded, for every graph and however the run is timed: no step reads a
\* condition before it is written or after it could change.
THEOREM BranchesExclude == DataSpec => []OneBranch
<1>1. IInv /\ DataInv /\ [DataNext]_allVars => DataInv'
  BY GlobalsStep, BranchStep DEF DataInv
<1>2. DataInv => OneBranch
  <2> SUFFICES ASSUME DataInv, NEW s \in DOMAIN Guard, NEW t \in DOMAIN Guard,
                      Guard[t].on = Guard[s].on, Guard[s].is # Guard[t].is,
                      state[s] # "idle", state[t] # "idle"
               PROVE  /\ results[Guard[s].on] = "success" =>
                           (results[s] = "skipped") # (results[t] = "skipped")
                      /\ results[Guard[s].on] = "skipped" /\ globals[Guard[s].on] = "" =>
                           results[s] = "skipped" /\ results[t] = "skipped"
    BY DEF OneBranch
  <2>1. /\ (results[s] = "skipped") <=> ~Runs(s)
        /\ (results[t] = "skipped") <=> ~Runs(t)
    BY DEF DataInv, BranchInv
  <2>2. globals[Guard[s].on] \in {"true", "false"} => (Runs(s) <=> ~Runs(t))
    BY GuardType DEF Runs
  <2>3. globals[Guard[s].on] = "" => ~Runs(s) /\ ~Runs(t)
    BY GuardType DEF Runs
  <2>4. results[Guard[s].on] = "success" => globals[Guard[s].on] \in {"true", "false"}
    BY GuardType DEF DataInv, GlobalsInv
  <2> QED
    BY <2>1, <2>2, <2>3, <2>4
<1>3. DataSpec => []IInv
  BY DataRunsAreRuns, InvCorrect, PTL
<1> QED
  BY <1>1, <1>2, <1>3, DataInvInit, PTL DEF DataSpec

-----------------------------------------------------------------------------
(* Conditions and the answers they compare.                                 *)

LEMMA PathTypes ==
  ASSUME NEW s \in Conditions
  PROVE  /\ s \in Steps
         /\ \A d \in Steps : Path[s] = <<d, "output", "status">> => Layer[d] < Layer[s]
<1>1. s \in Steps
  BY StepDataAssumption, ExecutorAssumption DEF StepDataAssumption, ExecutorAssumption
<1>2. ASSUME NEW d \in Steps, Path[s] = <<d, "output", "status">> PROVE d \in StepNames(Path[s])
  <2>1. 1 \in 1 .. Len(Path[s]) /\ Path[s][1] = d
    BY <1>2
  <2> QED
    BY <2>1 DEF StepNames
<1>3. \A d \in Steps : d \in StepNames(Path[s]) => Layer[d] < Layer[s]
  BY StepDataAssumption DEF StepDataAssumption
<1> QED
  BY <1>1, <1>2, <1>3

\* What a walk puts together.
LEMMA IdAndFields ==
  ASSUME NEW d PROVE <<d>> \o <<"output", "status">> = <<d, "output", "status">>
<1> DEFINE S == {d, "output", "status"}
           r == <<d>> \o <<"output", "status">>
           p == <<d, "output", "status">>
<1>1. /\ <<d>> \in Seq(S) /\ <<"output", "status">> \in Seq(S) /\ p \in Seq(S)
      /\ Len(<<d>>) = 1 /\ Len(<<"output", "status">>) = 2 /\ Len(p) = 3
  OBVIOUS
<1>2. /\ r \in Seq(S) /\ Len(r) = Len(<<d>>) + Len(<<"output", "status">>)
      /\ \A i \in 1 .. Len(<<d>>) + Len(<<"output", "status">>) : r[i] =
           IF i <= Len(<<d>>) THEN <<d>>[i] ELSE <<"output", "status">>[i - Len(<<d>>)]
  BY <1>1, ConcatProperties
<1>3. p[1] = d /\ p[2] = "output" /\ p[3] = "status"
  OBVIOUS
<1> HIDE DEF r, p, S
<1>4. Len(r) = 3 /\ r[1] = d /\ r[2] = "output" /\ r[3] = "status"
  BY <1>1, <1>2
<1>5. \A i \in 1 .. 3 : r[i] = p[i]
  BY <1>3, <1>4
<1>6. r = p
  BY <1>1, <1>2, <1>4, <1>5, SeqEqual
<1> QED
  BY <1>6 DEF r, p

\* What a condition makes of the answer of a step that has ended.
LEMMA PathsLead ==
  ASSUME NEW d \in Steps \ Reserved, results[d] # "none"
  PROVE  Text(<<d, "output", "status">>) = word[d]
<1> DEFINE p == <<d, "output", "status">>
<1>1. /\ p[1] = d /\ Tail(p) = <<"output", "status">> /\ Head(Tail(p)) = "output"
      /\ <<d>> \o Tail(p) = p /\ Tail(p) # <<>> /\ p # <<>>
  BY IdAndFields
<1>2. d # "steps" /\ d # "globals"
  BY DEF Reserved
<1>3. Resolve(p) = p
  BY <1>1, <1>2 DEF Resolve, Walk, ResultFields
<1> QED
  BY <1>1, <1>2, <1>3 DEF Text, Nowhere

\* The steps in the path of a condition that has started have ended.
LEMMA AnsweredBefore ==
  ASSUME IInv, NEW s \in Conditions, NEW d \in Steps, Layer[d] < Layer[s], state[s] # "idle"
  PROVE  Ended(d, Good)
<1>1. s \in Steps
  BY PathTypes
<1>2. current \in Nat /\ Layer[s] \in Nat /\ Layer[d] \in Nat
  BY <1>1, LayerType DEF IInv, TypeOK
<1>3. Layer[s] <= current
  BY <1>1, <1>2 DEF IInv, LayersInv
<1> QED
  BY <1>2, <1>3 DEF IInv, LayersInv

\* What a condition has to say of a step whose answer its path leads to.
Follows(s, d) ==
  Path[s] = <<d, "output", "status">> /\ word[d] # "odd" => (globals[s] = "true") = (word[d] = "active")

\* A step in flight changes only its own word.
LEMMA WordsFrame ==
  ASSUME IInv, ConditionsFollowData, NEW s \in Quoted, NEW d \in Steps \ Reserved,
         results[s] = "success", globals'[s] = globals[s],
         \A t \in Steps : state[t] = "settled" => word'[t] = word[t]
  PROVE  Follows(s, d)'
<1>1. s \in Conditions /\ s \in Steps /\ state[s] # "idle"
  BY PathTypes, StepDataAssumption DEF StepDataAssumption, IInv, ResultsInv
<1>2. Path[s] = <<d, "output", "status">> => word'[d] = word[d]
  BY <1>1, PathTypes, AnsweredBefore DEF Ended
<1> QED
  BY <1>2 DEF ConditionsFollowData, Follows

WordsInv == word \in [Steps -> Words \cup {""}]

LEMMA WordsStep == WordsInv /\ [DataNext]_allVars => WordsInv'
  BY DEF WordsInv, DataNext, DataReaction, DataAdvance, DataSucceed, Answer, DataFail, DataRetry,
         allVars, dataVars

LEMMA FollowStep ==
  IInv /\ GlobalsInv /\ WordsInv /\ ConditionsFollowData /\ [DataNext]_allVars
    => ConditionsFollowData'
<1> SUFFICES ASSUME IInv, GlobalsInv, WordsInv, ConditionsFollowData, [DataNext]_allVars,
                    NEW s \in Quoted, NEW d \in Steps \ Reserved, results'[s] = "success"
             PROVE  Follows(s, d)'
  BY DEF ConditionsFollowData, Follows
<1>0. s \in Conditions /\ s \in Steps /\ state \in [Steps -> StepStates] /\ results \in [Steps -> Results]
  BY PathTypes, StepDataAssumption DEF StepDataAssumption, IInv, TypeOK
<1>1. ASSUME UNCHANGED <<globals, word>>, results[s] = "success" PROVE Follows(s, d)'
  BY <1>1, WordsFrame
<1>2. CASE DataAdvance
  <2>1. results[s] = "success"
    BY <1>0, <1>2, LaunchTells DEF DataAdvance, Advance
  <2> QED
    BY <1>1, <1>2, <2>1 DEF DataAdvance
<1>3. CASE (Break \/ ReportResolved \/ Persist) /\ UNCHANGED dataVars
  BY <1>1, <1>3 DEF Break, ReportResolved, Persist, dataVars
<1>4. CASE (ReportRejected \/ WorkflowTimeout) /\ UNCHANGED dataVars
  BY <1>0, <1>1, <1>4 DEF ReportRejected, WorkflowTimeout, FillMissing, dataVars
<1>5. ASSUME NEW t \in Steps, DataFail(t) \/ DataRetry(t) \/ (StepTimeout(t) /\ UNCHANGED dataVars)
      PROVE  UNCHANGED <<globals, word>> /\ results[s] = "success"
  BY <1>0, <1>5 DEF DataFail, Fail, DataRetry, Retry, StepTimeout, RetryOr, Settle, dataVars
<1>6. ASSUME NEW t \in Steps, t # s, DataSucceed(t) PROVE Follows(s, d)'
  <2>1. results[s] = "success" /\ state[t] = "attempt"
    BY <1>0, <1>6 DEF DataSucceed, Succeed, Settle, MayEnd
  <2>2. globals'[s] = globals[s]
    <3>1. CASE t \in Conditions
      <4>1. PICK b \in Evaluates(t) : globals' = [globals EXCEPT ![t] = b]
        BY <1>6, <3>1 DEF DataSucceed
      <4> QED
        BY <1>0, <1>6, <4>1 DEF GlobalsInv
    <3>2. CASE t \notin Conditions
      BY <1>6, <3>2 DEF DataSucceed
    <3> QED
      BY <3>1, <3>2
  <2>3. \A u \in Steps : state[u] = "settled" => word'[u] = word[u]
    BY <1>6, <2>1 DEF DataSucceed, Answer, WordsInv
  <2> QED
    BY <2>1, <2>2, <2>3, WordsFrame
<1>7. CASE DataSucceed(s)
  <2>1. PICK b \in Evaluates(s) : globals' = [globals EXCEPT ![s] = b]
    BY <1>0, <1>7 DEF DataSucceed
  <2>2. state[s] = "attempt" /\ UNCHANGED word /\ globals'[s] = b
    BY <1>0, <1>7, <2>1 DEF DataSucceed, Succeed, MayEnd, GlobalsInv
  <2> SUFFICES ASSUME Path[s] = <<d, "output", "status">>, word[d] # "odd"
               PROVE  (b = "true") = (word[d] = "active")
    BY <2>2 DEF Follows
  <2>3. results[d] # "none"
    BY <1>0, <2>2, PathTypes, AnsweredBefore DEF Ended, Good
  <2>4. Text(Path[s]) = word[d]
    BY <2>3, PathsLead
  <2> QED
    BY <2>1, <2>4 DEF Evaluates
<1>8. CASE UNCHANGED allVars
  BY <1>1, <1>8 DEF allVars, vars, dataVars
<1> QED
  BY <1>1, <1>2, <1>3, <1>4, <1>5, <1>6, <1>7, <1>8 DEF DataNext, DataReaction

\* A quoted condition on an answer that reads as a word says what the answer was,
\* for any graph, any ids and any other conditions; a retry, a timeout or a
\* skipped step in between changes nothing.
THEOREM ConditionsTellAnswers == DataSpec => []ConditionsFollowData
<1>1. DataInit => ConditionsFollowData
  <2>1. \A s \in Quoted : s \in Steps
    BY PathTypes, StepDataAssumption DEF StepDataAssumption
  <2> QED
    BY <2>1 DEF DataInit, Init, ConditionsFollowData
<1>2. IInv /\ GlobalsInv /\ WordsInv /\ ConditionsFollowData /\ [DataNext]_allVars
        => (GlobalsInv /\ WordsInv /\ ConditionsFollowData)'
  BY FollowStep, GlobalsStep, WordsStep
<1>3. DataSpec => []IInv
  BY DataRunsAreRuns, InvCorrect, PTL
<1>4. DataInit => GlobalsInv /\ WordsInv
  BY DataInvInit DEF DataInit, DataInv, WordsInv
<1> QED
  BY <1>1, <1>2, <1>3, <1>4, PTL DEF DataSpec

-----------------------------------------------------------------------------
(* Scripts and the outputs they are given.                                  *)

\* While a script runs or waits for its next attempt, its input has the outputs
\* of exactly those steps of earlier layers that have succeeded.
EarlierInputs ==
  \A s \in Scripts : state[s] \in {"attempt", "backoff"} =>
    \A t \in Steps : Layer[t] < Layer[s] => (t \in input[s] <=> results[t] = "success")

LEMMA EarlierEnded ==
  ASSUME IInv, NEW s \in Steps, state[s] # "idle", NEW t \in Steps, Layer[t] < Layer[s]
  PROVE  state[t] = "settled"
<1>1. current \in Nat /\ Layer[s] \in Nat /\ Layer[t] \in Nat
  BY LayerType DEF IInv, TypeOK
<1>2. Layer[s] <= current
  BY <1>1 DEF IInv, LayersInv
<1> QED
  BY <1>1, <1>2 DEF IInv, LayersInv, Ended

\* A script starts when all before it have ended.
LEMMA StartsLate ==
  ASSUME IInv, DataAdvance, NEW s \in Steps, state'[s] \in {"attempt", "backoff"},
         NEW t \in Steps, Layer[t] < Layer[s]
  PROVE  state[t] = "settled"
<1>1. CASE state[s] # "idle"
  BY <1>1, EarlierEnded
<1>2. CASE state[s] = "idle"
  <2>1. current' = current + 1 /\ Launch(current + 1) /\ LayerDone
    BY <1>2 DEF DataAdvance, Advance
  <2>2. current \in Nat /\ Layer[s] \in Nat /\ Layer[t] \in Nat
    BY LayerType DEF IInv, TypeOK
  <2>3. Layer[s] = current + 1
    BY <1>2, <2>1 DEF Launch, LayerSteps
  <2>4. CASE Layer[t] = current
    BY <2>1, <2>4 DEF LayerDone, LayerSteps
  <2>5. CASE Layer[t] < current
    BY <2>5 DEF IInv, LayersInv, Ended
  <2> QED
    BY <2>2, <2>3, <2>4, <2>5
<1> QED
  BY <1>1, <1>2

LEMMA InputsStep == IInv /\ EarlierInputs /\ [DataNext]_allVars => EarlierInputs'
<1> SUFFICES ASSUME IInv, EarlierInputs, [DataNext]_allVars,
                    NEW s \in Scripts, state'[s] \in {"attempt", "backoff"},
                    NEW t \in Steps, Layer[t] < Layer[s]
             PROVE  t \in input'[s] <=> results'[t] = "success"
  BY DEF EarlierInputs
<1>1. s \in Steps /\ state \in [Steps -> StepStates]
  BY ExecutorAssumption DEF ExecutorAssumption, Scripts, IInv, TypeOK
<1>2. ASSUME state[t] = "settled" PROVE results'[t] = results[t]
  BY <1>2, SettledStays, DataNextIsNext
<1>3. ASSUME UNCHANGED input, state[s] \in {"attempt", "backoff"}
      PROVE  t \in input'[s] <=> results'[t] = "success"
  BY <1>1, <1>2, <1>3, EarlierEnded DEF EarlierInputs
<1>4. CASE DataAdvance
  <2>1. results'[t] = results[t]
    BY <1>1, <1>2, <1>4, StartsLate
  <2>2. CASE s \in Started
    <3>1. input'[s] = Inputs(s)
      BY <1>4, <2>2 DEF DataAdvance, Feed
    <3> QED
      BY <2>1, <3>1 DEF Inputs
  <2>3. CASE s \notin Started
    <3>1. state[s] \in {"attempt", "backoff"}
      BY <1>1, <1>4, <2>3 DEF Started, DataAdvance, Advance, Launch
    <3>2. input'[s] = input[s]
      BY <1>4, <2>3 DEF DataAdvance, Feed
    <3> QED
      BY <2>1, <3>1, <3>2 DEF EarlierInputs
  <2> QED
    BY <2>2, <2>3
<1>5. ASSUME NEW x \in Steps, DataRetry(x) PROVE t \in input'[s] <=> results'[t] = "success"
  <2>1. state[s] \in {"attempt", "backoff"} /\ UNCHANGED results
    BY <1>1, <1>5 DEF DataRetry, Retry
  <2>2. input'[s] = IF s = x THEN Inputs(s) ELSE input[s]
    BY <1>5 DEF DataRetry, Feed
  <2> QED
    BY <2>1, <2>2 DEF EarlierInputs, Inputs
<1>6. ASSUME NEW x \in Steps, DataSucceed(x) \/ DataFail(x) \/ (StepTimeout(x) /\ UNCHANGED dataVars)
      PROVE  t \in input'[s] <=> results'[t] = "success"
  <2>1. UNCHANGED input /\ Answers(x)
    BY <1>6, StepAnswers DEF DataSucceed, DataFail, dataVars
  <2>2. state[s] \in {"attempt", "backoff"}
    BY <1>1, <2>1 DEF Answers
  <2> QED
    BY <1>3, <2>1, <2>2
<1>7. CASE \/ (Break \/ ReportResolved \/ ReportRejected \/ WorkflowTimeout \/ Persist)
                /\ UNCHANGED dataVars
           \/ UNCHANGED allVars
  BY <1>3, <1>7 DEF Break, ReportResolved, ReportRejected, WorkflowTimeout, Persist,
                    allVars, vars, dataVars
<1> QED
  BY <1>4, <1>5, <1>6, <1>7 DEF DataNext, DataReaction

\* Whatever was retried, skipped or timed out, a script works on the outputs of
\* all steps of earlier layers that have succeeded, and of those layers on no
\* others (runScriptStep, in an attempt after the workflow's timeout too).
THEOREM ScriptsHaveTheirInputs == DataSpec => []EarlierInputs
<1>1. DataInit => EarlierInputs
  BY ExecutorAssumption DEF ExecutorAssumption, DataInit, Init, EarlierInputs, Scripts
<1>2. DataSpec => []IInv
  BY DataRunsAreRuns, InvCorrect, PTL
<1> QED
  BY <1>1, <1>2, InputsStep, PTL DEF DataSpec

\* The dependencies of a step, and those of the steps in T that it reaches, are
\* reached, and nothing that a closed set leaves out is.
LEMMA ReachIsClosed ==
  ASSUME NEW s \in Steps, NEW T
  PROVE  /\ Reach(s, T) \subseteq Steps
         /\ DependsOn[s] \subseteq Reach(s, T)
         /\ \A d \in Reach(s, T) \cap T : DependsOn[d] \subseteq Reach(s, T)
  BY ExecutorAssumption DEF ExecutorAssumption, Reach

LEMMA ReachIsLeast ==
  ASSUME NEW s \in Steps, NEW T, NEW C \in SUBSET Steps,
         DependsOn[s] \subseteq C, \A d \in C \cap T : DependsOn[d] \subseteq C
  PROVE  Reach(s, T) \subseteq C
  BY DEF Reach

\* What a step builds on is in earlier layers.
LEMMA AncestorsAreEarlier ==
  ASSUME NEW s \in Steps, NEW t \in Ancestors[s]
  PROVE  t \in Steps /\ Layer[t] < Layer[s]
<1> DEFINE C == {d \in Steps : Layer[d] < Layer[s]}
<1>1. DependsOn[s] \subseteq C
  BY ExecutorAssumption DEF ExecutorAssumption
<1>2. ASSUME NEW d \in C, NEW e \in DependsOn[d] PROVE e \in C
  <2>1. e \in Steps /\ Layer[e] < Layer[d]
    BY ExecutorAssumption DEF ExecutorAssumption
  <2> QED
    BY <2>1, LayerType
<1>3. Reach(s, Steps) \subseteq C
  <2>1. \A d \in C \cap Steps : DependsOn[d] \subseteq C
    BY <1>2
  <2> QED
    BY <1>1, <2>1, ReachIsLeast
<1> QED
  BY <1>3 DEF Ancestors

\* The search for the previous step finds steps that are built on, and finds
\* none only if all of those are delays.
LEMMA SearchFindsAncestors ==
  ASSUME NEW s \in Steps
  PROVE  /\ DataStepsBefore[s] \subseteq Ancestors[s] \ Delays
         /\ DataStepsBefore[s] = {} => Ancestors[s] \subseteq Delays
<1>1. Reach(s, Delays) \subseteq Reach(s, Steps)
  <2>1. \A d \in Reach(s, Steps) \cap Delays : DependsOn[d] \subseteq Reach(s, Steps)
    BY ReachIsClosed
  <2> QED
    BY <2>1, ReachIsClosed, ReachIsLeast
<1>2. ASSUME Reach(s, Delays) \subseteq Delays
      PROVE  Reach(s, Steps) \subseteq Reach(s, Delays)
  <2>1. \A d \in Reach(s, Delays) \cap Steps : DependsOn[d] \subseteq Reach(s, Delays)
    BY <1>2, ReachIsClosed
  <2> QED
    BY <2>1, ReachIsClosed, ReachIsLeast
<1> QED
  BY <1>1, <1>2 DEF Ancestors, DataStepsBefore

\* context.previousStep of a script's attempt is a result of the search.
PreviousInv ==
  \A s \in Scripts : state[s] \in {"attempt", "backoff"} =>
    IF DataStepsBefore[s] = {} THEN previous[s] = "none"
                               ELSE previous[s] \in DataStepsBefore[s]

LEMMA PreviousStep == IInv /\ PreviousInv /\ [DataNext]_allVars => PreviousInv'
<1> SUFFICES ASSUME IInv, PreviousInv, [DataNext]_allVars,
                    NEW s \in Scripts, state'[s] \in {"attempt", "backoff"}
             PROVE  IF DataStepsBefore[s] = {} THEN previous'[s] = "none"
                                               ELSE previous'[s] \in DataStepsBefore[s]
  BY DEF PreviousInv
<1> DEFINE Found(p) == IF DataStepsBefore[s] = {} THEN p = "none" ELSE p \in DataStepsBefore[s]
<1>1. s \in Steps /\ state \in [Steps -> StepStates]
  BY ExecutorAssumption DEF ExecutorAssumption, Scripts, IInv, TypeOK
<1>2. ASSUME UNCHANGED previous, state[s] \in {"attempt", "backoff"} PROVE Found(previous'[s])
  BY <1>2 DEF PreviousInv
<1>3. ASSUME NEW ss, Feed(ss), s \in ss \/ state[s] \in {"attempt", "backoff"}
      PROVE  Found(previous'[s])
  <2>1. CASE s \in ss
    BY <1>3, <2>1 DEF Feed
  <2>2. CASE s \notin ss
    BY <1>3, <2>2 DEF Feed, PreviousInv
  <2> QED
    BY <2>1, <2>2
<1>4. CASE DataAdvance
  <2>1. s \in Started \/ state[s] \in {"attempt", "backoff"}
    BY <1>1, <1>4 DEF Started, DataAdvance, Advance, Launch
  <2> QED
    BY <1>3, <1>4, <2>1 DEF DataAdvance
<1>5. ASSUME NEW x \in Steps, DataRetry(x) PROVE Found(previous'[s])
  <2>1. state[s] \in {"attempt", "backoff"}
    BY <1>1, <1>5 DEF DataRetry, Retry
  <2> QED
    BY <1>3, <1>5, <2>1 DEF DataRetry
<1>6. ASSUME NEW x \in Steps, DataSucceed(x) \/ DataFail(x) \/ (StepTimeout(x) /\ UNCHANGED dataVars)
      PROVE  Found(previous'[s])
  <2>1. UNCHANGED previous /\ Answers(x)
    BY <1>6, StepAnswers DEF DataSucceed, DataFail, dataVars
  <2>2. state[s] \in {"attempt", "backoff"}
    BY <1>1, <2>1 DEF Answers
  <2> QED
    BY <1>2, <2>1, <2>2
<1>7. CASE \/ (Break \/ ReportResolved \/ ReportRejected \/ WorkflowTimeout \/ Persist)
                /\ UNCHANGED dataVars
           \/ UNCHANGED allVars
  BY <1>2, <1>7 DEF Break, ReportResolved, ReportRejected, WorkflowTimeout, Persist,
                    allVars, vars, dataVars
<1> QED
  BY <1>4, <1>5, <1>6, <1>7 DEF DataNext, DataReaction

LEMMA ScriptsSee == IInv /\ EarlierInputs /\ PreviousInv => ScriptsSeeWhatCameBefore
<1> SUFFICES ASSUME IInv, EarlierInputs, PreviousInv,
                    NEW s \in Scripts, state[s] \in {"attempt", "backoff"}
             PROVE  /\ \A t \in Ancestors[s] : (t \in input[s]) = (results[t] = "success")
                    /\ previous[s] = "none" => Ancestors[s] \subseteq Delays
                    /\ previous[s] # "none" => /\ previous[s] \in Ancestors[s] \ Delays
                                              /\ results[previous[s]] \in Good
  BY DEF ScriptsSeeWhatCameBefore
<1>1. s \in Steps
  BY ExecutorAssumption DEF ExecutorAssumption, Scripts
<1>2. \A t \in Ancestors[s] : (t \in input[s]) = (results[t] = "success")
  BY <1>1, AncestorsAreEarlier DEF EarlierInputs
<1>3. ASSUME NEW t \in Ancestors[s] PROVE t \in Steps /\ results[t] \in Good
  <2>1. t \in Steps /\ Layer[t] < Layer[s]
    BY <1>1, AncestorsAreEarlier
  <2>2. current \in Nat /\ Layer[s] \in Nat /\ Layer[t] \in Nat
    BY <1>1, <2>1, LayerType DEF IInv, TypeOK
  <2>3. Layer[s] <= current
    BY <1>1, <2>2 DEF IInv, LayersInv
  <2> QED
    BY <2>1, <2>2, <2>3 DEF IInv, LayersInv, Ended
<1>4. "none" \notin Steps
  BY StepDataAssumption DEF StepDataAssumption
<1> QED
  BY <1>1, <1>2, <1>3, <1>4, SearchFindsAncestors DEF PreviousInv

\* A script finds the outputs of all the steps it builds on, directly or not,
\* and of those that failed or were skipped none; and its previousStep is one
\* of them that ended well and is no delay, whatever was retried, skipped or
\* timed out (runScriptStep, findPreviousDataStep).
THEOREM ScriptsSeeTheirPast == DataSpec => []ScriptsSeeWhatCameBefore
<1>1. DataInit => PreviousInv
  BY ExecutorAssumption DEF ExecutorAssumption, DataInit, Init, PreviousInv, Scripts
<1>2. DataSpec => []IInv
  BY DataRunsAreRuns, InvCorrect, PTL
<1> QED
  BY <1>1, <1>2, PreviousStep, ScriptsHaveTheirInputs, ScriptsSee, PTL DEF DataSpec

=============================================================================
