---------------------- MODULE ExecutionPipelineProofs ----------------------
(***************************************************************************)
(* Proofs about ExecutionPipeline and ExecutionEvents, for every set of    *)
(* executions, workers, cancel requests and workflows, and every bound on  *)
(* redeliveries and faults.  Each theorem follows from the inductive       *)
(* invariant IInv or from a part of it.                                    *)
(***************************************************************************)
EXTENDS ExecutionEvents, FiniteSetTheorems, TLAPS

-----------------------------------------------------------------------------
(* What relates the request, the job, its lock and its counter.  TypeOK is   *)
(* not inductive without it: a job that could be requeued while it had been *)
(* failed would count beyond MaxStalled + 1.                                *)

\* A job exists only once its request has been enqueued, and only then does a
\* worker have it.
EnqueuedOnce(e) ==
  request[e] # "enqueued" => job[e] = "none" /\ \A w \in Workers : ~On(w, e)

NotYetCreated(e) == request[e] = "idle" => row[e] = "none"

\* A lock is held for an active job, by a worker that is on it.
LockHeld(e) ==
  lock[e] # NoOne => job[e] = "active" /\ On(lock[e], e)

StallBounded(e) == job[e] # "failed" => stalled[e] <= MaxStalled

JobInv ==
  \A e \in Executions :
    NotYetCreated(e) /\ EnqueuedOnce(e) /\ LockHeld(e) /\ StallBounded(e)

LEMMA JobInit == Init => JobInv
  BY PipelineAssumption
  DEF PipelineAssumption, Init, JobInv, NotYetCreated, EnqueuedOnce, LockHeld,
      StallBounded, On

-----------------------------------------------------------------------------
(* Type correctness.                                                        *)

LEMMA TypeInit == Init => TypeOK
<1> SUFFICES ASSUME Init PROVE TypeOK
  OBVIOUS
<1> USE PipelineAssumption DEF PipelineAssumption, Init
<1>1. row \in [Executions -> RowStates] /\ job \in [Executions -> JobStates]
  BY DEF RowStates, JobStates
<1>2. /\ pc \in [Workers -> WorkerPcs]
      /\ \A w \in Workers : pc[w] # "idle" => exec[w] \in Executions
  BY DEF WorkerPcs
<1>3. stale \in BOOLEAN /\ missed \in BOOLEAN
  BY Zenon
<1>5. /\ logs \in [Executions -> Nat]
      /\ stalled \in [Executions -> 0 .. MaxStalled + 1]
      /\ faults \in 0 .. MaxFaults
  OBVIOUS
<1> QED
  BY <1>1, <1>2, <1>3, <1>5, Zenon DEF TypeOK

LEMMA TypeStep == TypeOK /\ JobInv /\ [Next]_vars => TypeOK'
<1> SUFFICES ASSUME TypeOK, JobInv, [Next]_vars PROVE TypeOK'
  OBVIOUS
<1> USE PipelineAssumption
    DEF PipelineAssumption, TypeOK, dbVars, queueVars, workVars, apiVars, noteVars
<1>1. ASSUME NEW e \in Executions, Create(e) PROVE TypeOK'
  BY <1>1 DEF Create, RowStates, Open
<1>2. ASSUME NEW e \in Executions, Enqueue(e) PROVE TypeOK'
  BY <1>2 DEF Enqueue, JobStates
<1>3. ASSUME NEW e \in Executions, EnqueueFails(e) PROVE TypeOK'
  BY <1>3 DEF EnqueueFails, Fault
<1>4. ASSUME NEW e \in Executions, Requeue(e) PROVE TypeOK'
  BY <1>4 DEF Requeue, JobStates, JobInv, StallBounded
<1>5. ASSUME NEW w \in Workers, NEW e \in Executions, Fetch(w, e) PROVE TypeOK'
  BY <1>5 DEF Fetch, JobStates, WorkerPcs
<1>6. ASSUME NEW w \in Workers, Read(w) PROVE TypeOK'
  BY <1>6 DEF Read, Goto, WorkerPcs
<1>7. ASSUME NEW w \in Workers, Mark(w) PROVE TypeOK'
  BY <1>7 DEF Mark, Goto, WorkerPcs, RowStates, Open
<1>8. ASSUME NEW w \in Workers, Execute(w) PROVE TypeOK'
  BY <1>8 DEF Execute, Goto, WorkerPcs
<1>9. ASSUME NEW w \in Workers, CommitResult(w) PROVE TypeOK'
  <2>1. exec[w] \in Executions /\ verdict[w] \in RowStates
    BY <1>9 DEF CommitResult, Verdicts, RowStates, Settled
  <2>2. UNCHANGED <<queueVars, exec, verdict, apiVars, noteVars>>
    BY <1>9 DEF CommitResult
  <2>3. /\ row' \in [Executions -> RowStates]
        /\ logs' \in [Executions -> Nat]
    BY <1>9, <2>1 DEF CommitResult
  <2>5. stale' \in BOOLEAN
    BY <1>9, Zenon DEF CommitResult
  <2>4. /\ pc' \in [Workers -> WorkerPcs]
        /\ \A v \in Workers : pc'[v] # "idle" => exec'[v] \in Executions
    BY <1>9, <2>1, <2>2 DEF CommitResult, Goto, WorkerPcs
  <2> QED
    BY <2>2, <2>3, <2>4, <2>5
<1>10. ASSUME NEW w \in Workers, CommitError(w) PROVE TypeOK'
  <2>1. exec[w] \in Executions /\ UNCHANGED <<logs, queueVars, exec, verdict, apiVars, noteVars>>
    BY <1>10 DEF CommitError
  <2>2. row' \in [Executions -> RowStates]
    BY <1>10, <2>1 DEF CommitError, RowStates, Settled
  <2>3. stale' \in BOOLEAN
    BY <1>10, Zenon DEF CommitError
  <2>4. /\ pc' \in [Workers -> WorkerPcs]
        /\ \A v \in Workers : pc'[v] # "idle" => exec'[v] \in Executions
    BY <1>10, <2>1 DEF CommitError, Goto, WorkerPcs
  <2> QED
    BY <2>1, <2>2, <2>3, <2>4
<1>11. ASSUME NEW w \in Workers, Invalidate(w) PROVE TypeOK'
  BY <1>11 DEF Invalidate, Goto, WorkerPcs
<1>12. ASSUME NEW w \in Workers, Ack(w) PROVE TypeOK'
  BY <1>12 DEF Ack, Finish, Leave, JobStates, WorkerPcs
<1>13. ASSUME NEW w \in Workers, Reject(w) PROVE TypeOK'
  BY <1>13 DEF Reject, Finish, Leave, JobStates, WorkerPcs
<1>14. ASSUME NEW w \in Workers, LoseLock(w) PROVE TypeOK'
  BY <1>14 DEF LoseLock, Fault
<1>15. ASSUME NEW w \in Workers, Crash(w) PROVE TypeOK'
  BY <1>15 DEF Crash, Leave, Fault, WorkerPcs
<1>16. ASSUME NEW w \in Workers, CallFails(w) PROVE TypeOK'
  BY <1>16 DEF CallFails, Goto, Fault, WorkerPcs
<1>17. ASSUME NEW c \in Cancels, NEW e \in Executions, CancelRead(c, e) PROVE TypeOK'
  BY <1>17 DEF CancelRead
<1>18. ASSUME NEW c \in Cancels, CancelUpdate(c) PROVE TypeOK'
  <2>1. UNCHANGED <<logs, queueVars, workVars, request, cancelOf, workflow, noteVars>>
    BY <1>18 DEF CancelUpdate
  <2>2. row' \in [Executions -> RowStates]
    BY <1>18 DEF CancelUpdate, RowStates, Settled
  <2>3. stale' \in BOOLEAN
    BY <1>18, Zenon DEF CancelUpdate
  <2>4. /\ cancelPc' \in [Cancels -> {"idle", "update", "invalidate", "done"}]
        /\ \A d \in Cancels : cancelPc'[d] # "idle" => cancelOf'[d] \in Executions
    BY <1>18, <2>1 DEF CancelUpdate
  <2> QED
    BY <2>1, <2>2, <2>3, <2>4
<1>19. ASSUME NEW c \in Cancels, CancelInvalidate(c) PROVE TypeOK'
  BY <1>19 DEF CancelInvalidate
<1>20. ASSUME NEW c \in Cancels, CancelFails(c) PROVE TypeOK'
  BY <1>20 DEF CancelFails, Fault
<1>21. ASSUME NEW f \in Workflows, Remove(f) PROVE TypeOK'
  BY <1>21 DEF Remove, RowStates
<1>22. ASSUME NEW f \in Workflows, RemoveInvalidate(f) PROVE TypeOK'
  BY <1>22 DEF RemoveInvalidate
<1>23. ASSUME NEW f \in Workflows, RemoveFails(f) PROVE TypeOK'
  BY <1>23 DEF RemoveFails, Fault
<1>24. CASE UNCHANGED vars
  BY <1>24 DEF vars
<1> QED
  BY <1>1, <1>2, <1>3, <1>4, <1>5, <1>6, <1>7, <1>8, <1>9, <1>10, <1>11, <1>12,
     <1>13, <1>14, <1>15, <1>16, <1>17, <1>18, <1>19, <1>20, <1>21, <1>22, <1>23,
     <1>24
  DEF Next, HandlerStep, CancelStep


LEMMA JobStep == TypeOK /\ JobInv /\ [Next]_vars => JobInv'
<1> SUFFICES ASSUME TypeOK, JobInv, [Next]_vars, NEW d \in Executions
             PROVE  /\ NotYetCreated(d)'
                    /\ (EnqueuedOnce(d) /\ LockHeld(d) /\ StallBounded(d))'
  BY DEF JobInv
<1> USE PipelineAssumption
    DEF PipelineAssumption, TypeOK, dbVars, queueVars, workVars, apiVars, noteVars,
        JobInv, NotYetCreated, EnqueuedOnce, LockHeld, StallBounded, On
<1> DEFINE Goal == /\ NotYetCreated(d)'
                   /\ (EnqueuedOnce(d) /\ LockHeld(d) /\ StallBounded(d))'
<1>1. ASSUME NEW e \in Executions, Create(e) PROVE Goal
  BY <1>1 DEF Create
<1>2. ASSUME NEW e \in Executions, Enqueue(e) PROVE Goal
  BY <1>2 DEF Enqueue
<1>3. ASSUME NEW e \in Executions, EnqueueFails(e) PROVE Goal
  BY <1>3 DEF EnqueueFails, Fault
<1>4. ASSUME NEW e \in Executions, Requeue(e) PROVE Goal
  BY <1>4 DEF Requeue
<1>5. ASSUME NEW w \in Workers, NEW f \in Executions, Fetch(w, f) PROVE Goal
  BY <1>5 DEF Fetch
<1>6. ASSUME NEW w \in Workers, Read(w) PROVE Goal
  BY <1>6 DEF Read, Goto
<1>7. ASSUME NEW w \in Workers, Mark(w) PROVE Goal
  BY <1>7 DEF Mark, Goto, Exists
<1>8. ASSUME NEW w \in Workers, Execute(w) PROVE Goal
  BY <1>8 DEF Execute, Goto
<1>9. ASSUME NEW w \in Workers, CommitResult(w) PROVE Goal
  BY <1>9 DEF CommitResult, Goto, Exists
<1>10. ASSUME NEW w \in Workers, CommitError(w) PROVE Goal
  BY <1>10 DEF CommitError, Goto, Exists
<1>11. ASSUME NEW w \in Workers, Invalidate(w) PROVE Goal
  BY <1>11 DEF Invalidate, Goto
<1>12. ASSUME NEW w \in Workers, Ack(w) PROVE Goal
  BY <1>12 DEF Ack, Finish, Leave
<1>13. ASSUME NEW w \in Workers, Reject(w) PROVE Goal
  BY <1>13 DEF Reject, Finish, Leave
<1>14. ASSUME NEW w \in Workers, LoseLock(w) PROVE Goal
  BY <1>14 DEF LoseLock, Fault
<1>15. ASSUME NEW w \in Workers, Crash(w) PROVE Goal
  BY <1>15 DEF Crash, Leave, Fault
<1>16. ASSUME NEW w \in Workers, CallFails(w) PROVE Goal
  BY <1>16 DEF CallFails, Goto, Fault
<1>17. ASSUME UNCHANGED <<queueVars, workVars, request>>,
              row[d] = "none" => row'[d] = "none"
       PROVE  Goal
  BY <1>17
<1>18. ASSUME NEW c \in Cancels, NEW e \in Executions,
              CancelRead(c, e) \/ CancelStep(c) \/ CancelFails(c)
       PROVE  Goal
  BY <1>17, <1>18
  DEF CancelStep, CancelRead, CancelUpdate, CancelInvalidate, CancelFails, Exists
<1>19. ASSUME NEW f \in Workflows, Remove(f) \/ RemoveInvalidate(f) \/ RemoveFails(f)
       PROVE  Goal
  BY <1>17, <1>19 DEF Remove, RemoveInvalidate, RemoveFails, Exists
<1>20. CASE UNCHANGED vars
  BY <1>17, <1>20 DEF vars
<1> QED
  BY <1>1, <1>2, <1>3, <1>4, <1>5, <1>6, <1>7, <1>8, <1>9, <1>10, <1>11, <1>12,
     <1>13, <1>14, <1>15, <1>16, <1>18, <1>19, <1>20
  DEF Next, HandlerStep, CancelStep

LEMMA JobsCorrect == Spec => [](TypeOK /\ JobInv)
<1>1. Init => TypeOK /\ JobInv
  BY TypeInit, JobInit
<1>2. TypeOK /\ JobInv /\ [Next]_vars => (TypeOK /\ JobInv)'
  BY TypeStep, JobStep
<1> QED
  BY <1>1, <1>2, PTL DEF Spec

\* Every variable keeps its type; in particular a job is never counted as
\* stalled more than once beyond Bull's maxStalledCount.
THEOREM TypeCorrect == Spec => []TypeOK
  BY JobsCorrect, PTL

-----------------------------------------------------------------------------
(* Step logs.                                                               *)

LEMMA VerdictStep == TypeOK /\ VerdictHasLogs /\ [Next]_vars => VerdictHasLogs'
<1> SUFFICES ASSUME TypeOK, VerdictHasLogs, [Next]_vars PROVE VerdictHasLogs'
  OBVIOUS
<1> USE DEF TypeOK, VerdictHasLogs, dbVars
<1>1. ASSUME UNCHANGED dbVars PROVE VerdictHasLogs'
  BY <1>1
<1>2. ASSUME NEW e \in Executions, Create(e) PROVE VerdictHasLogs'
  BY <1>2 DEF Create
<1>3. ASSUME NEW e \in Executions, Enqueue(e) \/ EnqueueFails(e) \/ Requeue(e)
      PROVE  UNCHANGED dbVars
  BY <1>3 DEF Enqueue, EnqueueFails, Requeue
<1>4. ASSUME NEW w \in Workers, NEW e \in Executions, Fetch(w, e)
      PROVE  UNCHANGED dbVars
  BY <1>4 DEF Fetch
<1>5. ASSUME NEW w \in Workers, Mark(w) PROVE VerdictHasLogs'
  BY <1>5 DEF Mark
<1>6. ASSUME NEW w \in Workers, CommitResult(w) PROVE VerdictHasLogs'
  BY <1>6 DEF CommitResult
<1>7. ASSUME NEW w \in Workers, CommitError(w) PROVE VerdictHasLogs'
  BY <1>7 DEF CommitError
<1>8. ASSUME NEW w \in Workers,
             \/ Read(w) \/ Execute(w) \/ Invalidate(w) \/ Ack(w) \/ Reject(w)
             \/ LoseLock(w) \/ Crash(w) \/ CallFails(w)
      PROVE  UNCHANGED dbVars
  BY <1>8 DEF Read, Execute, Invalidate, Ack, Reject, Finish, LoseLock, Crash,
              CallFails
<1>9. ASSUME NEW c \in Cancels, CancelUpdate(c) PROVE VerdictHasLogs'
  BY <1>9 DEF CancelUpdate
<1>10. ASSUME NEW c \in Cancels, NEW e \in Executions,
              CancelRead(c, e) \/ CancelInvalidate(c) \/ CancelFails(c)
       PROVE  UNCHANGED dbVars
  BY <1>10 DEF CancelRead, CancelInvalidate, CancelFails
<1>11. ASSUME NEW f \in Workflows, Remove(f) PROVE VerdictHasLogs'
  BY <1>11 DEF Remove, Exists
<1>12. ASSUME NEW f \in Workflows, RemoveInvalidate(f) \/ RemoveFails(f)
       PROVE  UNCHANGED dbVars
  BY <1>12 DEF RemoveInvalidate, RemoveFails
<1>13. CASE UNCHANGED vars
  BY <1>1, <1>13 DEF vars
<1> QED
  BY <1>1, <1>2, <1>3, <1>4, <1>5, <1>6, <1>7, <1>8, <1>9, <1>10, <1>11, <1>12,
     <1>13
  DEF Next, HandlerStep, CancelStep

\* A row that says SUCCESS or TIMEOUT always has step logs.
THEOREM VerdictsHaveLogs == Spec => []VerdictHasLogs
<1>1. Init => VerdictHasLogs
  BY DEF Init, VerdictHasLogs
<1> QED
  BY <1>1, VerdictStep, TypeCorrect, PTL DEF Spec

-----------------------------------------------------------------------------
(* A cancellation that no handler is past stays.                            *)

LEMMA AtRestStep ==
  ASSUME TypeOK, JobInv, [Next]_vars, NEW d \in Executions, AtRest(d)
  PROVE  AtRest(d)'
<1> USE DEF TypeOK, AtRest, Running, dbVars, queueVars, workVars, apiVars
<1>1. ASSUME UNCHANGED <<row, workVars>> PROVE AtRest(d)'
  BY <1>1
<1>2. ASSUME NEW e \in Executions, Create(e) PROVE AtRest(d)'
  <2>1. CASE e = d
    BY <1>2, <2>1 DEF Create, JobInv, NotYetCreated
  <2>2. CASE e # d
    BY <1>2, <2>2 DEF Create
  <2> QED
    BY <2>1, <2>2
<1>3. ASSUME NEW e \in Executions, Enqueue(e) \/ EnqueueFails(e) \/ Requeue(e)
      PROVE  UNCHANGED <<row, workVars>>
  BY <1>3 DEF Enqueue, EnqueueFails, Requeue
<1>4. ASSUME NEW w \in Workers, NEW e \in Executions, Fetch(w, e)
      PROVE  AtRest(d)'
  BY <1>4 DEF Fetch
<1>5. ASSUME NEW w \in Workers, Read(w) PROVE AtRest(d)'
  BY <1>5 DEF Read, Goto, Exists
<1>6. ASSUME NEW w \in Workers, Mark(w) PROVE AtRest(d)'
  BY <1>6 DEF Mark, Goto
<1>7. ASSUME NEW w \in Workers, Execute(w) PROVE AtRest(d)'
  BY <1>7 DEF Execute, Goto
<1>8. ASSUME NEW w \in Workers, CommitResult(w) PROVE AtRest(d)'
  BY <1>8 DEF CommitResult, Goto
<1>9. ASSUME NEW w \in Workers, CommitError(w) PROVE AtRest(d)'
  BY <1>9 DEF CommitError, Goto
<1>10. ASSUME NEW w \in Workers, Invalidate(w) \/ CallFails(w) PROVE AtRest(d)'
  BY <1>10 DEF Invalidate, CallFails, Goto
<1>11. ASSUME NEW w \in Workers, Ack(w) \/ Reject(w) \/ Crash(w) PROVE AtRest(d)'
  BY <1>11 DEF Ack, Reject, Finish, Crash, Leave
<1>12. ASSUME NEW w \in Workers, LoseLock(w) PROVE UNCHANGED <<row, workVars>>
  BY <1>12 DEF LoseLock
<1>13. ASSUME NEW c \in Cancels, CancelUpdate(c) PROVE AtRest(d)'
  BY <1>13 DEF CancelUpdate, Exists
<1>14. ASSUME NEW c \in Cancels, NEW e \in Executions,
              CancelRead(c, e) \/ CancelInvalidate(c) \/ CancelFails(c)
       PROVE  UNCHANGED <<row, workVars>>
  BY <1>14 DEF CancelRead, CancelInvalidate, CancelFails
<1>15. ASSUME NEW f \in Workflows, Remove(f) PROVE AtRest(d)'
  BY <1>15 DEF Remove
<1>16. ASSUME NEW f \in Workflows, RemoveInvalidate(f) \/ RemoveFails(f)
       PROVE  UNCHANGED <<row, workVars>>
  BY <1>16 DEF RemoveInvalidate, RemoveFails
<1>17. CASE UNCHANGED vars
  BY <1>1, <1>17 DEF vars
<1> QED
  BY <1>1, <1>2, <1>3, <1>4, <1>5, <1>6, <1>7, <1>8, <1>9, <1>10, <1>11, <1>12,
     <1>13, <1>14, <1>15, <1>16, <1>17
  DEF Next, HandlerStep, CancelStep

\* Once cancelled and with no handler past the check of line 37, an execution
\* is not run or overwritten by any later step.
THEOREM CancelIsKept == Spec => CancelSticks
<1>1. TypeOK /\ JobInv /\ [Next]_vars => \A e \in Executions : AtRest(e) => AtRest(e)'
  BY AtRestStep
<1>2. TypeOK /\ JobInv /\ [Next]_vars
        => [\A e \in Executions : AtRest(e) => AtRest(e)']_vars
  BY <1>1
<1> QED
  BY <1>2, JobsCorrect, PTL DEF Spec, CancelSticks

-----------------------------------------------------------------------------
(* How many batches of step logs an execution can get.                      *)

\* The handlers that may still insert a batch of logs for e.
Before(e) ==
  {w \in Workers : exec[w] = e /\ pc[w] \in {"read", "mark", "execute", "commit"}}

\* How often the job has been delivered: once when it is first taken, and once
\* more after each redelivery.
Deliveries(e) ==
  IF job[e] \in {"none", "waiting"} THEN stalled[e]
  ELSE IF stalled[e] <= MaxStalled THEN stalled[e] + 1 ELSE MaxStalled + 1

\* Each delivery has inserted its batch, or may still do so, or has ended.
LogsPerDelivery ==
  \A e \in Executions : logs[e] + Cardinality(Before(e)) <= Deliveries(e)

LEMMA BeforeFinite ==
  ASSUME NEW e \in Executions
  PROVE  /\ IsFiniteSet(Before(e))
         /\ Cardinality(Before(e)) \in Nat
<1>1. Before(e) \subseteq Workers
  BY DEF Before
<1>2. IsFiniteSet(Workers)
  BY PipelineAssumption DEF PipelineAssumption
<1>3. IsFiniteSet(Before(e))
  BY <1>1, <1>2, FS_Subset
<1> QED
  BY <1>3, FS_CardinalityType

\* A step after which fewer handlers may insert logs, with no new logs.
LEMMA FewerBefore ==
  ASSUME TypeOK, TypeOK', LogsPerDelivery, NEW d \in Executions,
         Before(d)' \subseteq Before(d), logs'[d] <= logs[d],
         Deliveries(d) <= Deliveries(d)'
  PROVE  (logs[d] + Cardinality(Before(d)) <= Deliveries(d))'
<1>1. IsFiniteSet(Before(d)) /\ Cardinality(Before(d)) \in Nat
  BY BeforeFinite
<1>2. Cardinality(Before(d)') <= Cardinality(Before(d)) /\ IsFiniteSet(Before(d)')
  BY <1>1, FS_Subset
<1>3. Cardinality(Before(d)') \in Nat
  BY <1>2, FS_CardinalityType
<1>4. logs[d] + Cardinality(Before(d)) <= Deliveries(d)
  BY DEF LogsPerDelivery
<1>5. Deliveries(d) \in Nat /\ Deliveries(d)' \in Nat /\ logs[d] \in Nat /\ logs'[d] \in Nat
  BY PipelineAssumption DEF PipelineAssumption, TypeOK, Deliveries
<1> HIDE DEF Deliveries
<1> QED
  BY <1>1, <1>2, <1>3, <1>4, <1>5

LEMMA LogsStep ==
  TypeOK /\ JobInv /\ LogsPerDelivery /\ [Next]_vars => LogsPerDelivery'
<1> SUFFICES ASSUME TypeOK, JobInv, LogsPerDelivery, [Next]_vars, NEW d \in Executions
             PROVE  (logs[d] + Cardinality(Before(d)) <= Deliveries(d))'
  BY DEF LogsPerDelivery
<1> DEFINE Goal == (logs[d] + Cardinality(Before(d)) <= Deliveries(d))'
           Calm == /\ Before(d)' \subseteq Before(d)
                   /\ logs'[d] <= logs[d]
                   /\ Deliveries(d) <= Deliveries(d)'
<1>0. TypeOK'
  BY TypeStep
<1>a. Calm => Goal
  BY <1>0, FewerBefore
<1>b. /\ logs \in [Executions -> Nat] /\ job \in [Executions -> JobStates]
      /\ stalled \in [Executions -> 0 .. MaxStalled + 1]
      /\ pc \in [Workers -> WorkerPcs]
      /\ exec \in [Workers -> Executions \cup {NoOne}]
      /\ \A w \in Workers : pc[w] # "idle" => exec[w] \in Executions
      /\ NoOne \notin Executions /\ NoOne \notin Workers /\ MaxStalled \in Nat
  BY PipelineAssumption DEF PipelineAssumption, TypeOK
<1>c. /\ job[d] # "failed" => stalled[d] <= MaxStalled
      /\ request[d] # "enqueued" => job[d] = "none"
      /\ lock[d] # NoOne => job[d] = "active"
  BY DEF JobInv, StallBounded, EnqueuedOnce, LockHeld
<1> USE DEF dbVars, queueVars, workVars, apiVars, noteVars
<1> HIDE DEF Goal
<1>d. ASSUME UNCHANGED <<logs, queueVars, workVars>> PROVE Calm
  BY <1>b, <1>d DEF Before, Deliveries
<1>1. ASSUME NEW e \in Executions, Create(e) \/ EnqueueFails(e)
      PROVE  UNCHANGED <<logs, queueVars, workVars>>
  BY <1>1 DEF Create, EnqueueFails
<1>2. ASSUME NEW e \in Executions, Enqueue(e) PROVE Calm
  BY <1>2, <1>b, <1>c DEF Enqueue, Before, Deliveries
<1>3. ASSUME NEW e \in Executions, Requeue(e) PROVE Calm
  BY <1>3, <1>b, <1>c DEF Requeue, Before, Deliveries
<1>4. ASSUME NEW w \in Workers, NEW e \in Executions, Fetch(w, e) PROVE Goal
  <2>1. CASE e # d
    <3>1. Calm
      BY <1>4, <2>1, <1>b DEF Fetch, Before, Deliveries
    <3> QED
      BY <3>1, <1>a
  <2>2. CASE e = d
    <3>1. w \notin Before(d) /\ Before(d)' = Before(d) \cup {w}
      BY <1>4, <2>2, <1>b DEF Fetch, Before
    <3>2. Cardinality(Before(d)') = Cardinality(Before(d)) + 1
      BY <3>1, BeforeFinite, FS_AddElement
    <3>3. Deliveries(d)' = Deliveries(d) + 1 /\ logs'[d] = logs[d]
      BY <1>4, <2>2, <1>b, <1>c DEF Fetch, Deliveries
    <3>4. logs[d] + Cardinality(Before(d)) <= Deliveries(d) /\ Cardinality(Before(d)) \in Nat
      BY BeforeFinite DEF LogsPerDelivery
    <3>5. Deliveries(d) \in Nat /\ logs[d] \in Nat
      BY <1>b DEF Deliveries
    <3> QED
      BY <3>2, <3>3, <3>4, <3>5 DEF Goal
  <2> QED
    BY <2>1, <2>2
<1>5. ASSUME NEW w \in Workers, Read(w) \/ Mark(w) \/ Execute(w) PROVE Calm
  <2>1. UNCHANGED <<logs, queueVars, exec>>
    BY <1>5 DEF Read, Mark, Execute
  <2>2. Before(d)' \subseteq Before(d)
    BY <1>5, <2>1, <1>b DEF Read, Mark, Execute, Goto, Before
  <2> QED
    BY <2>1, <2>2, <1>b DEF Deliveries
<1>6. ASSUME NEW w \in Workers, CommitResult(w) PROVE Goal
  <2>1. UNCHANGED <<queueVars, exec>> /\ Deliveries(d)' = Deliveries(d)
    BY <1>6 DEF CommitResult, Deliveries
  <2>2. CASE exec[w] = d /\ Exists(d)
    <3>1. w \in Before(d) /\ Before(d)' = Before(d) \ {w}
      BY <1>6, <2>1, <2>2, <1>b DEF CommitResult, Goto, Before
    <3>2. Cardinality(Before(d)') = Cardinality(Before(d)) - 1
      BY <3>1, BeforeFinite, FS_RemoveElement
    <3>3. logs'[d] = logs[d] + 1
      BY <1>6, <2>2, <1>b DEF CommitResult
    <3>4. logs[d] + Cardinality(Before(d)) <= Deliveries(d) /\ Cardinality(Before(d)) \in Nat
      BY BeforeFinite DEF LogsPerDelivery
    <3>5. Deliveries(d) \in Nat /\ logs[d] \in Nat
      BY <1>b DEF Deliveries
    <3> QED
      BY <2>1, <3>2, <3>3, <3>4, <3>5 DEF Goal
  <2>3. CASE ~(exec[w] = d /\ Exists(d))
    <3>1. Before(d)' \subseteq Before(d)
      BY <1>6, <2>1, <1>b DEF CommitResult, Goto, Before
    <3>2. logs'[d] = logs[d]
      BY <1>6, <2>3, <1>b DEF CommitResult
    <3>3. Calm
      BY <3>1, <3>2, <2>1, <1>b DEF Deliveries
    <3> QED
      BY <3>3, <1>a
  <2> QED
    BY <2>2, <2>3
<1>7. ASSUME NEW w \in Workers, CommitError(w) \/ Invalidate(w) \/ CallFails(w) PROVE Calm
  <2>1. UNCHANGED <<logs, queueVars, exec>>
    BY <1>7 DEF CommitError, Invalidate, CallFails
  <2>2. Before(d)' \subseteq Before(d)
    BY <1>7, <2>1, <1>b DEF CommitError, Invalidate, CallFails, Goto, Before
  <2> QED
    BY <2>1, <2>2, <1>b DEF Deliveries
<1>8. ASSUME NEW w \in Workers, Ack(w) \/ Reject(w) PROVE Calm
  <2>1. UNCHANGED <<logs, stalled>>
    BY <1>8 DEF Ack, Reject, Finish
  <2>2. Before(d)' \subseteq Before(d)
    BY <1>8, <1>b DEF Ack, Reject, Finish, Leave, Before
  <2>3. \/ job'[d] = job[d]
        \/ job[d] = "active" /\ job'[d] \in {"completed", "failed"}
    BY <1>8, <1>b, <1>c DEF Ack, Reject, Finish
  <2> QED
    BY <2>1, <2>2, <2>3, <1>b DEF Deliveries
<1>9. ASSUME NEW w \in Workers, LoseLock(w) \/ Crash(w) PROVE Calm
  <2>1. UNCHANGED <<logs, stalled, job>>
    BY <1>9 DEF LoseLock, Crash
  <2>2. Before(d)' \subseteq Before(d)
    BY <1>9, <1>b DEF LoseLock, Crash, Leave, Before
  <2> QED
    BY <2>1, <2>2, <1>b DEF Deliveries
<1>10. ASSUME NEW c \in Cancels, NEW e \in Executions,
              CancelRead(c, e) \/ CancelStep(c) \/ CancelFails(c)
       PROVE  UNCHANGED <<logs, queueVars, workVars>>
  BY <1>10 DEF CancelRead, CancelStep, CancelUpdate, CancelInvalidate, CancelFails
<1>11. ASSUME NEW f \in Workflows, Remove(f) PROVE Calm
  BY <1>11, <1>b DEF Remove, Before, Deliveries
<1>12. ASSUME NEW f \in Workflows, RemoveInvalidate(f) \/ RemoveFails(f)
       PROVE  UNCHANGED <<logs, queueVars, workVars>>
  BY <1>12 DEF RemoveInvalidate, RemoveFails
<1>13. CASE UNCHANGED vars
  BY <1>13, <1>d, <1>a DEF vars, Goal
<1> HIDE DEF Calm
<1> QED
  BY <1>a, <1>d, <1>1, <1>2, <1>3, <1>4, <1>5, <1>6, <1>7, <1>8, <1>9, <1>10, <1>11,
     <1>12, <1>13
  DEF Next, HandlerStep, CancelStep, Goal

LEMMA LogsCounted == Spec => []LogsPerDelivery
<1>1. Init => LogsPerDelivery
  <2> SUFFICES ASSUME Init, NEW e \in Executions
               PROVE  logs[e] + Cardinality(Before(e)) <= Deliveries(e)
    BY DEF LogsPerDelivery
  <2>1. Before(e) = {}
    BY DEF Init, Before
  <2> QED
    BY <2>1, FS_EmptySet DEF Init, Deliveries
<1> QED
  BY <1>1, LogsStep, JobsCorrect, PTL DEF Spec

LEMMA FewDeliveries ==
  ASSUME TypeOK, LogsPerDelivery, NEW e \in Executions
  PROVE  /\ logs[e] \in Nat /\ MaxStalled \in Nat
         /\ logs[e] + Cardinality(Before(e)) <= MaxStalled + 1
<1>1. logs[e] + Cardinality(Before(e)) <= Deliveries(e) /\ Cardinality(Before(e)) \in Nat
  BY BeforeFinite DEF LogsPerDelivery
<1>2. /\ Deliveries(e) \in Nat /\ Deliveries(e) <= MaxStalled + 1
      /\ logs[e] \in Nat /\ MaxStalled \in Nat
  BY PipelineAssumption DEF PipelineAssumption, TypeOK, Deliveries
<1> QED
  BY <1>1, <1>2

\* An execution never has more batches of step logs than Bull delivers its job.
THEOREM LogsAreBounded == Spec => []LogsBounded
<1>1. TypeOK /\ LogsPerDelivery => LogsBounded
  <2> SUFFICES ASSUME TypeOK, LogsPerDelivery, NEW e \in Executions
               PROVE  logs[e] <= MaxStalled + 1
    BY DEF LogsBounded
  <2> QED
    BY FewDeliveries, BeforeFinite
<1> QED
  BY <1>1, LogsCounted, TypeCorrect, PTL

-----------------------------------------------------------------------------
(* The pipeline implements the life of an execution.  An execution that is   *)
(* taken up has a result to spare: the delivery that takes it up is counted  *)
(* by LogsPerDelivery, and not yet by its runs.                             *)

\* Who is about to commit has a verdict.
Reported == \A w \in Workers : pc[w] = "commit" => verdict[w] \in Verdicts

LEMMA ReportedStep == TypeOK /\ Reported /\ [Next]_vars => Reported'
<1> SUFFICES ASSUME TypeOK, Reported, [Next]_vars PROVE Reported'
  OBVIOUS
<1>0. /\ pc \in [Workers -> WorkerPcs]
      /\ verdict \in [Workers -> Verdicts \cup {"none"}]
  BY DEF TypeOK
<1> USE DEF Reported, workVars
<1>s. ASSUME UNCHANGED workVars PROVE Reported'
  BY <1>s
<1>1. ASSUME NEW e \in Executions,
             Create(e) \/ Enqueue(e) \/ EnqueueFails(e) \/ Requeue(e)
      PROVE  Reported'
  BY <1>1, <1>s DEF Create, Enqueue, EnqueueFails, Requeue
<1>2. ASSUME NEW w \in Workers, NEW e \in Executions, Fetch(w, e) PROVE Reported'
  BY <1>2, <1>0 DEF Fetch
<1>3. ASSUME NEW w \in Workers, Execute(w) PROVE Reported'
  BY <1>3, <1>0 DEF Execute, Goto
<1>4. ASSUME NEW w \in Workers,
             \/ Read(w) \/ Mark(w) \/ CommitResult(w) \/ CommitError(w)
             \/ Invalidate(w) \/ CallFails(w)
      PROVE  Reported'
  BY <1>4, <1>0 DEF Read, Mark, CommitResult, CommitError, Invalidate, CallFails, Goto
<1>5. ASSUME NEW w \in Workers, Ack(w) \/ Reject(w) \/ Crash(w) PROVE Reported'
  BY <1>5, <1>0 DEF Ack, Reject, Finish, Crash, Leave
<1>6. ASSUME NEW w \in Workers, LoseLock(w) PROVE Reported'
  BY <1>6, <1>s DEF LoseLock
<1>7. ASSUME NEW c \in Cancels,
             \/ \E e \in Executions : CancelRead(c, e)
             \/ CancelStep(c) \/ CancelFails(c)
      PROVE  Reported'
  BY <1>7, <1>s
  DEF CancelRead, CancelStep, CancelUpdate, CancelInvalidate, CancelFails
<1>8. ASSUME NEW f \in Workflows, Remove(f) \/ RemoveInvalidate(f) \/ RemoveFails(f)
      PROVE  Reported'
  BY <1>8, <1>s DEF Remove, RemoveInvalidate, RemoveFails
<1>9. CASE UNCHANGED vars
  BY <1>9, <1>s DEF vars
<1> QED
  BY <1>1, <1>2, <1>3, <1>4, <1>5, <1>6, <1>7, <1>8, <1>9 DEF Next, HandlerStep

LEMMA VerdictsReported == Spec => []Reported
<1>1. Init => Reported
  BY DEF Init, Reported
<1> QED
  BY <1>1, ReportedStep, TypeCorrect, PTL DEF Spec

LEMMA LifeInit == Init => EL!Init
  BY DEF Init, EL!Init, TakenUp, Begun

LEMMA SameCardinality ==
  ASSUME NEW S
  PROVE  EL!Cardinality(S) = Cardinality(S)
  BY DEF Cardinality, EL!Cardinality

\* A worker at the check of line 37 is one more than the runs of its execution.
LEMMA RoomForOneMore ==
  ASSUME TypeOK, LogsPerDelivery, NEW w \in Workers, pc[w] = "read"
  PROVE  logs[exec[w]] + Cardinality(EL!Runs(exec[w])) < MaxStalled + 1
<1> DEFINE e == exec[w]
<1>0. e \in Executions /\ NoOne \notin Executions
  BY PipelineAssumption DEF PipelineAssumption, TypeOK
<1>1. w \in Before(e)
  BY DEF Before
<1>2. EL!Runs(e) \subseteq Before(e) \ {w}
  BY <1>0 DEF EL!Runs, TakenUp, Before
<1>3. IsFiniteSet(Before(e)) /\ Cardinality(Before(e)) \in Nat
  BY <1>0, BeforeFinite
<1>4. /\ IsFiniteSet(Before(e) \ {w})
      /\ Cardinality(Before(e) \ {w}) = Cardinality(Before(e)) - 1
  BY <1>1, <1>3, FS_RemoveElement
<1>5. /\ Cardinality(EL!Runs(e)) <= Cardinality(Before(e) \ {w})
      /\ IsFiniteSet(EL!Runs(e))
  BY <1>2, <1>4, FS_Subset
<1>6. Cardinality(EL!Runs(e)) \in Nat
  BY <1>5, FS_CardinalityType
<1>7. /\ logs[e] \in Nat /\ MaxStalled \in Nat
      /\ logs[e] + Cardinality(Before(e)) <= MaxStalled + 1
  BY <1>0, FewDeliveries
<1> HIDE DEF e
<1>8. logs[e] + Cardinality(EL!Runs(e)) < MaxStalled + 1
  BY <1>3, <1>4, <1>5, <1>6, <1>7
<1> QED
  BY <1>8 DEF e

\* A worker that stops without a result drops what it has taken up, if anything.
LEMMA StoppingDrops ==
  ASSUME TypeOK, UNCHANGED dbVars, NEW w \in Workers,
         pc'[w] \notin {"mark", "execute", "commit"},
         pc' = [pc EXCEPT ![w] = pc'[w]],
         \A v \in Workers : v # w => exec'[v] = exec[v]
  PROVE  [EL!Next]_EL!vars
<1>0. /\ NoOne \notin Executions
      /\ pc[w] # "idle" => exec[w] \in Executions
      /\ pc \in [Workers -> WorkerPcs]
  BY PipelineAssumption DEF PipelineAssumption, TypeOK
<1>a. \A v \in Workers : v # w => pc'[v] = pc[v] /\ exec'[v] = exec[v]
  BY <1>0
<1>b. Begun' = Begun \ {w}
  BY <1>a DEF Begun
<1>c. \A v \in Workers : TakenUp'[v] = IF v = w THEN NoOne ELSE TakenUp[v]
  BY <1>a DEF TakenUp
<1>d. TakenUp = [v \in Workers |-> TakenUp[v]] /\ TakenUp' = [v \in Workers |-> TakenUp'[v]]
  BY DEF TakenUp
<1>1. CASE pc[w] \in {"mark", "execute", "commit"}
  <2>1. TakenUp[w] # NoOne
    BY <1>0, <1>1 DEF TakenUp
  <2>2. TakenUp' = [TakenUp EXCEPT ![w] = NoOne]
    BY <1>c, <1>d
  <2>3. EL!Drop(w)
    BY <1>b, <2>1, <2>2 DEF EL!Drop, dbVars
  <2> QED
    BY <2>3 DEF EL!Next
<1>2. CASE pc[w] \notin {"mark", "execute", "commit"}
  <2>1. w \notin Begun /\ TakenUp[w] = NoOne
    BY <1>2 DEF TakenUp, Begun
  <2>2. TakenUp' = TakenUp
    BY <1>c, <1>d, <2>1
  <2>3. Begun' = Begun
    BY <1>b, <2>1
  <2> QED
    BY <2>2, <2>3 DEF EL!vars, dbVars
<1> QED
  BY <1>1, <1>2

LEMMA LifeStep ==
  TypeOK /\ JobInv /\ LogsPerDelivery /\ Reported /\ [Next]_vars
    => [EL!Next]_EL!vars
<1> SUFFICES ASSUME TypeOK, JobInv, LogsPerDelivery, Reported, [Next]_vars
             PROVE  [EL!Next]_EL!vars
  OBVIOUS
<1> USE DEF dbVars, queueVars, workVars, apiVars, noteVars
<1>0. /\ NoOne \notin Executions
      /\ row \in [Executions -> RowStates] /\ logs \in [Executions -> Nat]
      /\ pc \in [Workers -> WorkerPcs]
      /\ exec \in [Workers -> Executions \cup {NoOne}]
      /\ \A w \in Workers : pc[w] # "idle" => exec[w] \in Executions
  BY PipelineAssumption DEF PipelineAssumption, TypeOK
<1>s. ASSUME UNCHANGED dbVars, UNCHANGED <<pc, exec>> PROVE [EL!Next]_EL!vars
  BY <1>s DEF EL!vars, TakenUp, Begun
<1>w. ASSUME UNCHANGED <<pc, exec>> PROVE TakenUp' = TakenUp /\ Begun' = Begun
  BY <1>w DEF TakenUp, Begun
<1>1. ASSUME NEW e \in Executions, Create(e) PROVE [EL!Next]_EL!vars
  <2>1. row[e] = "none"
    BY <1>1 DEF Create, JobInv, NotYetCreated
  <2>2. EL!Create(e)
    BY <1>1, <1>w, <2>1 DEF Create, EL!Create
  <2> QED
    BY <2>2 DEF EL!Next
<1>2. ASSUME NEW e \in Executions, Enqueue(e) \/ EnqueueFails(e) \/ Requeue(e)
      PROVE  [EL!Next]_EL!vars
  BY <1>2, <1>s DEF Enqueue, EnqueueFails, Requeue
<1>3. ASSUME NEW w \in Workers, NEW e \in Executions, Fetch(w, e)
      PROVE  [EL!Next]_EL!vars
  BY <1>3, <1>0, StoppingDrops DEF Fetch
<1>4. ASSUME NEW w \in Workers, Read(w) PROVE [EL!Next]_EL!vars
  <2>1. CASE ~Exists(exec[w]) \/ row[exec[w]] = "CANCELLED"
    BY <1>4, <2>1, <1>0, StoppingDrops DEF Read, Goto
  <2>2. CASE Exists(exec[w]) /\ row[exec[w]] # "CANCELLED"
    <3>1. exec[w] \in Executions /\ TakenUp[w] = NoOne
      BY <1>4, <1>0 DEF Read, TakenUp
    <3>2. /\ TakenUp' = [TakenUp EXCEPT ![w] = exec[w]]
          /\ Begun' = Begun
      BY <1>4, <2>2, <1>0 DEF Read, Goto, TakenUp, Begun
    <3>3. logs[exec[w]] + EL!Cardinality(EL!Runs(exec[w])) < MaxStalled + 1
      BY <1>4, RoomForOneMore, SameCardinality DEF Read
    <3>4. EL!TakeUp(w, exec[w])
      BY <1>4, <2>2, <3>1, <3>2, <3>3 DEF Read, EL!TakeUp, EL!Exists, Exists
    <3> QED
      BY <3>1, <3>4 DEF EL!Next
  <2> QED
    BY <2>1, <2>2
<1>5. ASSUME NEW w \in Workers, Mark(w) PROVE [EL!Next]_EL!vars
  <2>1. CASE ~Exists(exec[w])
    BY <1>5, <2>1, <1>0, StoppingDrops DEF Mark, Goto
  <2>2. CASE Exists(exec[w])
    <3>1. TakenUp[w] = exec[w] /\ TakenUp[w] # NoOne /\ w \notin Begun
      BY <1>5, <1>0 DEF Mark, TakenUp, Begun
    <3>2. TakenUp' = TakenUp /\ Begun' = Begun \cup {w}
      BY <1>5, <2>2, <1>0 DEF Mark, Goto, TakenUp, Begun
    <3>3. EL!Begin(w)
      BY <1>5, <2>2, <3>1, <3>2 DEF Mark, EL!Begin, EL!Exists, Exists
    <3> QED
      BY <3>3 DEF EL!Next
  <2> QED
    BY <2>1, <2>2
<1>6. ASSUME NEW w \in Workers, Execute(w) PROVE [EL!Next]_EL!vars
  <2>1. TakenUp' = TakenUp /\ Begun' = Begun
    BY <1>6, <1>0 DEF Execute, Goto, TakenUp, Begun
  <2> QED
    BY <1>6, <2>1 DEF Execute, EL!vars
<1>c. ASSUME NEW w \in Workers, pc[w] = "commit", Goto(w, "invalidate"), UNCHANGED exec
      PROVE  /\ w \in Begun /\ TakenUp[w] = exec[w] /\ exec[w] \in Executions
             /\ TakenUp' = [TakenUp EXCEPT ![w] = NoOne]
             /\ Begun' = Begun \ {w}
  BY <1>c, <1>0 DEF Goto, TakenUp, Begun
<1>7. ASSUME NEW w \in Workers, CommitResult(w) PROVE [EL!Next]_EL!vars
  <2>1. CASE ~Exists(exec[w])
    BY <1>7, <2>1, <1>0, StoppingDrops DEF CommitResult, Goto
  <2>2. CASE Exists(exec[w])
    <3>1. verdict[w] \in EL!Verdicts
      <4>1. verdict[w] \in Verdicts /\ verdict[w] # "threw"
        BY <1>7 DEF CommitResult, TypeOK, Reported
      <4> QED
        BY <4>1 DEF Verdicts, EL!Verdicts
    <3>2. EL!End(w, verdict[w])
      BY <1>7, <2>2, <1>c DEF CommitResult, EL!End, EL!Exists, Exists
    <3> QED
      BY <3>1, <3>2 DEF EL!Next
  <2> QED
    BY <2>1, <2>2
<1>8. ASSUME NEW w \in Workers, CommitError(w) PROVE [EL!Next]_EL!vars
  <2>1. CASE ~Exists(exec[w])
    BY <1>8, <2>1, <1>0, StoppingDrops DEF CommitError, Goto
  <2>2. CASE Exists(exec[w])
    <3>1. EL!Fail(w)
      BY <1>8, <2>2, <1>c DEF CommitError, EL!Fail, EL!Exists, Exists
    <3> QED
      BY <3>1 DEF EL!Next
  <2> QED
    BY <2>1, <2>2
<1>9. ASSUME NEW w \in Workers, Invalidate(w) \/ CallFails(w) PROVE [EL!Next]_EL!vars
  BY <1>9, <1>0, StoppingDrops DEF Invalidate, CallFails, Goto
<1>10. ASSUME NEW w \in Workers, Ack(w) \/ Reject(w) \/ Crash(w)
       PROVE  [EL!Next]_EL!vars
  BY <1>10, <1>0, StoppingDrops DEF Ack, Reject, Finish, Crash, Leave
<1>11. ASSUME NEW w \in Workers, LoseLock(w) PROVE [EL!Next]_EL!vars
  BY <1>11, <1>s DEF LoseLock
<1>12. ASSUME NEW c \in Cancels, CancelUpdate(c) PROVE [EL!Next]_EL!vars
  <2>1. CASE ~Exists(cancelOf[c])
    BY <1>12, <2>1, <1>s DEF CancelUpdate
  <2>2. CASE Exists(cancelOf[c])
    <3>1. cancelOf[c] \in Executions
      BY <1>12 DEF CancelUpdate, TypeOK
    <3>2. EL!Cancel(cancelOf[c])
      BY <1>12, <1>w, <2>2 DEF CancelUpdate, EL!Cancel, EL!Exists, Exists
    <3> QED
      BY <3>1, <3>2 DEF EL!Next
  <2> QED
    BY <2>1, <2>2
<1>13. ASSUME NEW c \in Cancels,
              \/ \E e \in Executions : CancelRead(c, e)
              \/ CancelInvalidate(c) \/ CancelFails(c)
       PROVE  [EL!Next]_EL!vars
  BY <1>13, <1>s DEF CancelRead, CancelInvalidate, CancelFails
<1>14. ASSUME NEW f \in Workflows, Remove(f) PROVE [EL!Next]_EL!vars
  <2> DEFINE D == {e \in Executions : WorkflowOf[e] = f}
  <2>1. row' = [e \in Executions |->
                  IF e \in D /\ EL!Exists(e) THEN "gone" ELSE row[e]]
    BY <1>14 DEF Remove, EL!Exists, Exists
  <2>2. logs' = [e \in Executions |-> IF e \in D THEN 0 ELSE logs[e]]
    BY <1>14 DEF Remove
  <2>3. EL!Delete(D)
    BY <1>14, <1>w, <2>1, <2>2 DEF Remove, EL!Delete
  <2> QED
    BY <2>3 DEF EL!Next
<1>15. ASSUME NEW f \in Workflows, RemoveInvalidate(f) \/ RemoveFails(f)
       PROVE  [EL!Next]_EL!vars
  BY <1>15, <1>s DEF RemoveInvalidate, RemoveFails
<1>16. CASE UNCHANGED vars
  BY <1>16, <1>s DEF vars
<1> QED
  BY <1>1, <1>2, <1>3, <1>4, <1>5, <1>6, <1>7, <1>8, <1>9, <1>10, <1>11, <1>12,
     <1>13, <1>14, <1>15, <1>16
  DEF Next, HandlerStep, CancelStep

\* Whatever Bull redelivers and processes, requests and faults do in between,
\* users see the executions of ExecutionLife: handleRun in four steps, taken
\* up MaxStalled + 1 times at most, and no cancellation undone but by a run
\* that had been taken up before it.
THEOREM PipelineImplementsLife == Spec => ImplementsExecutionLife
<1> QED
  BY LifeInit, LifeStep, JobsCorrect, LogsCounted, VerdictsReported, PTL
  DEF Spec, ImplementsExecutionLife, EL!Spec

-----------------------------------------------------------------------------
(* A completed job leaves a settled execution.                              *)

\* While no two handlers have worked on e at once: a handler that is done with
\* e has settled it, and a completed job has neither a handler nor an open row.
Solo(e) ==
  e \notin overlapped =>
    /\ \A v, w \in Workers : On(v, e) /\ On(w, e) => v = w
    /\ \A w \in Workers :
         exec[w] = e /\ pc[w] \in {"invalidate", "ack"} => row[e] \notin Open
    /\ job[e] = "completed" =>
         row[e] \notin Open /\ \A w \in Workers : ~On(w, e)

SoloInv == \A e \in Executions : Solo(e)

LEMMA SoloStep == TypeOK /\ JobInv /\ SoloInv /\ [Next]_vars => SoloInv'
<1> SUFFICES ASSUME TypeOK, JobInv, SoloInv, [Next]_vars, NEW d \in Executions
             PROVE  Solo(d)'
  BY DEF SoloInv
<1> USE PipelineAssumption
    DEF PipelineAssumption, TypeOK, JobInv, NotYetCreated, EnqueuedOnce, LockHeld,
        SoloInv, Solo, On, Exists, Open, Verdicts,
        dbVars, queueVars, workVars, apiVars, noteVars
<1>1. ASSUME NEW e \in Executions, Create(e) PROVE Solo(d)'
  BY <1>1 DEF Create
<1>2. ASSUME NEW e \in Executions, Enqueue(e) PROVE Solo(d)'
  BY <1>2 DEF Enqueue
<1>3. ASSUME NEW e \in Executions, EnqueueFails(e) PROVE Solo(d)'
  BY <1>3 DEF EnqueueFails
<1>4. ASSUME NEW e \in Executions, Requeue(e) PROVE Solo(d)'
  BY <1>4 DEF Requeue
<1>5. ASSUME NEW w \in Workers, NEW e \in Executions, Fetch(w, e) PROVE Solo(d)'
  BY <1>5 DEF Fetch
<1>6. ASSUME NEW w \in Workers, Read(w) PROVE Solo(d)'
  BY <1>6 DEF Read, Goto
<1>7. ASSUME NEW w \in Workers, Mark(w) PROVE Solo(d)'
  BY <1>7 DEF Mark, Goto
<1>8. ASSUME NEW w \in Workers, Execute(w) PROVE Solo(d)'
  BY <1>8 DEF Execute, Goto
<1>9. ASSUME NEW w \in Workers, CommitResult(w) PROVE Solo(d)'
  <2>1. /\ UNCHANGED <<queueVars, exec, noteVars>>
        /\ pc[w] = "commit" /\ exec[w] \in Executions
        /\ \A v \in Workers : v # w => pc'[v] = pc[v]
        /\ pc'[w] \in {"invalidate", "reject"}
    BY <1>9 DEF CommitResult, Goto
  <2>2. CASE exec[w] = d
    <3>1. row'[d] \notin Open
      BY <1>9, <2>2 DEF CommitResult
    <3> QED
      BY <2>1, <2>2, <3>1
  <2>3. CASE exec[w] # d
    <3>1. row'[d] = row[d]
      BY <1>9, <2>1, <2>3 DEF CommitResult
    <3> QED
      BY <2>1, <2>3, <3>1
  <2> QED
    BY <2>2, <2>3
<1>10. ASSUME NEW w \in Workers, CommitError(w) PROVE Solo(d)'
  <2>1. /\ UNCHANGED <<queueVars, exec, noteVars>>
        /\ pc[w] = "commit" /\ exec[w] \in Executions
        /\ \A v \in Workers : v # w => pc'[v] = pc[v]
        /\ pc'[w] \in {"invalidate", "reject"}
    BY <1>10 DEF CommitError, Goto
  <2>2. CASE exec[w] = d
    <3>1. row'[d] \notin Open
      BY <1>10, <2>2 DEF CommitError
    <3> QED
      BY <2>1, <2>2, <3>1
  <2>3. CASE exec[w] # d
    <3>1. row'[d] = row[d]
      BY <1>10, <2>1, <2>3 DEF CommitError
    <3> QED
      BY <2>1, <2>3, <3>1
  <2> QED
    BY <2>2, <2>3
<1>11. ASSUME NEW w \in Workers, Invalidate(w) PROVE Solo(d)'
  BY <1>11 DEF Invalidate, Goto
<1>12. ASSUME NEW w \in Workers, Ack(w) PROVE Solo(d)'
  BY <1>12 DEF Ack, Finish, Leave
<1>13. ASSUME NEW w \in Workers, Reject(w) PROVE Solo(d)'
  BY <1>13 DEF Reject, Finish, Leave
<1>14. ASSUME NEW w \in Workers, LoseLock(w) PROVE Solo(d)'
  BY <1>14 DEF LoseLock
<1>15. ASSUME NEW w \in Workers, Crash(w) PROVE Solo(d)'
  BY <1>15 DEF Crash, Leave
<1>16. ASSUME NEW w \in Workers, CallFails(w) PROVE Solo(d)'
  BY <1>16 DEF CallFails, Goto
<1>17. ASSUME NEW c \in Cancels, NEW e \in Executions, CancelRead(c, e) PROVE Solo(d)'
  BY <1>17 DEF CancelRead
<1>18. ASSUME NEW c \in Cancels, CancelUpdate(c) PROVE Solo(d)'
  BY <1>18 DEF CancelUpdate
<1>19. ASSUME NEW c \in Cancels, CancelInvalidate(c) PROVE Solo(d)'
  BY <1>19 DEF CancelInvalidate
<1>20. ASSUME NEW c \in Cancels, CancelFails(c) PROVE Solo(d)'
  BY <1>20 DEF CancelFails
<1>21. ASSUME NEW f \in Workflows, Remove(f) PROVE Solo(d)'
  BY <1>21 DEF Remove
<1>22. ASSUME NEW f \in Workflows, RemoveInvalidate(f) PROVE Solo(d)'
  BY <1>22 DEF RemoveInvalidate
<1>23. ASSUME NEW f \in Workflows, RemoveFails(f) PROVE Solo(d)'
  BY <1>23 DEF RemoveFails
<1>24. CASE UNCHANGED vars
  BY <1>24 DEF vars
<1> QED
  BY <1>1, <1>2, <1>3, <1>4, <1>5, <1>6, <1>7, <1>8, <1>9, <1>10, <1>11, <1>12,
     <1>13, <1>14, <1>15, <1>16, <1>17, <1>18, <1>19, <1>20, <1>21, <1>22, <1>23, <1>24
  DEF Next, HandlerStep, CancelStep

\* Whatever crashes, failed calls and redeliveries happen, a job is reported
\* completed only when its execution is settled or gone.
THEOREM CompletedSettles == Spec => []CompletedIsSettled
<1>1. Init => SoloInv
  BY DEF Init, SoloInv, Solo, On
<1>2. SoloInv => CompletedIsSettled
  BY DEF SoloInv, Solo, CompletedIsSettled
<1> QED
  BY <1>1, <1>2, SoloStep, JobsCorrect, PTL DEF Spec

-----------------------------------------------------------------------------
(* Cached metrics.                                                          *)

LEMMA StaleStep == TypeOK /\ StaleIsTransient /\ [Next]_vars => StaleIsTransient'
<1> SUFFICES ASSUME TypeOK, StaleIsTransient, [Next]_vars PROVE StaleIsTransient'
  OBVIOUS
<1> USE DEF TypeOK, StaleIsTransient, queueVars, workVars, apiVars, noteVars
<1>1. ASSUME UNCHANGED <<stale, missed, workVars, cancelPc, workflow>>
      PROVE  StaleIsTransient'
  BY <1>1
\* The steps that drop the metrics, and those that lose the del.
<1>2. ASSUME ~stale' PROVE StaleIsTransient'
  BY <1>2
<1>3. ASSUME missed' PROVE StaleIsTransient'
  BY <1>3
<1>4. ASSUME NEW e \in Executions,
             Create(e) \/ Enqueue(e) \/ EnqueueFails(e) \/ Requeue(e)
      PROVE  StaleIsTransient'
  BY <1>1, <1>4 DEF Create, Enqueue, EnqueueFails, Requeue
<1>5. ASSUME NEW w \in Workers, NEW e \in Executions, Fetch(w, e)
      PROVE  StaleIsTransient'
  BY <1>5 DEF Fetch
<1>6. ASSUME NEW w \in Workers, Read(w) \/ Mark(w) \/ Execute(w)
      PROVE  StaleIsTransient'
  BY <1>6 DEF Read, Mark, Execute, Goto
<1>7. ASSUME NEW w \in Workers, CommitResult(w) PROVE StaleIsTransient'
  BY <1>7 DEF CommitResult, Goto
<1>8. ASSUME NEW w \in Workers, CommitError(w) PROVE StaleIsTransient'
  BY <1>8 DEF CommitError, Goto
<1>9. ASSUME NEW w \in Workers, Invalidate(w) PROVE StaleIsTransient'
  BY <1>2, <1>9 DEF Invalidate
<1>10. ASSUME NEW w \in Workers, Ack(w) \/ Reject(w) PROVE StaleIsTransient'
  BY <1>10 DEF Ack, Reject, Finish, Leave
<1>11. ASSUME NEW w \in Workers, LoseLock(w) PROVE StaleIsTransient'
  BY <1>1, <1>11 DEF LoseLock
<1>12. ASSUME NEW w \in Workers, Crash(w) PROVE StaleIsTransient'
  BY <1>12 DEF Crash, Leave
<1>13. ASSUME NEW w \in Workers, CallFails(w) PROVE StaleIsTransient'
  BY <1>13 DEF CallFails, Goto
<1>14. ASSUME NEW c \in Cancels, NEW e \in Executions, CancelRead(c, e)
       PROVE  StaleIsTransient'
  BY <1>14 DEF CancelRead
<1>15. ASSUME NEW c \in Cancels, CancelUpdate(c) PROVE StaleIsTransient'
  BY <1>15 DEF CancelUpdate
<1>16. ASSUME NEW c \in Cancels, CancelInvalidate(c) PROVE StaleIsTransient'
  BY <1>2, <1>16 DEF CancelInvalidate
<1>17. ASSUME NEW c \in Cancels, CancelFails(c) PROVE StaleIsTransient'
  BY <1>17 DEF CancelFails
<1>18. ASSUME NEW f \in Workflows, Remove(f) PROVE StaleIsTransient'
  BY <1>18 DEF Remove
<1>19. ASSUME NEW f \in Workflows, RemoveInvalidate(f) PROVE StaleIsTransient'
  BY <1>2, <1>19 DEF RemoveInvalidate
<1>20. ASSUME NEW f \in Workflows, RemoveFails(f) PROVE StaleIsTransient'
  BY <1>3, <1>20 DEF RemoveFails
<1>21. CASE UNCHANGED vars
  BY <1>1, <1>21 DEF vars
<1> QED
  BY <1>4, <1>5, <1>6, <1>7, <1>8, <1>9, <1>10, <1>11, <1>12, <1>13, <1>14,
     <1>15, <1>16, <1>17, <1>18, <1>19, <1>20, <1>21
  DEF Next, HandlerStep, CancelStep

\* Metrics that miss a terminal status are being dropped, or a fault has
\* swallowed a del.
THEOREM StaleMetricsAreTransient == Spec => []StaleIsTransient
<1>1. Init => StaleIsTransient
  BY DEF Init, StaleIsTransient
<1> QED
  BY <1>1, StaleStep, TypeCorrect, PTL DEF Spec

-----------------------------------------------------------------------------
(* What the rooms are told.                                                 *)

LEMMA EventStepIsStep == [EventNext]_allVars => [Next]_vars
  BY DEF EventNext, EventHandlerStep, SilentHandlerStep, SilentNext, ExecuteEvent,
         InvalidateEvent, Next, HandlerStep, allVars

\* The events only watch: with them, an execution goes through the same states.
THEOREM EventRunsAreRuns == EventSpec => Spec
<1>1. EventInit => Init
  BY DEF EventInit
<1> QED
  BY <1>1, EventStepIsStep, PTL DEF EventSpec, Spec

\* The status that the handler writes for an answer of the executor.
Outcome(v) == IF v = "threw" THEN "FAILED" ELSE v

\* Every step of a handler on its way from the answer to the acknowledgement,
\* as long as it has the execution to itself.
Told(e) ==
  /\ request[e] # "idle" => row[e] # "none"
  /\ \A w \in Workers : pc[w] = "commit" => verdict[w] \in Verdicts
  /\ e \notin overlapped =>
       /\ \A w \in Workers : exec[w] = e /\ pc[w] \in {"execute", "commit"} =>
            row[e] \in {"RUNNING", "CANCELLED", "gone"}
       /\ \A w \in Workers : exec[w] = e /\ pc[w] = "commit" =>
            /\ verdict[w] = "SUCCESS" => ended[e] = "completed"
            /\ verdict[w] = "TIMEOUT" => ended[e] = "failed"
       /\ row[e] = "SUCCESS" => ended[e] = "completed"
       /\ row[e] = "TIMEOUT" => ended[e] = "failed"
       /\ \A w \in Workers : exec[w] = e /\ pc[w] = "invalidate" =>
            row[e] \in {Outcome(verdict[w]), "CANCELLED", "gone"}
       /\ \A w \in Workers : exec[w] = e /\ pc[w] = "ack" =>
            row[e] \in {told[e], "CANCELLED", "gone"}
       /\ job[e] = "completed" => row[e] \in {told[e], "CANCELLED", "gone"}

EventTypeOK ==
  /\ ended \in [Executions -> {"none", "completed", "failed"}]
  /\ told \in [Executions -> Verdicts \cup {"none"}]

ToldInv == \A e \in Executions : Told(e)

LEMMA EventTypeStep == TypeOK /\ EventTypeOK /\ [EventNext]_allVars => EventTypeOK'
<1> SUFFICES ASSUME TypeOK, EventTypeOK, [EventNext]_allVars PROVE EventTypeOK'
  OBVIOUS
<1>1. ASSUME UNCHANGED eventVars PROVE EventTypeOK'
  BY <1>1 DEF EventTypeOK, eventVars
<1>2. ASSUME NEW w \in Workers, ExecuteEvent(w) PROVE EventTypeOK'
  BY <1>2 DEF EventTypeOK, ExecuteEvent
<1>3. ASSUME NEW w \in Workers, InvalidateEvent(w) PROVE EventTypeOK'
  BY <1>3 DEF EventTypeOK, InvalidateEvent, TypeOK, Verdicts
<1> QED
  BY <1>1, <1>2, <1>3 DEF EventNext, EventHandlerStep, allVars

LEMMA ToldStep ==
  TypeOK /\ JobInv /\ SoloInv /\ EventTypeOK /\ ToldInv /\ [EventNext]_allVars => ToldInv'
<1> SUFFICES ASSUME TypeOK, JobInv, SoloInv, EventTypeOK, ToldInv, [EventNext]_allVars,
                    NEW d \in Executions
             PROVE  Told(d)'
  BY DEF ToldInv
<1> USE PipelineAssumption
    DEF PipelineAssumption, TypeOK, JobInv, EnqueuedOnce, LockHeld, SoloInv, Solo, On,
        Exists, Open, Verdicts, ToldInv, Told, Outcome, EventTypeOK,
        dbVars, queueVars, workVars, apiVars, noteVars, eventVars
<1>1. ASSUME NEW e \in Executions, Create(e), UNCHANGED eventVars PROVE Told(d)'
  BY <1>1 DEF Create, NotYetCreated
<1>2. ASSUME NEW e \in Executions, Enqueue(e), UNCHANGED eventVars PROVE Told(d)'
  BY <1>2 DEF Enqueue
<1>3. ASSUME NEW e \in Executions, EnqueueFails(e), UNCHANGED eventVars PROVE Told(d)'
  BY <1>3 DEF EnqueueFails
<1>4. ASSUME NEW e \in Executions, Requeue(e), UNCHANGED eventVars PROVE Told(d)'
  BY <1>4 DEF Requeue
<1>5. ASSUME NEW w \in Workers, NEW e \in Executions, Fetch(w, e), UNCHANGED eventVars PROVE Told(d)'
  BY <1>5 DEF Fetch
<1>6. ASSUME NEW w \in Workers, Read(w), UNCHANGED eventVars PROVE Told(d)'
  BY <1>6 DEF Read, Goto
<1>7. ASSUME NEW w \in Workers, Mark(w), UNCHANGED eventVars PROVE Told(d)'
  BY <1>7 DEF Mark, Goto
<1>8. ASSUME NEW w \in Workers, CommitResult(w), UNCHANGED eventVars PROVE Told(d)'
  <2>1. /\ UNCHANGED <<request, queueVars, exec, verdict, noteVars, eventVars>>
        /\ pc[w] = "commit" /\ exec[w] \in Executions /\ verdict[w] # "threw"
        /\ \A v \in Workers : v # w => pc'[v] = pc[v]
        /\ pc'[w] \in {"invalidate", "reject"}
    BY <1>8 DEF CommitResult, Goto
  <2>2. CASE exec[w] = d /\ Exists(d)
    <3>1. row'[d] = verdict[w] /\ pc'[w] = "invalidate"
      BY <1>8, <2>2 DEF CommitResult, Goto
    <3>2. d \notin overlapped =>
            job[d] # "completed" /\ \A v \in Workers : v # w /\ exec[v] = d => pc[v] = "idle"
      BY <2>1, <2>2
    <3>3. d \notin overlapped =>
            /\ verdict[w] = "SUCCESS" => ended[d] = "completed"
            /\ verdict[w] = "TIMEOUT" => ended[d] = "failed"
      BY <2>1, <2>2
    <3>4. \A v \in Workers : pc'[v] = "commit" => pc[v] = "commit"
      BY <2>1, <3>1
    <3> HIDE DEF JobInv, EnqueuedOnce, LockHeld, SoloInv, Solo
    <3> QED
      BY <2>1, <2>2, <3>1, <3>2, <3>3, <3>4
  <2>3. CASE ~(exec[w] = d /\ Exists(d))
    <3>1. row'[d] = row[d]
      BY <1>8, <2>1, <2>3 DEF CommitResult
    <3>2. exec[w] = d => pc'[w] = "reject"
      BY <1>8, <2>1, <2>3 DEF CommitResult, Goto
    <3> QED
      BY <2>1, <2>3, <3>1, <3>2
  <2> QED
    BY <2>2, <2>3
<1>9. ASSUME NEW w \in Workers, CommitError(w), UNCHANGED eventVars PROVE Told(d)'
  <2>1. /\ UNCHANGED <<request, queueVars, exec, verdict, noteVars, eventVars>>
        /\ pc[w] = "commit" /\ exec[w] \in Executions /\ verdict[w] = "threw"
        /\ \A v \in Workers : v # w => pc'[v] = pc[v]
        /\ pc'[w] \in {"invalidate", "reject"}
    BY <1>9 DEF CommitError, Goto
  <2>2. CASE exec[w] = d /\ Exists(d)
    <3>1. row'[d] = "FAILED" /\ pc'[w] = "invalidate"
      BY <1>9, <2>2 DEF CommitError, Goto
    <3>2. d \notin overlapped =>
            job[d] # "completed" /\ \A v \in Workers : v # w /\ exec[v] = d => pc[v] = "idle"
      BY <2>1, <2>2
    <3>3. d \notin overlapped =>
            /\ verdict[w] = "SUCCESS" => ended[d] = "completed"
            /\ verdict[w] = "TIMEOUT" => ended[d] = "failed"
      BY <2>1, <2>2
    <3>4. \A v \in Workers : pc'[v] = "commit" => pc[v] = "commit"
      BY <2>1, <3>1
    <3> HIDE DEF JobInv, EnqueuedOnce, LockHeld, SoloInv, Solo
    <3> QED
      BY <2>1, <2>2, <3>1, <3>2, <3>3, <3>4
  <2>3. CASE ~(exec[w] = d /\ Exists(d))
    <3>1. row'[d] = row[d]
      BY <1>9, <2>1, <2>3 DEF CommitError
    <3>2. exec[w] = d => pc'[w] = "reject"
      BY <1>9, <2>1, <2>3 DEF CommitError, Goto
    <3> QED
      BY <2>1, <2>3, <3>1, <3>2
  <2> QED
    BY <2>2, <2>3
<1>10. ASSUME NEW w \in Workers, Ack(w), UNCHANGED eventVars PROVE Told(d)'
  BY <1>10 DEF Ack, Finish, Leave
<1>11. ASSUME NEW w \in Workers, Reject(w), UNCHANGED eventVars PROVE Told(d)'
  BY <1>11 DEF Reject, Finish, Leave
<1>12. ASSUME NEW w \in Workers, LoseLock(w), UNCHANGED eventVars PROVE Told(d)'
  BY <1>12 DEF LoseLock
<1>13. ASSUME NEW w \in Workers, Crash(w), UNCHANGED eventVars PROVE Told(d)'
  BY <1>13 DEF Crash, Leave
<1>14. ASSUME NEW w \in Workers, CallFails(w), UNCHANGED eventVars PROVE Told(d)'
  BY <1>14 DEF CallFails, Goto
<1>15. ASSUME NEW c \in Cancels, NEW e \in Executions, CancelRead(c, e), UNCHANGED eventVars PROVE Told(d)'
  BY <1>15 DEF CancelRead
<1>16. ASSUME NEW c \in Cancels, CancelUpdate(c), UNCHANGED eventVars PROVE Told(d)'
  BY <1>16 DEF CancelUpdate
<1>17. ASSUME NEW c \in Cancels, CancelInvalidate(c), UNCHANGED eventVars PROVE Told(d)'
  BY <1>17 DEF CancelInvalidate
<1>18. ASSUME NEW c \in Cancels, CancelFails(c), UNCHANGED eventVars PROVE Told(d)'
  BY <1>18 DEF CancelFails
<1>19. ASSUME NEW f \in Workflows, Remove(f), UNCHANGED eventVars PROVE Told(d)'
  BY <1>19 DEF Remove
<1>20. ASSUME NEW f \in Workflows, RemoveInvalidate(f), UNCHANGED eventVars PROVE Told(d)'
  BY <1>20 DEF RemoveInvalidate
<1>21. ASSUME NEW f \in Workflows, RemoveFails(f), UNCHANGED eventVars PROVE Told(d)'
  BY <1>21 DEF RemoveFails
<1>22. ASSUME NEW w \in Workers, ExecuteEvent(w) PROVE Told(d)'
  BY <1>22 DEF ExecuteEvent, Execute, Goto
<1>23. ASSUME NEW w \in Workers, InvalidateEvent(w) PROVE Told(d)'
  BY <1>23 DEF InvalidateEvent, Invalidate, Goto
<1>24. CASE UNCHANGED allVars
  BY <1>24 DEF allVars, vars
<1> QED
  BY <1>1, <1>2, <1>3, <1>4, <1>5, <1>6, <1>7, <1>8, <1>9, <1>10, <1>11, <1>12, <1>13, <1>14, <1>15, <1>16, <1>17, <1>18, <1>19, <1>20, <1>21, <1>22, <1>23, <1>24
  DEF EventNext, EventHandlerStep, SilentHandlerStep, SilentNext, CancelStep

LEMMA EventsCorrect == EventSpec => [](TypeOK /\ JobInv /\ SoloInv /\ EventTypeOK /\ ToldInv)
<1>1. EventInit => TypeOK /\ JobInv /\ SoloInv /\ EventTypeOK /\ ToldInv
  <2>1. EventInit => TypeOK /\ JobInv
    BY TypeInit, JobInit DEF EventInit
  <2>2. EventInit => SoloInv /\ EventTypeOK /\ ToldInv
    BY DEF EventInit, Init, SoloInv, Solo, On, EventTypeOK, ToldInv, Told
  <2> QED
    BY <2>1, <2>2
<1>2. TypeOK /\ JobInv /\ SoloInv /\ EventTypeOK /\ ToldInv /\ [EventNext]_allVars
        => (TypeOK /\ JobInv /\ SoloInv /\ EventTypeOK /\ ToldInv)'
  BY EventStepIsStep, TypeStep, JobStep, SoloStep, EventTypeStep, ToldStep
<1> QED
  BY <1>1, <1>2, PTL DEF EventSpec

\* A completed job has told the tenant the status of its execution, which only
\* a cancellation or a deletion can have changed since.
THEOREM CompletedJobsAreTold == EventSpec => []CompletedIsTold
<1>1. ToldInv => CompletedIsTold
  BY DEF ToldInv, Told, CompletedIsTold
<1> QED
  BY <1>1, EventsCorrect, PTL

\* A row that says SUCCESS or TIMEOUT has step logs and was announced as
\* completed or as failed.
THEOREM VerdictsAreWhole == EventSpec => []VerdictIsWhole
<1>1. ToldInv /\ VerdictHasLogs => VerdictIsWhole
  BY DEF ToldInv, Told, VerdictIsWhole
<1> QED
  BY <1>1, EventsCorrect, EventRunsAreRuns, VerdictsHaveLogs, PTL

-----------------------------------------------------------------------------
(* Runs without faults.                                                     *)

\* What the room of the execution has heard when the executor answers v.
Announcement(v) ==
  CASE v = "threw" -> "none" [] v = "SUCCESS" -> "completed" [] OTHER -> "failed"

\* Nobody has heard of a run that has not been answered, a handler about to
\* commit writes what was announced, and a handler that rejects has found no
\* row: without faults each of them holds the lock, and no job comes back.
Announced(e) ==
  faults = 0 =>
    /\ \A w \in Workers : On(w, e) => lock[e] = w
    /\ job[e] = "active" => lock[e] # NoOne
    /\ job[e] \in {"none", "waiting"} => ended[e] = "none"
    /\ \A w \in Workers : exec[w] = e =>
         /\ pc[w] \in {"read", "mark", "execute"} => ended[e] = "none"
         /\ pc[w] = "commit" => ended[e] = Announcement(verdict[w])
         /\ pc[w] = "reject" => row[e] = "gone"
    /\ ended[e] # "none" =>
         \/ (row[e] = "SUCCESS") = (ended[e] = "completed") /\ row[e] \in Settled
         \/ row[e] \in {"CANCELLED", "gone"}
         \/ \E w \in Workers : exec[w] = e /\ pc[w] = "commit"

AnnouncedInv == \A e \in Executions : Announced(e)

LEMMA AnnouncedStep ==
  TypeOK /\ JobInv /\ EventTypeOK /\ ToldInv /\ AnnouncedInv /\ [EventNext]_allVars => AnnouncedInv'
<1> SUFFICES ASSUME TypeOK, JobInv, EventTypeOK, ToldInv, AnnouncedInv, [EventNext]_allVars,
                    NEW d \in Executions
             PROVE  Announced(d)'
  BY DEF AnnouncedInv
<1>0. request[d] # "idle" => row[d] # "none"
  BY DEF ToldInv, Told
<1> USE PipelineAssumption, <1>0
    DEF PipelineAssumption, TypeOK, JobInv, EnqueuedOnce, LockHeld, On,
        Exists, Open, Settled, Verdicts, Announcement, EventTypeOK, AnnouncedInv, Announced,
        dbVars, queueVars, workVars, apiVars, noteVars, eventVars
<1>1. ASSUME NEW e \in Executions, Create(e), UNCHANGED eventVars PROVE Announced(d)'
  BY <1>1 DEF Create, NotYetCreated
<1>2. ASSUME NEW e \in Executions, Enqueue(e), UNCHANGED eventVars PROVE Announced(d)'
  BY <1>2 DEF Enqueue
<1>3. ASSUME NEW e \in Executions, EnqueueFails(e), UNCHANGED eventVars PROVE Announced(d)'
  BY <1>3 DEF EnqueueFails, Fault
<1>4. ASSUME NEW e \in Executions, Requeue(e), UNCHANGED eventVars PROVE Announced(d)'
  BY <1>4 DEF Requeue
<1>5. ASSUME NEW w \in Workers, NEW e \in Executions, Fetch(w, e), UNCHANGED eventVars PROVE Announced(d)'
  BY <1>5 DEF Fetch
<1>6. ASSUME NEW w \in Workers, Read(w), UNCHANGED eventVars PROVE Announced(d)'
  BY <1>6 DEF Read, Goto
<1>7. ASSUME NEW w \in Workers, Mark(w), UNCHANGED eventVars PROVE Announced(d)'
  BY <1>7 DEF Mark, Goto
<1>8. ASSUME NEW w \in Workers, CommitResult(w), UNCHANGED eventVars PROVE Announced(d)'
  <2>1. /\ UNCHANGED <<request, queueVars, exec, verdict, noteVars, eventVars>>
        /\ pc[w] = "commit" /\ exec[w] \in Executions /\ verdict[w] # "threw"
        /\ \A v \in Workers : v # w => pc'[v] = pc[v]
        /\ pc'[w] \in {"invalidate", "reject"}
    BY <1>8 DEF CommitResult, Goto
  <2>2. CASE exec[w] = d /\ Exists(d)
    <3>1. row'[d] = verdict[w] /\ pc'[w] = "invalidate"
      BY <1>8, <2>2 DEF CommitResult, Goto
    <3>2. ASSUME faults = 0
          PROVE  /\ ended[d] # "none" /\ verdict[w] \in Settled
                 /\ (verdict[w] = "SUCCESS") = (ended[d] = "completed")
      <4>1. ended[d] = Announcement(verdict[w]) /\ verdict[w] \in Verdicts
        BY <2>1, <2>2, <3>2 DEF ToldInv, Told
      <4> QED
        BY <2>1, <4>1
    <3>3. ASSUME faults = 0, NEW v \in Workers, On(v, d) PROVE v = w
      BY <2>1, <2>2, <3>3
    <3> QED
      BY <2>1, <2>2, <3>1, <3>2, <3>3
  <2>3. CASE ~(exec[w] = d /\ Exists(d))
    <3>1. row'[d] = row[d]
      BY <1>8, <2>1, <2>3 DEF CommitResult
    <3>2. exec[w] = d => row[d] = "gone"
      BY <2>1, <2>3 DEF RowStates
    <3> QED
      BY <2>1, <2>3, <3>1, <3>2
  <2> QED
    BY <2>2, <2>3
<1>9. ASSUME NEW w \in Workers, CommitError(w), UNCHANGED eventVars PROVE Announced(d)'
  BY <1>9 DEF CommitError, Goto
<1>10. ASSUME NEW w \in Workers, Ack(w), UNCHANGED eventVars PROVE Announced(d)'
  BY <1>10 DEF Ack, Finish, Leave
<1>11. ASSUME NEW w \in Workers, Reject(w), UNCHANGED eventVars PROVE Announced(d)'
  BY <1>11 DEF Reject, Finish, Leave
<1>12. ASSUME NEW w \in Workers, LoseLock(w), UNCHANGED eventVars PROVE Announced(d)'
  BY <1>12 DEF LoseLock, Fault
<1>13. ASSUME NEW w \in Workers, Crash(w), UNCHANGED eventVars PROVE Announced(d)'
  BY <1>13 DEF Crash, Fault
<1>14. ASSUME NEW w \in Workers, CallFails(w), UNCHANGED eventVars PROVE Announced(d)'
  BY <1>14 DEF CallFails, Fault
<1>15. ASSUME NEW c \in Cancels, NEW e \in Executions, CancelRead(c, e), UNCHANGED eventVars PROVE Announced(d)'
  BY <1>15 DEF CancelRead
<1>16. ASSUME NEW c \in Cancels, CancelUpdate(c), UNCHANGED eventVars PROVE Announced(d)'
  BY <1>16 DEF CancelUpdate
<1>17. ASSUME NEW c \in Cancels, CancelInvalidate(c), UNCHANGED eventVars PROVE Announced(d)'
  BY <1>17 DEF CancelInvalidate
<1>18. ASSUME NEW c \in Cancels, CancelFails(c), UNCHANGED eventVars PROVE Announced(d)'
  BY <1>18 DEF CancelFails, Fault
<1>19. ASSUME NEW f \in Workflows, Remove(f), UNCHANGED eventVars PROVE Announced(d)'
  BY <1>19 DEF Remove
<1>20. ASSUME NEW f \in Workflows, RemoveInvalidate(f), UNCHANGED eventVars PROVE Announced(d)'
  BY <1>20 DEF RemoveInvalidate
<1>21. ASSUME NEW f \in Workflows, RemoveFails(f), UNCHANGED eventVars PROVE Announced(d)'
  BY <1>21 DEF RemoveFails, Fault
<1>22. ASSUME NEW w \in Workers, ExecuteEvent(w) PROVE Announced(d)'
  BY <1>22 DEF ExecuteEvent, Execute, Goto
<1>23. ASSUME NEW w \in Workers, InvalidateEvent(w) PROVE Announced(d)'
  BY <1>23 DEF InvalidateEvent, Invalidate, Goto
<1>24. CASE UNCHANGED allVars
  BY <1>24 DEF allVars, vars
<1> QED
  BY <1>1, <1>2, <1>3, <1>4, <1>5, <1>6, <1>7, <1>8, <1>9, <1>10, <1>11, <1>12, <1>13, <1>14,
     <1>15, <1>16, <1>17, <1>18, <1>19, <1>20, <1>21, <1>22, <1>23, <1>24
  DEF EventNext, EventHandlerStep, SilentHandlerStep, SilentNext, CancelStep

\* Without faults, the end that was announced last is in the row or about to be
\* written, unless the execution was cancelled or deleted.
THEOREM AnnouncementsAreWritten == EventSpec => []AnnouncedIsWritten
<1>1. EventInit => AnnouncedInv
  BY PipelineAssumption DEF PipelineAssumption, EventInit, Init, AnnouncedInv, Announced, On
<1>2. AnnouncedInv => AnnouncedIsWritten
  BY DEF AnnouncedInv, Announced, AnnouncedIsWritten
<1> QED
  BY <1>1, <1>2, EventsCorrect, AnnouncedStep, PTL DEF EventSpec

=============================================================================
