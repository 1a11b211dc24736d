------------------------- MODULE ExecutionPipeline -------------------------
(***************************************************************************)
(* The life of an execution: the API request that creates its row and      *)
(* enqueues a job (execution.service.ts), the Bull job that carries it,    *)
(* the worker process that runs it (execution.processor.ts), the cancel    *)
(* requests and the workflow deletion that touch the same row, and the     *)
(* cached health metrics each of them invalidates.                         *)
(*                                                                         *)
(* Every await of the handlers is a boundary between two actions, so the   *)
(* database, Redis and the other processes may do anything in between.     *)
(* What one run of a workflow computes is the WorkflowExecutor module;     *)
(* here it is one of the verdicts it may return.                           *)
(***************************************************************************)
EXTENDS Naturals, FiniteSets

CONSTANTS
  Executions,   \* execution ids, each created at most once
  Workflows,    \* workflow definition ids
  WorkflowOf,   \* the workflow each execution belongs to
  Workers,      \* processes with an 'execution' processor, concurrency 1 each
  Cancels,      \* requests POST /executions/:id/cancel
  NoOne,        \* no worker, or no execution
  MaxStalled,   \* Bull's maxStalledCount: redeliveries of a stalled job (1)
  MaxFaults     \* bound on crashes, lost locks and failed calls

ASSUME PipelineAssumption ==
  /\ WorkflowOf \in [Executions -> Workflows]
  /\ IsFiniteSet(Workers)
  /\ NoOne \notin Executions \cup Workers
  /\ MaxStalled \in Nat
  /\ MaxFaults \in Nat

VARIABLES
  row,        \* executions.status, with "none" before create, "gone" after delete
  logs,       \* how many batches of executionStepLog rows the execution has
  request,    \* triggerManual: "idle", "created", "enqueued", "broken"
  job,        \* state of the Bull job
  stalled,    \* the job's stalledCounter
  lock,       \* the worker whose token is the job's lock
  pc,         \* where each worker is in handleRun
  exec,       \* the execution its job names
  verdict,    \* what executor.execute answered it
  cancelPc,   \* where each cancel request is
  cancelOf,   \* the execution it is for
  workflow,   \* "live", "deleted" (metrics not yet dropped), "removed"
  stale,      \* a terminal write is not yet followed by del health:metrics
  missed,     \* history: a fault swallowed such a del
  overlapped, \* history: executions that two handlers worked on at once
  faults      \* how many faults have happened

dbVars    == <<row, logs>>
queueVars == <<job, stalled, lock>>
workVars  == <<pc, exec, verdict>>
apiVars   == <<request, cancelPc, cancelOf, workflow>>
noteVars  == <<missed, overlapped, faults>>
vars == <<dbVars, queueVars, workVars, apiVars, stale, noteVars>>

Verdicts  == {"SUCCESS", "FAILED", "TIMEOUT", "threw"}
Open      == {"PENDING", "RUNNING"}
Settled   == {"SUCCESS", "FAILED", "TIMEOUT", "CANCELLED"}
RowStates == {"none", "gone"} \cup Open \cup Settled
JobStates == {"none", "waiting", "active", "completed", "failed"}
WorkerPcs == {"idle", "read", "mark", "execute", "commit", "invalidate",
              "ack", "reject"}

Exists(e)      == row[e] \notin {"none", "gone"}
On(w, e)       == pc[w] # "idle" /\ exec[w] = e
\* Past the check of handleRun line 37, and still to write a status.
Running(w, e)  == exec[w] = e /\ pc[w] \in {"mark", "execute", "commit"}

Init ==
  /\ row = [e \in Executions |-> "none"]
  /\ logs = [e \in Executions |-> 0]
  /\ request = [e \in Executions |-> "idle"]
  /\ job = [e \in Executions |-> "none"]
  /\ stalled = [e \in Executions |-> 0]
  /\ lock = [e \in Executions |-> NoOne]
  /\ pc = [w \in Workers |-> "idle"]
  /\ exec = [w \in Workers |-> NoOne]
  /\ verdict = [w \in Workers |-> "none"]
  /\ cancelPc = [c \in Cancels |-> "idle"]
  /\ cancelOf = [c \in Cancels |-> NoOne]
  /\ workflow = [f \in Workflows |-> "live"]
  /\ stale = FALSE
  /\ missed = FALSE
  /\ overlapped = {}
  /\ faults = 0

Fault == faults < MaxFaults /\ faults' = faults + 1

-----------------------------------------------------------------------------
(* triggerManual: the row first, then the job.  The two reads before the    *)
(* create only find the version; the foreign keys of the insert fail when   *)
(* the workflow has gone in the meantime.                                   *)

Create(e) ==
  /\ request[e] = "idle"
  /\ workflow[WorkflowOf[e]] = "live"
  /\ row' = [row EXCEPT ![e] = "PENDING"]
  /\ request' = [request EXCEPT ![e] = "created"]
  /\ UNCHANGED <<logs, queueVars, workVars, cancelPc, cancelOf, workflow,
                 stale, noteVars>>

Enqueue(e) ==
  /\ request[e] = "created"
  /\ request' = [request EXCEPT ![e] = "enqueued"]
  /\ job' = [job EXCEPT ![e] = "waiting"]
  /\ UNCHANGED <<dbVars, stalled, lock, workVars, cancelPc, cancelOf, workflow,
                 stale, noteVars>>

\* The process dies, or queue.add rejects, after the row was created.
EnqueueFails(e) ==
  /\ request[e] = "created"
  /\ Fault
  /\ request' = [request EXCEPT ![e] = "broken"]
  /\ UNCHANGED <<dbVars, queueVars, workVars, cancelPc, cancelOf, workflow,
                 stale, missed, overlapped>>

-----------------------------------------------------------------------------
(* Bull.  A job is attempted once (no attempts option is given): a handler   *)
(* that throws fails it.  A job whose lock has expired is stalled; it goes   *)
(* back to waiting MaxStalled times, then it is failed.                      *)

Fetch(w, e) ==
  /\ pc[w] = "idle"
  /\ job[e] = "waiting"
  /\ job' = [job EXCEPT ![e] = "active"]
  /\ lock' = [lock EXCEPT ![e] = w]
  /\ pc' = [pc EXCEPT ![w] = "read"]
  /\ exec' = [exec EXCEPT ![w] = e]
  /\ overlapped' = IF \E v \in Workers : On(v, e)
                     THEN overlapped \cup {e} ELSE overlapped
  /\ UNCHANGED <<dbVars, stalled, verdict, apiVars, stale, missed, faults>>

Leave(w) ==
  /\ pc' = [pc EXCEPT ![w] = "idle"]
  /\ exec' = [exec EXCEPT ![w] = NoOne]
  /\ verdict' = [verdict EXCEPT ![w] = "none"]

\* moveToCompleted and moveToFailed do nothing without the job's lock.
Finish(w, result) ==
  LET e == exec[w] IN
  /\ IF lock[e] = w
       THEN /\ job' = [job EXCEPT ![e] = result]
            /\ lock' = [lock EXCEPT ![e] = NoOne]
       ELSE UNCHANGED <<job, lock>>
  /\ Leave(w)
  /\ UNCHANGED <<dbVars, stalled, apiVars, stale, noteVars>>

Ack(w)    == pc[w] = "ack" /\ Finish(w, "completed")
Reject(w) == pc[w] = "reject" /\ Finish(w, "failed")

\* Seeded bug: off by one, a job is redelivered once too often.
RequeueOnceMore(e) ==
  /\ job[e] = "active"
  /\ lock[e] = NoOne
  /\ stalled' = [stalled EXCEPT ![e] = @ + 1]
  /\ job' = [job EXCEPT ![e] = IF stalled[e] <= MaxStalled
                                 THEN "waiting" ELSE "failed"]
  /\ UNCHANGED <<dbVars, lock, workVars, apiVars, stale, noteVars>>

\* Seeded bug: a job that has used up its redeliveries is left as it is.
RequeueNeverFails(e) ==
  /\ job[e] = "active"
  /\ lock[e] = NoOne
  /\ stalled[e] < MaxStalled
  /\ stalled' = [stalled EXCEPT ![e] = @ + 1]
  /\ job' = [job EXCEPT ![e] = "waiting"]
  /\ UNCHANGED <<dbVars, lock, workVars, apiVars, stale, noteVars>>

Requeue(e) ==
  /\ job[e] = "active"
  /\ lock[e] = NoOne
  /\ stalled' = [stalled EXCEPT ![e] = @ + 1]
  /\ job' = [job EXCEPT ![e] = IF stalled[e] < MaxStalled
                                 THEN "waiting" ELSE "failed"]
  /\ UNCHANGED <<dbVars, lock, workVars, apiVars, stale, noteVars>>

\* The lock is not renewed in time, because scripts block the event loop or
\* Redis is out of reach, while the handler goes on.
LoseLock(w) ==
  /\ pc[w] # "idle"
  /\ lock[exec[w]] = w
  /\ Fault
  /\ lock' = [lock EXCEPT ![exec[w]] = NoOne]
  /\ UNCHANGED <<dbVars, job, stalled, workVars, apiVars, stale, missed,
                 overlapped>>

Crash(w) ==
  /\ pc[w] # "idle"
  /\ Fault
  /\ lock' = [e \in Executions |-> IF lock[e] = w THEN NoOne ELSE lock[e]]
  /\ missed' = (missed \/ pc[w] = "invalidate")
  /\ Leave(w)
  /\ UNCHANGED <<dbVars, job, stalled, apiVars, stale, overlapped>>

-----------------------------------------------------------------------------
(* handleRun.                                                               *)

Goto(w, l) == pc' = [pc EXCEPT ![w] = l]

\* Seeded bug: only a missing execution is skipped.
ReadIgnoresCancel(w) ==
  /\ pc[w] = "read"
  /\ Goto(w, IF ~Exists(exec[w]) THEN "ack" ELSE "mark")
  /\ UNCHANGED <<dbVars, queueVars, exec, verdict, apiVars, stale, noteVars>>

\* Seeded bug: only PENDING executions are run, a redelivered one is skipped.
ReadOnlyPending(w) ==
  /\ pc[w] = "read"
  /\ Goto(w, IF ~Exists(exec[w]) \/ row[exec[w]] # "PENDING" THEN "ack" ELSE "mark")
  /\ UNCHANGED <<dbVars, queueVars, exec, verdict, apiVars, stale, noteVars>>

\* Lines 32-37: a missing or cancelled execution is not run.
Read(w) ==
  /\ pc[w] = "read"
  /\ Goto(w, IF ~Exists(exec[w]) \/ row[exec[w]] = "CANCELLED"
               THEN "ack" ELSE "mark")
  /\ UNCHANGED <<dbVars, queueVars, exec, verdict, apiVars, stale, noteVars>>

\* Lines 39-42: RUNNING whatever the row says by now; Prisma throws if it is
\* gone.
Mark(w) ==
  /\ pc[w] = "mark"
  /\ IF Exists(exec[w])
       THEN row' = [row EXCEPT ![exec[w]] = "RUNNING"] /\ Goto(w, "execute")
       ELSE UNCHANGED row /\ Goto(w, "reject")
  /\ UNCHANGED <<logs, queueVars, exec, verdict, apiVars, stale, noteVars>>

\* Lines 77-85: the executor answers, or throws on an invalid definition.
Execute(w) ==
  /\ pc[w] = "execute"
  /\ \E v \in Verdicts : verdict' = [verdict EXCEPT ![w] = v]
  /\ Goto(w, "commit")
  /\ UNCHANGED <<dbVars, queueVars, exec, apiVars, stale, noteVars>>

\* Seeded bug: the step logs are not written with the status.
CommitStatusOnly(w) ==
  LET e == exec[w] IN
  /\ pc[w] = "commit" /\ verdict[w] # "threw"
  /\ IF Exists(e)
       THEN /\ row' = [row EXCEPT ![e] = verdict[w]]
            /\ stale' = TRUE
            /\ Goto(w, "invalidate")
       ELSE UNCHANGED <<row, stale>> /\ Goto(w, "reject")
  /\ UNCHANGED <<logs, queueVars, exec, verdict, apiVars, noteVars>>

\* Lines 104-141: status and step logs in one transaction.
CommitResult(w) ==
  LET e == exec[w] IN
  /\ pc[w] = "commit" /\ verdict[w] # "threw"
  /\ IF Exists(e)
       THEN /\ row' = [row EXCEPT ![e] = verdict[w]]
            /\ logs' = [logs EXCEPT ![e] = @ + 1]
            /\ stale' = TRUE
            /\ Goto(w, "invalidate")
       ELSE UNCHANGED <<dbVars, stale>> /\ Goto(w, "reject")
  /\ UNCHANGED <<queueVars, exec, verdict, apiVars, noteVars>>

\* Seeded bug: the catch branch only logs the error.
CommitErrorSwallowed(w) ==
  /\ pc[w] = "commit" /\ verdict[w] = "threw"
  /\ Goto(w, "ack")
  /\ UNCHANGED <<dbVars, queueVars, exec, verdict, apiVars, stale, noteVars>>

\* Lines 85-94: the catch branch writes FAILED and no step logs.
CommitError(w) ==
  LET e == exec[w] IN
  /\ pc[w] = "commit" /\ verdict[w] = "threw"
  /\ IF Exists(e)
       THEN /\ row' = [row EXCEPT ![e] = "FAILED"]
            /\ stale' = TRUE
            /\ Goto(w, "invalidate")
       ELSE UNCHANGED <<row, stale>> /\ Goto(w, "reject")
  /\ UNCHANGED <<logs, queueVars, exec, verdict, apiVars, noteVars>>

\* Lines 95-101 and 143-149; the broadcast that follows is an output only.
Invalidate(w) ==
  /\ pc[w] = "invalidate"
  /\ stale' = FALSE
  /\ Goto(w, "ack")
  /\ UNCHANGED <<dbVars, queueVars, exec, verdict, apiVars, noteVars>>

\* A database or Redis call rejects: handleRun throws, nothing is written.
CallFails(w) ==
  /\ pc[w] \in {"read", "mark", "commit", "invalidate"}
  /\ Fault
  /\ Goto(w, "reject")
  /\ missed' = (missed \/ pc[w] = "invalidate")
  /\ UNCHANGED <<dbVars, queueVars, exec, verdict, apiVars, stale, overlapped>>

-----------------------------------------------------------------------------
(* cancel: check, then an update that does not check again.                 *)

CancelRead(c, e) ==
  /\ cancelPc[c] = "idle"
  /\ row[e] \in Open
  /\ cancelPc' = [cancelPc EXCEPT ![c] = "update"]
  /\ cancelOf' = [cancelOf EXCEPT ![c] = e]
  /\ UNCHANGED <<dbVars, queueVars, workVars, request, workflow, stale, noteVars>>

\* Seeded bug: cancel does not drop the cached metrics.
CancelUpdateKeepsCache(c) ==
  /\ cancelPc[c] = "update"
  /\ IF Exists(cancelOf[c])
       THEN /\ row' = [row EXCEPT ![cancelOf[c]] = "CANCELLED"]
            /\ stale' = TRUE
       ELSE UNCHANGED <<row, stale>>
  /\ cancelPc' = [cancelPc EXCEPT ![c] = "done"]
  /\ UNCHANGED <<logs, queueVars, workVars, request, cancelOf, workflow, noteVars>>

CancelUpdate(c) ==
  /\ cancelPc[c] = "update"
  /\ IF Exists(cancelOf[c])
       THEN /\ row' = [row EXCEPT ![cancelOf[c]] = "CANCELLED"]
            /\ stale' = TRUE
            /\ cancelPc' = [cancelPc EXCEPT ![c] = "invalidate"]
       ELSE /\ UNCHANGED <<row, stale>>
            /\ cancelPc' = [cancelPc EXCEPT ![c] = "done"]
  /\ UNCHANGED <<logs, queueVars, workVars, request, cancelOf, workflow, noteVars>>

CancelInvalidate(c) ==
  /\ cancelPc[c] = "invalidate"
  /\ stale' = FALSE
  /\ cancelPc' = [cancelPc EXCEPT ![c] = "done"]
  /\ UNCHANGED <<dbVars, queueVars, workVars, request, cancelOf, workflow, noteVars>>

CancelFails(c) ==
  /\ cancelPc[c] \in {"update", "invalidate"}
  /\ Fault
  /\ missed' = (missed \/ cancelPc[c] = "invalidate")
  /\ cancelPc' = [cancelPc EXCEPT ![c] = "done"]
  /\ UNCHANGED <<dbVars, queueVars, workVars, request, cancelOf, workflow,
                 stale, overlapped>>

-----------------------------------------------------------------------------
(* WorkflowService.remove: the delete cascades to executions and step logs. *)

Remove(f) ==
  /\ workflow[f] = "live"
  /\ workflow' = [workflow EXCEPT ![f] = "deleted"]
  /\ row' = [e \in Executions |->
               IF WorkflowOf[e] = f /\ Exists(e) THEN "gone" ELSE row[e]]
  /\ logs' = [e \in Executions |-> IF WorkflowOf[e] = f THEN 0 ELSE logs[e]]
  /\ stale' = TRUE
  /\ UNCHANGED <<queueVars, workVars, request, cancelPc, cancelOf, noteVars>>

RemoveInvalidate(f) ==
  /\ workflow[f] = "deleted"
  /\ workflow' = [workflow EXCEPT ![f] = "removed"]
  /\ stale' = FALSE
  /\ UNCHANGED <<dbVars, queueVars, workVars, request, cancelPc, cancelOf, noteVars>>

RemoveFails(f) ==
  /\ workflow[f] = "deleted"
  /\ Fault
  /\ workflow' = [workflow EXCEPT ![f] = "removed"]
  /\ missed' = TRUE
  /\ UNCHANGED <<dbVars, queueVars, workVars, request, cancelPc, cancelOf,
                 stale, overlapped>>

-----------------------------------------------------------------------------
HandlerStep(w) ==
  \/ Read(w) \/ Mark(w) \/ Execute(w) \/ CommitResult(w) \/ CommitError(w)
  \/ Invalidate(w) \/ Ack(w) \/ Reject(w)

CancelStep(c) == CancelUpdate(c) \/ CancelInvalidate(c)

Next ==
  \/ \E e \in Executions : Create(e) \/ Enqueue(e) \/ EnqueueFails(e) \/ Requeue(e)
  \/ \E w \in Workers, e \in Executions : Fetch(w, e)
  \/ \E w \in Workers : HandlerStep(w) \/ LoseLock(w) \/ Crash(w) \/ CallFails(w)
  \/ \E c \in Cancels, e \in Executions : CancelRead(c, e)
  \/ \E c \in Cancels : CancelStep(c) \/ CancelFails(c)
  \/ \E f \in Workflows : Remove(f) \/ RemoveInvalidate(f) \/ RemoveFails(f)

\* A process that is up goes on with what it has started, a free worker takes
\* a waiting job and Bull looks for stalled jobs.  No request has to arrive
\* and no fault has to happen.
Fairness ==
  /\ \A e \in Executions : WF_vars(Enqueue(e)) /\ WF_vars(Requeue(e))
  /\ \A e \in Executions : WF_vars(\E w \in Workers : Fetch(w, e))
  /\ \A w \in Workers : WF_vars(HandlerStep(w))

Spec == Init /\ [][Next]_vars
FairSpec == Spec /\ Fairness

-----------------------------------------------------------------------------
TypeOK ==
  /\ row \in [Executions -> RowStates]
  /\ logs \in [Executions -> Nat]
  /\ request \in [Executions -> {"idle", "created", "enqueued", "broken"}]
  /\ job \in [Executions -> JobStates]
  /\ stalled \in [Executions -> 0 .. MaxStalled + 1]
  /\ lock \in [Executions -> Workers \cup {NoOne}]
  /\ pc \in [Workers -> WorkerPcs]
  /\ exec \in [Workers -> Executions \cup {NoOne}]
  /\ \A w \in Workers : pc[w] # "idle" => exec[w] \in Executions
  /\ verdict \in [Workers -> Verdicts \cup {"none"}]
  /\ cancelPc \in [Cancels -> {"idle", "update", "invalidate", "done"}]
  /\ cancelOf \in [Cancels -> Executions \cup {NoOne}]
  /\ \A c \in Cancels : cancelPc[c] # "idle" => cancelOf[c] \in Executions
  /\ workflow \in [Workflows -> {"live", "deleted", "removed"}]
  /\ stale \in BOOLEAN /\ missed \in BOOLEAN
  /\ overlapped \subseteq Executions
  /\ faults \in 0 .. MaxFaults

\* An execution whose status came from a finished run has its step logs: the
\* status and the logs are written by one transaction (processor lines
\* 111-141), and no later writer can separate them.
VerdictHasLogs ==
  \A e \in Executions : row[e] \in {"SUCCESS", "TIMEOUT"} => logs[e] > 0

\* However often workers crash, lose their lock or overtake each other, an
\* execution gets at most one batch of step logs per delivery of its job, and
\* Bull delivers a job at most MaxStalled times more than once.
LogsBounded == \A e \in Executions : logs[e] <= MaxStalled + 1

\* A job that Bull reports as completed leaves a settled execution: whatever
\* crashes and redeliveries came before, a handler does not return while its
\* row says PENDING or RUNNING.  Only two handlers that ran the execution at
\* the same time can break this.
CompletedIsSettled ==
  \A e \in Executions :
    job[e] = "completed" /\ e \notin overlapped => row[e] \notin Open

\* Cached metrics that miss a terminal status are about to be dropped, unless
\* a fault came between the write and the del (processor lines 95 and 143,
\* cancel line 116, remove line 182).
StaleIsTransient ==
  stale => \/ missed
           \/ \E w \in Workers : pc[w] = "invalidate"
           \/ \E c \in Cancels : cancelPc[c] = "invalidate"
           \/ \E f \in Workflows : workflow[f] = "deleted"

\* A cancelled (or deleted) execution that no handler has got past the check
\* of line 37 stays so for ever, redelivered jobs and late answers included.
AtRest(e) ==
  /\ row[e] \in {"CANCELLED", "gone"}
  /\ \A w \in Workers : ~Running(w, e)
CancelSticks == [][\A e \in Executions : AtRest(e) => AtRest(e)']_vars

\* Every enqueued job ends, completed or failed, whatever faults happen.
JobsEnd ==
  \A e \in Executions : job[e] = "waiting" ~> job[e] \in {"completed", "failed"}

\* Without faults every execution that was created settles, or is deleted.
FaultFreeSettles ==
  [](faults = 0) =>
    \A e \in Executions : row[e] = "PENDING" ~> row[e] \in Settled \cup {"gone"}

-----------------------------------------------------------------------------
(* What a user sees of all this, as ExecutionLife states it.                *)

\* What a worker has taken up, and who of them has begun.
TakenUp == [w \in Workers |->
              IF pc[w] \in {"mark", "execute", "commit"} THEN exec[w] ELSE NoOne]
Begun   == {w \in Workers : pc[w] \in {"execute", "commit"}}

EL == INSTANCE ExecutionLife WITH
  Runners <- Workers,
  Limit   <- MaxStalled + 1,
  status  <- row,
  run     <- TakenUp,
  started <- Begun

\* Queue, redeliveries, lost locks, crashes and cancel requests taken together
\* show as the life of an execution: handleRun is its line 37 (take up), 39
\* (begin) and 85-141 (end or fail), in one step each.
ImplementsExecutionLife == EL!Spec

-----------------------------------------------------------------------------
(* What the documentation says of the pipeline, and the code does not do.   *)

\* README.md:151, POST /executions/:id/cancel cancels PENDING or RUNNING
\* executions: once CANCELLED, an execution is not another verdict later.
CancelIsFinal ==
  [][\A e \in Executions :
       row[e] = "CANCELLED" => row'[e] \in {"CANCELLED", "gone"}]_vars

\* README.md:386, "a failed Bull job is just marked FAILED in the DB".
FailedJobIsMarked ==
  \A e \in Executions : job[e] = "failed" => row[e] \in {"FAILED", "gone"}

=============================================================================
