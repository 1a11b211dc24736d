--------------------------- MODULE ExecutionEvents ---------------------------
(***************************************************************************)
(* What the rooms of the execution gateway are told while an execution     *)
(* goes through ExecutionPipeline (execution.gateway.ts and its callers in *)
(* execution.processor.ts): the room of the execution hears of the end of  *)
(* a run from the executor, before anything is written; the room of the    *)
(* tenant hears the status after the metrics have been dropped.  Who is in *)
(* a room, and the events of single steps, are left out.                   *)
(***************************************************************************)
EXTENDS ExecutionPipeline

VARIABLES
  ended,  \* last execution.completed or execution.failed of each execution
  told    \* status of its last tenant-event

eventVars == <<ended, told>>
allVars   == <<vars, eventVars>>

EventInit ==
  /\ Init
  /\ ended = [e \in Executions |-> "none"]
  /\ told = [e \in Executions |-> "none"]

\* Seeded bug: only failed runs are announced as failed.
ExecuteAnnouncesTimeoutAsCompleted(w) ==
  /\ Execute(w)
  /\ ended' = CASE verdict'[w] = "threw"  -> ended
                [] verdict'[w] = "FAILED" -> [ended EXCEPT ![exec[w]] = "failed"]
                [] OTHER                  -> [ended EXCEPT ![exec[w]] = "completed"]
  /\ UNCHANGED told

\* The listener of execution.completed, on the way to the answer.  An invalid
\* definition makes execute throw before it says anything.
ExecuteEvent(w) ==
  /\ Execute(w)
  /\ ended' = CASE verdict'[w] = "threw"   -> ended
                [] verdict'[w] = "SUCCESS" -> [ended EXCEPT ![exec[w]] = "completed"]
                [] OTHER                   -> [ended EXCEPT ![exec[w]] = "failed"]
  /\ UNCHANGED told

\* broadcastTenant, once the del has returned.
InvalidateEvent(w) ==
  /\ Invalidate(w)
  /\ told' = [told EXCEPT ![exec[w]] = IF verdict[w] = "threw" THEN "FAILED" ELSE verdict[w]]
  /\ UNCHANGED ended

SilentHandlerStep(w) ==
  \/ Read(w) \/ Mark(w) \/ CommitResult(w) \/ CommitError(w) \/ Ack(w) \/ Reject(w)

EventHandlerStep(w) ==
  \/ ExecuteEvent(w) \/ InvalidateEvent(w)
  \/ SilentHandlerStep(w) /\ UNCHANGED eventVars

SilentNext ==
  \/ \E e \in Executions : Create(e) \/ Enqueue(e) \/ EnqueueFails(e) \/ Requeue(e)
  \/ \E w \in Workers, e \in Executions : Fetch(w, e)
  \/ \E w \in Workers : LoseLock(w) \/ Crash(w) \/ CallFails(w)
  \/ \E c \in Cancels, e \in Executions : CancelRead(c, e)
  \/ \E c \in Cancels : CancelStep(c) \/ CancelFails(c)
  \/ \E f \in Workflows : Remove(f) \/ RemoveInvalidate(f) \/ RemoveFails(f)

EventNext ==
  \/ \E w \in Workers : EventHandlerStep(w)
  \/ SilentNext /\ UNCHANGED eventVars

EventFairness ==
  /\ \A e \in Executions : /\ WF_allVars(Enqueue(e) /\ UNCHANGED eventVars)
                           /\ WF_allVars(Requeue(e) /\ UNCHANGED eventVars)
  /\ \A e \in Executions : WF_allVars((\E w \in Workers : Fetch(w, e)) /\ UNCHANGED eventVars)
  /\ \A w \in Workers : WF_allVars(EventHandlerStep(w))

EventSpec == EventInit /\ [][EventNext]_allVars
FairEventSpec == EventSpec /\ EventFairness

-----------------------------------------------------------------------------
\* A completed job has told the tenant the status that the row has now, however
\* often it was redelivered and whatever runs before it had said.  Cancelled and
\* deleted executions are not announced, and of two overlapping handlers the
\* last to write need not be the last to tell.
CompletedIsTold ==
  \A e \in Executions :
    job[e] = "completed" /\ e \notin overlapped =>
      row[e] \in {told[e], "CANCELLED", "gone"}

\* The end of a run is announced to its own room before it is written: what was
\* announced last is in the row or on its way there, or the execution was
\* cancelled or deleted, unless a call or a process failed in between.
AnnouncedIsWritten ==
  faults = 0 =>
    \A e \in Executions :
      ended[e] # "none" =>
        \/ (row[e] = "SUCCESS") = (ended[e] = "completed") /\ row[e] \in Settled
        \/ row[e] \in {"CANCELLED", "gone"}
        \/ \E w \in Workers : exec[w] = e /\ pc[w] \in {"commit", "reject"}

\* A status that a finished run has written has its step logs, and was announced
\* as what it is: no crash, redelivery, cancel or failed call in between takes
\* one from the other.  Only the announcement may be that of another handler.
VerdictIsWhole ==
  /\ VerdictHasLogs
  /\ \A e \in Executions :
       e \notin overlapped =>
         /\ row[e] = "SUCCESS" => ended[e] = "completed"
         /\ row[e] = "TIMEOUT" => ended[e] = "failed"

=============================================================================
