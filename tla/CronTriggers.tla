---------------------------- MODULE CronTriggers ----------------------------
(***************************************************************************)
(* CRON triggers (trigger.service.ts): their rows in the database, and the *)
(* node-cron tasks and the map of them that each API process keeps in      *)
(* memory and fills from the rows when it boots.                           *)
(*                                                                         *)
(* A request writes a row and changes the tasks of the process that        *)
(* handles it; the tasks of other processes stay as they are.              *)
(***************************************************************************)
EXTENDS Naturals

CONSTANTS
  Processes,   \* API processes
  Triggers,    \* CRON trigger ids with a valid expression
  Requests,    \* HTTP requests for one of them
  NoOne,       \* no process, or no trigger
  MaxFaults    \* bound on failed calls and restarts

ASSUME CronAssumption ==
  /\ NoOne \notin Processes \cup Triggers
  /\ MaxFaults \in Nat

VARIABLES
  row,        \* isActive of each row: "active", "inactive"; "none", "deleted"
  workflow,   \* whether the workflow of the triggers still exists
  tasks,      \* in each process, how many tasks of the trigger run
  mapped,     \* the triggers with an entry in its cronTasks, the latest task
  phase,      \* of each process: "down", "boot", "up"
  found,      \* the active triggers that its onModuleInit has read
  pc,         \* where each request is
  at,         \* the process that handles it
  of,         \* its trigger
  wasActive,  \* isActive of the trigger as it read it
  upset,      \* history: triggers that a process may have lost track of
  faults

memory   == <<tasks, mapped, phase, found>>
requests == <<pc, at, of, wasActive>>
vars == <<row, workflow, memory, requests, upset, faults>>

RequestPcs  == {"idle", "schedule", "toggle", "owner", "stop", "unschedule",
                "delete", "done"}
InFlight(r) == pc[r] \notin {"idle", "done"}
Exists(t)   == row[t] \in {"active", "inactive"}

Init ==
  /\ row = [t \in Triggers |-> "none"]
  /\ workflow = TRUE
  /\ tasks = [p \in Processes |-> [t \in Triggers |-> 0]]
  /\ mapped = [p \in Processes |-> {}]
  /\ phase = [p \in Processes |-> "down"]
  /\ found = [p \in Processes |-> {}]
  /\ pc = [r \in Requests |-> "idle"]
  /\ at = [r \in Requests |-> NoOne]
  /\ of = [r \in Requests |-> NoOne]
  /\ wasActive = [r \in Requests |-> FALSE]
  /\ upset = [p \in Processes |-> {}]
  /\ faults = 0

Fault == faults < MaxFaults /\ faults' = faults + 1

Goto(r, l) == pc' = [pc EXCEPT ![r] = l]

\* Process p starts to handle r.  The other processes do not hear of it, and
\* p itself may be handling another request for the same trigger.
Begin(r, p, t, l) ==
  /\ pc[r] = "idle" /\ phase[p] = "up"
  /\ at' = [at EXCEPT ![r] = p]
  /\ of' = [of EXCEPT ![r] = t]
  /\ Goto(r, l)
  /\ upset' = [q \in Processes |->
                 IF q # p \/ \E o \in Requests : InFlight(o) /\ of[o] = t
                   THEN upset[q] \cup {t} ELSE upset[q]]

-----------------------------------------------------------------------------
(* The tasks of a process.                                                  *)

\* scheduleCronTask: a task that the map already has runs on without an entry.
Schedule(p, t) ==
  /\ tasks' = [tasks EXCEPT ![p][t] = @ + 1]
  /\ mapped' = [mapped EXCEPT ![p] = @ \cup {t}]

Stop(p, t) ==
  /\ tasks' = [tasks EXCEPT ![p][t] = IF t \in mapped[p] THEN @ - 1 ELSE @]
  /\ mapped' = [mapped EXCEPT ![p] = @ \ {t}]

\* onModuleInit reads the active triggers; requests that other processes are
\* handling may change them before it schedules.
BootRead(p) ==
  /\ phase[p] = "down"
  /\ phase' = [phase EXCEPT ![p] = "boot"]
  /\ found' = [found EXCEPT ![p] = {t \in Triggers : row[t] = "active"}]
  /\ upset' = [upset EXCEPT ![p] = {of[r] : r \in {q \in Requests : InFlight(q)}}]
  /\ UNCHANGED <<row, workflow, tasks, mapped, requests, faults>>

BootSchedule(p) ==
  /\ phase[p] = "boot"
  /\ phase' = [phase EXCEPT ![p] = "up"]
  /\ tasks' = [tasks EXCEPT ![p] = [t \in Triggers |-> IF t \in found[p] THEN 1 ELSE 0]]
  /\ mapped' = [mapped EXCEPT ![p] = found[p]]
  /\ found' = [found EXCEPT ![p] = {}]
  /\ UNCHANGED <<row, workflow, requests, upset, faults>>

\* A crash or a deployment: tasks, map and requests of the process are lost.
Restart(p) ==
  /\ phase[p] # "down"
  /\ Fault
  /\ phase' = [phase EXCEPT ![p] = "down"]
  /\ tasks' = [tasks EXCEPT ![p] = [t \in Triggers |-> 0]]
  /\ mapped' = [mapped EXCEPT ![p] = {}]
  /\ found' = [found EXCEPT ![p] = {}]
  /\ pc' = [r \in Requests |-> IF InFlight(r) /\ at[r] = p THEN "done" ELSE pc[r]]
  /\ UNCHANGED <<row, workflow, at, of, wasActive, upset>>

-----------------------------------------------------------------------------
(* createTrigger.                                                           *)

Create(r, p, t) ==
  /\ row[t] = "none" /\ workflow
  /\ Begin(r, p, t, "schedule")
  /\ row' = [row EXCEPT ![t] = "active"]
  /\ UNCHANGED <<workflow, memory, wasActive, faults>>

\* What follows the last await of createTrigger and of toggleTrigger.
ScheduleTask(r) ==
  /\ pc[r] = "schedule"
  /\ Schedule(at[r], of[r])
  /\ Goto(r, "done")
  /\ UNCHANGED <<row, workflow, phase, found, at, of, wasActive, upset, faults>>

-----------------------------------------------------------------------------
(* toggleTrigger: the row is read, written, and the task follows.           *)

ToggleRead(r, p, t) ==
  /\ Exists(t)
  /\ Begin(r, p, t, "toggle")
  /\ wasActive' = [wasActive EXCEPT ![r] = (row[t] = "active")]
  /\ UNCHANGED <<row, workflow, memory, faults>>

ToggleWrite(r) ==
  /\ pc[r] = "toggle"
  /\ IF Exists(of[r])
       THEN /\ row' = [row EXCEPT ![of[r]] = IF wasActive[r] THEN "inactive" ELSE "active"]
            /\ Goto(r, IF wasActive[r] THEN "stop" ELSE "owner")
       ELSE UNCHANGED row /\ Goto(r, "done")
  /\ UNCHANGED <<workflow, memory, at, of, wasActive, upset, faults>>

\* findUniqueOrThrow of the workflow, for its tenant.
ToggleOwner(r) ==
  /\ pc[r] = "owner"
  /\ Goto(r, IF workflow THEN "schedule" ELSE "done")
  /\ UNCHANGED <<row, workflow, memory, at, of, wasActive, upset, faults>>

\* Seeded bug: the entry is deleted, its task is not stopped.
ToggleForgets(r) ==
  /\ pc[r] = "stop"
  /\ mapped' = [mapped EXCEPT ![at[r]] = @ \ {of[r]}]
  /\ Goto(r, "done")
  /\ UNCHANGED <<row, workflow, tasks, phase, found, at, of, wasActive, upset, faults>>

ToggleStop(r) ==
  /\ pc[r] = "stop"
  /\ Stop(at[r], of[r])
  /\ Goto(r, "done")
  /\ UNCHANGED <<row, workflow, phase, found, at, of, wasActive, upset, faults>>

-----------------------------------------------------------------------------
(* deleteTrigger: the task is stopped before the row is deleted.            *)

DeleteRead(r, p, t) ==
  /\ Exists(t)
  /\ Begin(r, p, t, "unschedule")
  /\ UNCHANGED <<row, workflow, memory, wasActive, faults>>

DeleteStop(r) ==
  /\ pc[r] = "unschedule"
  /\ Stop(at[r], of[r])
  /\ Goto(r, "delete")
  /\ UNCHANGED <<row, workflow, phase, found, at, of, wasActive, upset, faults>>

DeleteRow(r) ==
  /\ pc[r] = "delete"
  /\ row' = [row EXCEPT ![of[r]] = "deleted"]
  /\ Goto(r, "done")
  /\ UNCHANGED <<workflow, memory, at, of, wasActive, upset, faults>>

\* A database call rejects, or its reply is lost when it has written the row
\* (at "stop" and "schedule"): the task and the row come apart.
CallFails(r) ==
  /\ pc[r] \in {"toggle", "owner", "stop", "schedule", "delete"}
  /\ Fault
  /\ Goto(r, "done")
  /\ upset' = IF pc[r] = "toggle" THEN upset
              ELSE [upset EXCEPT ![at[r]] = @ \cup {of[r]}]
  /\ UNCHANGED <<row, workflow, memory, at, of, wasActive>>

\* WorkflowService.remove: the rows go with the workflow, the tasks stay.
RemoveWorkflow ==
  /\ workflow
  /\ workflow' = FALSE
  /\ row' = [t \in Triggers |-> IF Exists(t) THEN "deleted" ELSE row[t]]
  /\ upset' = [p \in Processes |-> upset[p] \cup {t \in Triggers : Exists(t)}]
  /\ UNCHANGED <<memory, requests, faults>>

-----------------------------------------------------------------------------
Next ==
  \/ \E p \in Processes : BootRead(p) \/ BootSchedule(p) \/ Restart(p)
  \/ \E r \in Requests, p \in Processes, t \in Triggers :
       Create(r, p, t) \/ ToggleRead(r, p, t) \/ DeleteRead(r, p, t)
  \/ \E r \in Requests :
       \/ ScheduleTask(r) \/ ToggleWrite(r) \/ ToggleOwner(r) \/ ToggleStop(r)
       \/ DeleteStop(r) \/ DeleteRow(r) \/ CallFails(r)
  \/ RemoveWorkflow

Spec == Init /\ [][Next]_vars

-----------------------------------------------------------------------------
TypeOK ==
  /\ row \in [Triggers -> {"none", "active", "inactive", "deleted"}]
  /\ workflow \in BOOLEAN
  /\ tasks \in [Processes -> [Triggers -> Nat]]
  /\ mapped \in [Processes -> SUBSET Triggers]
  /\ phase \in [Processes -> {"down", "boot", "up"}]
  /\ found \in [Processes -> SUBSET Triggers]
  /\ pc \in [Requests -> RequestPcs]
  /\ at \in [Requests -> Processes \cup {NoOne}]
  /\ of \in [Requests -> Triggers \cup {NoOne}]
  /\ wasActive \in [Requests -> BOOLEAN]
  /\ upset \in [Processes -> SUBSET (Triggers \cup {NoOne})]
  /\ faults \in 0 .. MaxFaults

Settled(p, t) ==
  phase[p] = "up" /\ t \notin upset[p] /\ \A r \in Requests : InFlight(r) => of[r] # t

\* A process runs one task of each active trigger and none of the others, and
\* has it in its map, through any sequence of creations, toggles, deletions and
\* restarts: as long as the requests for a trigger come one after the other, to
\* this process, and none fails half-way.  A restart makes up for all that.
TasksMatchRows ==
  \A p \in Processes, t \in Triggers :
    Settled(p, t) =>
      /\ tasks[p][t] = (IF row[t] = "active" THEN 1 ELSE 0)
      /\ t \in mapped[p] <=> row[t] = "active"

\* However requests overlap and fail, a map entry stands for a running task, so
\* that a task which was started last can always be stopped.
EntriesAreTasks ==
  \A p \in Processes, t \in Triggers : t \in mapped[p] => tasks[p][t] > 0

=============================================================================
