--------------------------- MODULE WorkflowVersions ---------------------------
(***************************************************************************)
(* The versions of one workflow: WorkflowService (workflow.service.ts)     *)
(* publishes, rolls back and removes them, ExecutionService.triggerManual  *)
(* (execution.service.ts) starts executions of the current one.            *)
(*                                                                         *)
(* Each request reads the rows first and writes them later, in a           *)
(* transaction or by a single statement, so other requests may write in    *)
(* between.  Definitions that validateDag rejects change nothing and are   *)
(* left out, and so are requests that do not find the workflow.            *)
(***************************************************************************)
EXTENDS Naturals

CONSTANTS
  Requests,   \* HTTP requests, each for one operation
  Dags,       \* valid definitions
  Keep,       \* the dto of an update that leaves the dag as it is
  Numbers     \* versions that rollbacks ask for

ASSUME VersionsAssumption ==
  /\ Keep \notin Dags
  /\ Numbers \subseteq Nat \ {0}

VARIABLES
  workflow,   \* "none", "live", "deleted"
  current,    \* currentVersion
  versions,   \* the dag of each version that has a row
  runs,       \* executions: the request that made it and the version it is of
  pc,         \* where each request is
  seen,       \* the currentVersion it read, or the version it asks for
  save,       \* the dag an update is going to store
  renames,    \* updates whose dto has no dag
  disturbed   \* history: requests during which another one has written

rowVars     == <<workflow, current, versions, runs>>
requestVars == <<pc, seen, save, renames>>
vars == <<rowVars, requestVars, disturbed>>

RequestPcs == {"idle", "update", "find", "rollback", "version", "insert",
               "remove", "updated", "done", "missing", "conflict"}
Ended      == {"idle", "updated", "done", "missing", "conflict"}

NoVersions == [v \in {} |-> Keep]
\* versions: {orderBy: {version: 'desc'}, take: 1}
Newest     == CHOOSE v \in DOMAIN versions : \A u \in DOMAIN versions : u <= v

Init ==
  /\ workflow = "none"
  /\ current = 0
  /\ versions = NoVersions
  /\ runs = {}
  /\ pc = [r \in Requests |-> "idle"]
  /\ seen = [r \in Requests |-> 0]
  /\ save = [r \in Requests |-> Keep]
  /\ renames = {}
  /\ disturbed = {}

Goto(r, l) == pc' = [pc EXCEPT ![r] = l]

\* r writes: the requests that have read and not yet written notice later.
Disturb(r) == disturbed' = disturbed \cup {q \in Requests \ {r} : pc[q] \notin Ended}

\* create: definition and version 1 in one transaction.
Create(r, d) ==
  /\ workflow = "none" /\ pc[r] = "idle"
  /\ workflow' = "live"
  /\ current' = 1
  /\ versions' = [v \in {1} |-> d]
  /\ Goto(r, "done")
  /\ UNCHANGED <<runs, seen, save, renames, disturbed>>

-----------------------------------------------------------------------------
(* update.                                                                  *)

\* findOne, outside the transaction.
UpdateRead(r, d) ==
  /\ workflow = "live" /\ pc[r] = "idle"
  /\ seen' = [seen EXCEPT ![r] = current]
  /\ save' = [save EXCEPT ![r] = IF d = Keep THEN versions[Newest] ELSE d]
  /\ renames' = IF d = Keep THEN renames \cup {r} ELSE renames
  /\ Goto(r, "update")
  /\ UNCHANGED <<rowVars, disturbed>>

Publish(r, number) ==
  /\ versions' = [v \in DOMAIN versions \cup {number} |->
                    IF v = number THEN save[r] ELSE versions[v]]
  /\ current' = number
  /\ Goto(r, "updated")
  /\ Disturb(r)

\* Seeded bug: upsert instead of create.
UpdateUpserts(r) ==
  /\ pc[r] = "update"
  /\ IF workflow # "live"
       THEN Goto(r, "missing") /\ UNCHANGED <<current, versions, disturbed>>
       ELSE Publish(r, seen[r] + 1)
  /\ UNCHANGED <<workflow, runs, seen, save, renames>>

\* Seeded bug: the number after the newest, so that no update is refused.
UpdateTakesNextNumber(r) ==
  /\ pc[r] = "update"
  /\ IF workflow # "live"
       THEN Goto(r, "missing") /\ UNCHANGED <<current, versions, disturbed>>
       ELSE Publish(r, Newest + 1)
  /\ UNCHANGED <<workflow, runs, seen, save, renames>>

\* The transaction: the row of version seen + 1 must not exist yet, the row of
\* the workflow must still do.
UpdateCommit(r) ==
  /\ pc[r] = "update"
  /\ IF workflow # "live"
       THEN Goto(r, "missing") /\ UNCHANGED <<current, versions, disturbed>>
     ELSE IF seen[r] + 1 \in DOMAIN versions
       THEN Goto(r, "conflict") /\ UNCHANGED <<current, versions, disturbed>>
     ELSE Publish(r, seen[r] + 1)
  /\ UNCHANGED <<workflow, runs, seen, save, renames>>

-----------------------------------------------------------------------------
(* rollback.                                                                *)

RollbackRead(r, v) ==
  /\ workflow = "live" /\ pc[r] = "idle"
  /\ seen' = [seen EXCEPT ![r] = v]
  /\ Goto(r, "find")
  /\ UNCHANGED <<rowVars, save, renames, disturbed>>

\* Seeded bug: the target is not looked up.
RollbackFindsAll(r) ==
  /\ pc[r] = "find"
  /\ Goto(r, "rollback")
  /\ UNCHANGED <<rowVars, seen, save, renames, disturbed>>

RollbackFind(r) ==
  /\ pc[r] = "find"
  /\ Goto(r, IF seen[r] \in DOMAIN versions THEN "rollback" ELSE "missing")
  /\ UNCHANGED <<rowVars, seen, save, renames, disturbed>>

RollbackWrite(r) ==
  /\ pc[r] = "rollback"
  /\ IF workflow # "live"
       THEN Goto(r, "missing") /\ UNCHANGED <<current, disturbed>>
       ELSE Goto(r, "done") /\ current' = seen[r] /\ Disturb(r)
  /\ UNCHANGED <<workflow, versions, runs, seen, save, renames>>

-----------------------------------------------------------------------------
(* triggerManual: workflow, version, insert.                                *)

TriggerRead(r) ==
  /\ workflow = "live" /\ pc[r] = "idle"
  /\ seen' = [seen EXCEPT ![r] = current]
  /\ Goto(r, "version")
  /\ UNCHANGED <<rowVars, save, renames, disturbed>>

TriggerFind(r) ==
  /\ pc[r] = "version"
  /\ Goto(r, IF seen[r] \in DOMAIN versions THEN "insert" ELSE "missing")
  /\ UNCHANGED <<rowVars, seen, save, renames, disturbed>>

\* The foreign keys refuse an execution of a workflow that has gone.
TriggerInsert(r) ==
  /\ pc[r] = "insert"
  /\ IF workflow # "live"
       THEN Goto(r, "missing") /\ UNCHANGED runs
       ELSE Goto(r, "done") /\ runs' = runs \cup {<<r, seen[r]>>}
  /\ UNCHANGED <<workflow, current, versions, seen, save, renames, disturbed>>

-----------------------------------------------------------------------------
(* remove: versions and executions go with the workflow.                    *)

RemoveRead(r) ==
  /\ workflow = "live" /\ pc[r] = "idle"
  /\ Goto(r, "remove")
  /\ UNCHANGED <<rowVars, seen, save, renames, disturbed>>

RemoveCommit(r) ==
  /\ pc[r] = "remove"
  /\ IF workflow # "live"
       THEN Goto(r, "missing") /\ UNCHANGED <<workflow, versions, runs, disturbed>>
       ELSE /\ workflow' = "deleted" /\ versions' = NoVersions /\ runs' = {}
            /\ Goto(r, "done") /\ Disturb(r)
  /\ UNCHANGED <<current, seen, save, renames>>

-----------------------------------------------------------------------------
Next == \E r \in Requests :
  \/ \E d \in Dags : Create(r, d)
  \/ \E d \in Dags \cup {Keep} : UpdateRead(r, d)
  \/ \E v \in Numbers : RollbackRead(r, v)
  \/ UpdateCommit(r) \/ RollbackFind(r) \/ RollbackWrite(r)
  \/ TriggerRead(r) \/ TriggerFind(r) \/ TriggerInsert(r)
  \/ RemoveRead(r) \/ RemoveCommit(r)

Spec == Init /\ [][Next]_vars

-----------------------------------------------------------------------------
(* What the rows promise, as VersionHistory states it.                      *)

VH == INSTANCE VersionHistory WITH
        history <- versions,
        current <- IF workflow = "live" THEN current ELSE 0

\* Requests that read, wait and write in several statements act on the rows as
\* if each did its work at once: no version is changed, dropped or numbered
\* twice, a rollback finds its target, an execution has the definition it was
\* made for (workflow.service.ts:25-199, execution.service.ts:28-52).
ImplementsVersionHistory == VH!Spec

-----------------------------------------------------------------------------
TypeOK ==
  /\ workflow \in {"none", "live", "deleted"}
  /\ current \in Nat
  /\ DOMAIN versions \subseteq Nat
  /\ versions \in [DOMAIN versions -> Dags]
  /\ runs \subseteq Requests \X Nat
  /\ pc \in [Requests -> RequestPcs]
  /\ seen \in [Requests -> Nat]
  /\ save \in [Requests -> Dags \cup {Keep}]
  /\ \A r \in Requests : pc[r] = "update" => save[r] \in Dags
  /\ renames \subseteq Requests /\ disturbed \subseteq Requests

\* Whatever requests overlap, a live workflow can be triggered: its current
\* version and the version of each of its executions have a row, and the
\* versions are numbered without gaps.
CurrentExists ==
  /\ workflow = "live" => current \in DOMAIN versions
  /\ \A x \in runs : x[2] \in DOMAIN versions
  /\ \A v \in DOMAIN versions : 1 .. v \subseteq DOMAIN versions

\* No update is lost: each one that was answered with success has a version
\* with its dag, which no other update shares or overwrites.
UpdatesHaveOwnVersion ==
  \A r \in Requests :
    pc[r] = "updated" =>
      /\ workflow = "live" => /\ seen[r] + 1 \in DOMAIN versions
                              /\ versions[seen[r] + 1] = save[r]
      /\ \A q \in Requests \ {r} : pc[q] = "updated" => seen[q] # seen[r]

\* An update without a dag stores that of the newest version, not of the
\* current one (workflow.service.ts:121).  That never changes what the workflow
\* runs, after rollbacks too, as long as the current version is still the one
\* that it read.
RenameKeepsDag ==
  [][\A r \in renames :
       pc[r] = "update" /\ pc'[r] = "updated" /\ current = seen[r] =>
         versions'[current'] = versions[current]]_vars

-----------------------------------------------------------------------------
\* README.md:139, "PATCH /workflows/:id  Update -> creates new version": an
\* update fails only when another request has written while it ran.
UpdatesCreateVersions ==
  \A r \in Requests : pc[r] = "conflict" => r \in disturbed

=============================================================================
