------------------------- MODULE WorkflowVersionsProofs -------------------------
(***************************************************************************)
(* Proofs about WorkflowVersions, for every set of requests and dags: as   *)
(* many updates, rollbacks, triggers and removals as one likes, overlapping *)
(* in any way.                                                             *)
(***************************************************************************)
EXTENDS WorkflowVersions, Sequences, TLAPS

-----------------------------------------------------------------------------
(* The inductive invariant.                                                 *)

\* Versions are numbered 1, 2, ... without gaps.
Dense == \E n \in Nat : DOMAIN versions = 1 .. n

\* What the rows of a live workflow and the requests that have read them refer
\* to exists; of another workflow no row is left.
RowsInv ==
  /\ Dense
  /\ workflow = "live" =>
       /\ current \in DOMAIN versions
       /\ \A x \in runs : x[2] \in DOMAIN versions
       /\ \A r \in Requests :
            pc[r] \in {"update", "rollback", "insert"} => seen[r] \in DOMAIN versions
  /\ workflow # "live" => runs = {} /\ DOMAIN versions = {}
  /\ workflow = "none" => \A r \in Requests : pc[r] = "idle"

\* An update without a dag stores that of a version at or after the one it
\* read as the current one.
RenameInv ==
  \A r \in renames :
    /\ pc[r] # "idle"
    /\ workflow = "live" /\ pc[r] = "update" =>
         \E m \in DOMAIN versions : seen[r] <= m /\ versions[m] = save[r]

LEMMA NewestIsLast ==
  ASSUME NEW n \in Nat, n >= 1, DOMAIN versions = 1 .. n
  PROVE  Newest = n
<1>1. n \in DOMAIN versions /\ \A u \in DOMAIN versions : u <= n
  OBVIOUS
<1>2. Newest \in DOMAIN versions /\ \A u \in DOMAIN versions : u <= Newest
  BY <1>1 DEF Newest
<1>3. Newest \in 1 .. n /\ n <= Newest
  BY <1>1, <1>2
<1> QED
  BY <1>3

\* A successful update of a live workflow appends a version to those there are.
LEMMA PublishAppends ==
  ASSUME TypeOK, RowsInv, NEW r \in Requests, pc[r] = "update", workflow = "live",
         seen[r] + 1 \notin DOMAIN versions, Publish(r, seen[r] + 1),
         NEW n \in Nat, DOMAIN versions = 1 .. n
  PROVE  /\ seen[r] = n
         /\ DOMAIN versions' = 1 .. n + 1
         /\ \A v \in 1 .. n : versions'[v] = versions[v]
         /\ versions'[n + 1] = save[r]
         /\ current' = n + 1
<1>1. seen[r] \in 1 .. n /\ seen[r] \in Nat /\ seen[r] + 1 \notin 1 .. n
  BY DEF RowsInv, TypeOK
<1>2. seen[r] = n
  BY <1>1
<1>3. versions' = [v \in 1 .. n \cup {n + 1} |-> IF v = n + 1 THEN save[r] ELSE versions[v]]
  BY <1>2 DEF Publish
<1>4. 1 .. n \cup {n + 1} = 1 .. n + 1
  OBVIOUS
<1> QED
  BY <1>2, <1>3, <1>4 DEF Publish

-----------------------------------------------------------------------------
(* Type correctness.                                                        *)

LEMMA TypeInit == Init => TypeOK
  BY VersionsAssumption DEF VersionsAssumption, Init, TypeOK, RequestPcs, NoVersions

LEMMA TypeStep == TypeOK /\ RowsInv /\ [Next]_vars => TypeOK'
<1> SUFFICES ASSUME TypeOK, RowsInv, [Next]_vars PROVE TypeOK'
  OBVIOUS
<1> USE VersionsAssumption
    DEF VersionsAssumption, TypeOK, RequestPcs, rowVars, requestVars, Goto
<1>1. ASSUME NEW r \in Requests, NEW d \in Dags, Create(r, d) PROVE TypeOK'
  BY <1>1 DEF Create
<1>2. ASSUME NEW r \in Requests, NEW d \in Dags \cup {Keep}, UpdateRead(r, d) PROVE TypeOK'
  <2>1. PICK n \in Nat : DOMAIN versions = 1 .. n
    BY DEF RowsInv, Dense
  <2>2. n >= 1
    BY <1>2, <2>1 DEF UpdateRead, RowsInv
  <2>3. versions[Newest] \in Dags
    BY <2>1, <2>2, NewestIsLast
  <2> QED
    BY <1>2, <2>3 DEF UpdateRead
<1>3. ASSUME NEW r \in Requests, UpdateCommit(r) PROVE TypeOK'
  <2>1. PICK n \in Nat : DOMAIN versions = 1 .. n
    BY DEF RowsInv, Dense
  <2>2. CASE workflow = "live" /\ Publish(r, seen[r] + 1) /\ seen[r] + 1 \notin DOMAIN versions
    <3>1. /\ DOMAIN versions' = 1 .. n + 1 /\ current' = n + 1
          /\ \A v \in 1 .. n : versions'[v] = versions[v]
          /\ versions'[n + 1] = save[r]
      BY <1>3, <2>1, <2>2, PublishAppends DEF UpdateCommit
    <3>2. save[r] \in Dags
      BY <1>3 DEF UpdateCommit
    <3> QED
      BY <1>3, <2>1, <2>2, <3>1, <3>2 DEF UpdateCommit, Publish, Disturb
  <2>3. CASE UNCHANGED <<current, versions, disturbed>> /\ \E l \in {"missing", "conflict"} : Goto(r, l)
    BY <1>3, <2>3 DEF UpdateCommit
  <2> QED
    BY <1>3, <2>2, <2>3 DEF UpdateCommit
<1>4. ASSUME NEW r \in Requests, NEW v \in Numbers, RollbackRead(r, v) PROVE TypeOK'
  BY <1>4 DEF RollbackRead
<1>5. ASSUME NEW r \in Requests, RollbackFind(r) PROVE TypeOK'
  BY <1>5 DEF RollbackFind
<1>6. ASSUME NEW r \in Requests, RollbackWrite(r) PROVE TypeOK'
  BY <1>6 DEF RollbackWrite, Disturb
<1>7. ASSUME NEW r \in Requests, TriggerRead(r) PROVE TypeOK'
  BY <1>7 DEF TriggerRead
<1>8. ASSUME NEW r \in Requests, TriggerFind(r) PROVE TypeOK'
  BY <1>8 DEF TriggerFind
<1>9. ASSUME NEW r \in Requests, TriggerInsert(r) PROVE TypeOK'
  BY <1>9 DEF TriggerInsert
<1>10. ASSUME NEW r \in Requests, RemoveRead(r) PROVE TypeOK'
  BY <1>10 DEF RemoveRead
<1>11. ASSUME NEW r \in Requests, RemoveCommit(r) PROVE TypeOK'
  <2>1. DOMAIN versions' \subseteq Nat /\ versions' \in [DOMAIN versions' -> Dags]
    <3>1. UNCHANGED versions \/ versions' = NoVersions
      BY <1>11 DEF RemoveCommit
    <3>2. DOMAIN NoVersions = {} /\ NoVersions \in [{} -> Dags]
      BY DEF NoVersions
    <3> QED
      BY <3>1, <3>2
  <2>2. /\ workflow' \in {"none", "live", "deleted"} /\ runs' \subseteq Requests \X Nat
        /\ pc' \in [Requests -> RequestPcs] /\ UNCHANGED <<current, seen, save, renames>>
        /\ \A q \in Requests : pc'[q] = "update" => pc[q] = "update"
    <3>1. UNCHANGED <<current, seen, save, renames>>
      BY <1>11 DEF RemoveCommit
    <3>2. \E l \in {"missing", "done"} : Goto(r, l)
      BY <1>11 DEF RemoveCommit
    <3>3. /\ pc' \in [Requests -> RequestPcs]
          /\ \A q \in Requests : pc'[q] = "update" => pc[q] = "update"
      BY <3>2
    <3>4. workflow' \in {"none", "live", "deleted"} /\ runs' \subseteq Requests \X Nat
      BY <1>11 DEF RemoveCommit
    <3> QED
      BY <3>1, <3>3, <3>4
  <2>3. disturbed' \subseteq Requests
    BY <1>11 DEF RemoveCommit, Disturb
  <2> QED
    BY <2>1, <2>2, <2>3
<1>12. CASE UNCHANGED vars
  BY <1>12 DEF vars
<1> QED
  BY <1>1, <1>2, <1>3, <1>4, <1>5, <1>6, <1>7, <1>8, <1>9, <1>10,
     <1>11, <1>12
  DEF Next

-----------------------------------------------------------------------------
(* Rows.                                                                    *)

LEMMA RowsInit == Init => RowsInv
<1> SUFFICES ASSUME Init PROVE RowsInv
  OBVIOUS
<1>1. DOMAIN versions = 1 .. 0
  BY DEF Init, NoVersions
<1> QED
  BY <1>1 DEF Init, RowsInv, Dense

LEMMA RowsStep == TypeOK /\ RowsInv /\ [Next]_vars => RowsInv'
<1> SUFFICES ASSUME TypeOK, RowsInv, [Next]_vars PROVE RowsInv'
  OBVIOUS
<1> USE VersionsAssumption
    DEF VersionsAssumption, TypeOK, rowVars, requestVars, Goto
<1>1. ASSUME NEW r \in Requests, NEW d \in Dags, Create(r, d) PROVE RowsInv'
  <2>1. DOMAIN versions' = 1 .. 1 /\ current' = 1
    BY <1>1 DEF Create
  <2>2. Dense'
    BY <2>1 DEF Dense
  <2>3. workflow' = "live" /\ runs' = {} /\ \A q \in Requests : pc'[q] \in {"idle", "done"}
    BY <1>1 DEF Create, RowsInv
  <2> QED
    BY <2>1, <2>2, <2>3 DEF RowsInv
<1>2. ASSUME NEW r \in Requests, NEW d \in Dags \cup {Keep}, UpdateRead(r, d) PROVE RowsInv'
  BY <1>2 DEF UpdateRead, RowsInv, Dense
<1>3. ASSUME NEW r \in Requests, UpdateCommit(r) PROVE RowsInv'
  <2>1. PICK n \in Nat : DOMAIN versions = 1 .. n
    BY DEF RowsInv, Dense
  <2>2. CASE workflow = "live" /\ Publish(r, seen[r] + 1) /\ seen[r] + 1 \notin DOMAIN versions
    <3>1. DOMAIN versions' = 1 .. n + 1 /\ current' = n + 1
      BY <1>3, <2>1, <2>2, PublishAppends DEF UpdateCommit
    <3>2. Dense'
      BY <3>1 DEF Dense
    <3>3. DOMAIN versions \subseteq DOMAIN versions'
      BY <2>1, <3>1
    <3>4. current' \in DOMAIN versions'
      BY <3>1
    <3>5. UNCHANGED <<workflow, runs, seen>> /\ pc' = [pc EXCEPT ![r] = "updated"]
      BY <1>3, <2>2 DEF UpdateCommit, Publish
    <3> QED
      BY <2>2, <3>2, <3>3, <3>4, <3>5 DEF RowsInv
  <2>3. CASE UNCHANGED <<current, versions, disturbed>> /\ \E l \in {"missing", "conflict"} : Goto(r, l)
    BY <1>3, <2>3 DEF UpdateCommit, RowsInv, Dense
  <2> QED
    BY <1>3, <2>2, <2>3 DEF UpdateCommit
<1>4. ASSUME NEW r \in Requests, NEW v \in Numbers, RollbackRead(r, v) PROVE RowsInv'
  BY <1>4 DEF RollbackRead, RowsInv, Dense
<1>5. ASSUME NEW r \in Requests, RollbackFind(r) PROVE RowsInv'
  BY <1>5 DEF RollbackFind, RowsInv, Dense
<1>6. ASSUME NEW r \in Requests, RollbackWrite(r) PROVE RowsInv'
  BY <1>6 DEF RollbackWrite, Disturb, RowsInv, Dense
<1>7. ASSUME NEW r \in Requests, TriggerRead(r) PROVE RowsInv'
  BY <1>7 DEF TriggerRead, RowsInv, Dense
<1>8. ASSUME NEW r \in Requests, TriggerFind(r) PROVE RowsInv'
  BY <1>8 DEF TriggerFind, RowsInv, Dense
<1>9. ASSUME NEW r \in Requests, TriggerInsert(r) PROVE RowsInv'
  <2>1. \A x \in runs' : workflow = "live" /\ x[2] \in DOMAIN versions
    BY <1>9 DEF TriggerInsert, RowsInv
  <2> QED
    BY <1>9, <2>1 DEF TriggerInsert, RowsInv, Dense
<1>10. ASSUME NEW r \in Requests, RemoveRead(r) PROVE RowsInv'
  BY <1>10 DEF RemoveRead, RowsInv, Dense
<1>11. ASSUME NEW r \in Requests, RemoveCommit(r) PROVE RowsInv'
  <2>1. CASE workflow = "live"
    <3>1. DOMAIN versions' = {} /\ runs' = {} /\ workflow' = "deleted"
      BY <1>11, <2>1 DEF RemoveCommit, NoVersions
    <3>2. 1 .. 0 = {}
      OBVIOUS
    <3>3. Dense'
      BY <3>1, <3>2 DEF Dense
    <3> QED
      BY <3>1, <3>3 DEF RowsInv
  <2>2. CASE workflow # "live"
    <3>1. UNCHANGED <<workflow, current, versions, runs, seen>> /\ pc' = [pc EXCEPT ![r] = "missing"]
      BY <1>11, <2>2 DEF RemoveCommit
    <3>2. Dense'
      BY <3>1 DEF RowsInv, Dense
    <3>3. workflow # "none"
      BY <1>11 DEF RemoveCommit, RowsInv
    <3> QED
      BY <2>2, <3>1, <3>2, <3>3 DEF RowsInv
  <2> QED
    BY <2>1, <2>2
<1>12. CASE UNCHANGED vars
  BY <1>12 DEF vars, RowsInv, Dense
<1> QED
  BY <1>1, <1>2, <1>3, <1>4, <1>5, <1>6, <1>7, <1>8, <1>9, <1>10,
     <1>11, <1>12
  DEF Next

\* Every variable keeps to its type: a stored version is always a dag.
THEOREM TypeCorrect == Spec => []TypeOK
<1>1. Init => TypeOK /\ RowsInv
  BY TypeInit, RowsInit
<1>2. TypeOK /\ RowsInv /\ [Next]_vars => (TypeOK /\ RowsInv)'
  BY TypeStep, RowsStep
<1> QED
  BY <1>1, <1>2, PTL DEF Spec

\* The current version of a live workflow, and that of each of its executions,
\* has a row, whatever updates, rollbacks and removals overlap
\* (workflow.service.ts:107-183, execution.service.ts:28-52).
THEOREM CurrentAlwaysExists == Spec => []CurrentExists
<1>1. Init => TypeOK /\ RowsInv
  BY TypeInit, RowsInit
<1>2. TypeOK /\ RowsInv /\ [Next]_vars => (TypeOK /\ RowsInv)'
  BY TypeStep, RowsStep
<1>3. RowsInv => CurrentExists
  <2> SUFFICES ASSUME RowsInv PROVE CurrentExists
    OBVIOUS
  <2>1. \A v \in DOMAIN versions : 1 .. v \subseteq DOMAIN versions
    BY DEF RowsInv, Dense
  <2>2. \A x \in runs : x[2] \in DOMAIN versions
    BY DEF RowsInv
  <2> QED
    BY <2>1, <2>2 DEF RowsInv, CurrentExists
<1> QED
  BY <1>1, <1>2, <1>3, PTL DEF Spec

-----------------------------------------------------------------------------
(* Updates.                                                                 *)

LEMMA UpdatesInit == Init => UpdatesHaveOwnVersion
  BY DEF Init, UpdatesHaveOwnVersion

LEMMA UpdatesStep ==
  TypeOK /\ RowsInv /\ UpdatesHaveOwnVersion /\ [Next]_vars => UpdatesHaveOwnVersion'
<1> SUFFICES ASSUME TypeOK, RowsInv, UpdatesHaveOwnVersion, [Next]_vars
             PROVE  UpdatesHaveOwnVersion'
  OBVIOUS
<1> USE VersionsAssumption
    DEF VersionsAssumption, TypeOK, UpdatesHaveOwnVersion, rowVars, requestVars, Goto
<1>1. ASSUME NEW r \in Requests, NEW d \in Dags, Create(r, d) PROVE UpdatesHaveOwnVersion'
  BY <1>1 DEF Create, RowsInv
<1>2. ASSUME NEW r \in Requests, NEW d \in Dags \cup {Keep}, UpdateRead(r, d) PROVE UpdatesHaveOwnVersion'
  BY <1>2 DEF UpdateRead
<1>3. ASSUME NEW r \in Requests, UpdateCommit(r) PROVE UpdatesHaveOwnVersion'
  <2>1. PICK n \in Nat : DOMAIN versions = 1 .. n
    BY DEF RowsInv, Dense
  <2>2. CASE workflow = "live" /\ Publish(r, seen[r] + 1) /\ seen[r] + 1 \notin DOMAIN versions
    <3>1. /\ DOMAIN versions' = 1 .. n + 1 /\ seen[r] = n
          /\ \A v \in 1 .. n : versions'[v] = versions[v]
          /\ versions'[n + 1] = save[r]
      BY <1>3, <2>1, <2>2, PublishAppends DEF UpdateCommit
    <3>2. UNCHANGED <<workflow, seen, save>> /\ pc' = [pc EXCEPT ![r] = "updated"]
      BY <1>3, <2>2 DEF UpdateCommit, Publish
    <3>3. \A q \in Requests \ {r} : pc[q] = "updated" => seen[q] + 1 \in 1 .. n
      BY <1>3, <2>1, <2>2 DEF UpdateCommit
    <3> QED
      BY <2>1, <2>2, <3>1, <3>2, <3>3
  <2>3. CASE UNCHANGED <<current, versions, disturbed>> /\ \E l \in {"missing", "conflict"} : Goto(r, l)
    BY <1>3, <2>3 DEF UpdateCommit
  <2> QED
    BY <1>3, <2>2, <2>3 DEF UpdateCommit
<1>4. ASSUME NEW r \in Requests, NEW v \in Numbers, RollbackRead(r, v) PROVE UpdatesHaveOwnVersion'
  BY <1>4 DEF RollbackRead
<1>5. ASSUME NEW r \in Requests, RollbackFind(r) PROVE UpdatesHaveOwnVersion'
  BY <1>5 DEF RollbackFind
<1>6. ASSUME NEW r \in Requests, RollbackWrite(r) PROVE UpdatesHaveOwnVersion'
  BY <1>6 DEF RollbackWrite, Disturb
<1>7. ASSUME NEW r \in Requests, TriggerRead(r) PROVE UpdatesHaveOwnVersion'
  BY <1>7 DEF TriggerRead
<1>8. ASSUME NEW r \in Requests, TriggerFind(r) PROVE UpdatesHaveOwnVersion'
  BY <1>8 DEF TriggerFind
<1>9. ASSUME NEW r \in Requests, TriggerInsert(r) PROVE UpdatesHaveOwnVersion'
  BY <1>9 DEF TriggerInsert
<1>10. ASSUME NEW r \in Requests, RemoveRead(r) PROVE UpdatesHaveOwnVersion'
  BY <1>10 DEF RemoveRead
<1>11. ASSUME NEW r \in Requests, RemoveCommit(r) PROVE UpdatesHaveOwnVersion'
  BY <1>11 DEF RemoveCommit, Disturb
<1>12. CASE UNCHANGED vars
  BY <1>12 DEF vars
<1> QED
  BY <1>1, <1>2, <1>3, <1>4, <1>5, <1>6, <1>7, <1>8, <1>9, <1>10,
     <1>11, <1>12
  DEF Next

\* No update that was answered with success is lost or overwritten
\* (workflow.service.ts:118-143, with the unique index on the version).
THEOREM UpdatesAreKept == Spec => []UpdatesHaveOwnVersion
<1>1. Init => TypeOK /\ RowsInv /\ UpdatesHaveOwnVersion
  BY TypeInit, RowsInit, UpdatesInit
<1>2. TypeOK /\ RowsInv /\ UpdatesHaveOwnVersion /\ [Next]_vars
        => (TypeOK /\ RowsInv /\ UpdatesHaveOwnVersion)'
  BY TypeStep, RowsStep, UpdatesStep
<1> QED
  BY <1>1, <1>2, PTL DEF Spec

-----------------------------------------------------------------------------
(* Updates without a dag.                                                   *)

LEMMA RenameInit == Init => RenameInv
  BY DEF Init, RenameInv

LEMMA RenameStep ==
  TypeOK /\ RowsInv /\ RenameInv /\ [Next]_vars => RenameInv'
<1> SUFFICES ASSUME TypeOK, RowsInv, RenameInv, [Next]_vars PROVE RenameInv'
  OBVIOUS
<1> USE VersionsAssumption
    DEF VersionsAssumption, TypeOK, RenameInv, rowVars, requestVars, Goto
<1>1. ASSUME NEW r \in Requests, NEW d \in Dags, Create(r, d) PROVE RenameInv'
  BY <1>1 DEF Create, RowsInv
<1>2. ASSUME NEW r \in Requests, NEW d \in Dags \cup {Keep}, UpdateRead(r, d) PROVE RenameInv'
  <2>1. PICK n \in Nat : DOMAIN versions = 1 .. n
    BY DEF RowsInv, Dense
  <2>2. current \in 1 .. n /\ n >= 1
    BY <1>2, <2>1 DEF UpdateRead, RowsInv
  <2>3. Newest = n
    BY <2>1, <2>2, NewestIsLast
  <2>4. ASSUME NEW q \in renames', pc'[q] = "update"
        PROVE  \E m \in DOMAIN versions' : seen'[q] <= m /\ versions'[m] = save'[q]
    <3>1. CASE q = r
      <4>1. d = Keep \/ r \in renames
        BY <1>2, <2>4, <3>1 DEF UpdateRead
      <4>2. CASE d = Keep
        <5>1. seen'[q] <= n /\ versions'[n] = save'[q] /\ n \in DOMAIN versions'
          BY <1>2, <2>1, <2>2, <2>3, <3>1, <4>2 DEF UpdateRead
        <5> QED
          BY <5>1
      <4>3. CASE d # Keep
        BY <1>2, <3>1, <4>1, <4>3 DEF UpdateRead
      <4> QED
        BY <4>2, <4>3
    <3>2. CASE q # r
      <4>1. q \in renames /\ pc[q] = "update" /\ seen'[q] = seen[q] /\ save'[q] = save[q]
        BY <1>2, <2>4, <3>2 DEF UpdateRead
      <4> QED
        BY <1>2, <4>1 DEF UpdateRead
    <3> QED
      BY <3>1, <3>2
  <2>5. \A q \in renames' : pc'[q] # "idle"
    BY <1>2 DEF UpdateRead
  <2> QED
    BY <2>4, <2>5
<1>3. ASSUME NEW r \in Requests, UpdateCommit(r) PROVE RenameInv'
  <2>1. PICK n \in Nat : DOMAIN versions = 1 .. n
    BY DEF RowsInv, Dense
  <2>2. CASE workflow = "live" /\ Publish(r, seen[r] + 1) /\ seen[r] + 1 \notin DOMAIN versions
    <3>1. /\ DOMAIN versions' = 1 .. n + 1
          /\ \A v \in 1 .. n : versions'[v] = versions[v]
      BY <1>3, <2>1, <2>2, PublishAppends DEF UpdateCommit
    <3>2. UNCHANGED <<workflow, seen, save, renames>> /\ pc' = [pc EXCEPT ![r] = "updated"]
      BY <1>3, <2>2 DEF UpdateCommit, Publish
    <3>3. ASSUME NEW q \in renames', pc'[q] = "update"
          PROVE  \E m \in DOMAIN versions' : seen'[q] <= m /\ versions'[m] = save'[q]
      <4>1. q \in renames /\ pc[q] = "update"
        BY <3>2, <3>3
      <4>2. PICK m \in DOMAIN versions : seen[q] <= m /\ versions[m] = save[q]
        BY <2>2, <4>1
      <4>3. m \in DOMAIN versions' /\ versions'[m] = save[q]
        BY <2>1, <3>1, <4>2
      <4> QED
        BY <3>2, <4>2, <4>3
    <3>4. \A q \in renames' : pc'[q] # "idle"
      BY <3>2
    <3> QED
      BY <3>3, <3>4
  <2>3. CASE UNCHANGED <<current, versions, disturbed>> /\ \E l \in {"missing", "conflict"} : Goto(r, l)
    BY <1>3, <2>3 DEF UpdateCommit
  <2> QED
    BY <1>3, <2>2, <2>3 DEF UpdateCommit
<1>4. ASSUME NEW r \in Requests, NEW v \in Numbers, RollbackRead(r, v) PROVE RenameInv'
  BY <1>4 DEF RollbackRead
<1>5. ASSUME NEW r \in Requests, RollbackFind(r) PROVE RenameInv'
  BY <1>5 DEF RollbackFind
<1>6. ASSUME NEW r \in Requests, RollbackWrite(r) PROVE RenameInv'
  BY <1>6 DEF RollbackWrite, Disturb
<1>7. ASSUME NEW r \in Requests, TriggerRead(r) PROVE RenameInv'
  BY <1>7 DEF TriggerRead
<1>8. ASSUME NEW r \in Requests, TriggerFind(r) PROVE RenameInv'
  BY <1>8 DEF TriggerFind
<1>9. ASSUME NEW r \in Requests, TriggerInsert(r) PROVE RenameInv'
  BY <1>9 DEF TriggerInsert
<1>10. ASSUME NEW r \in Requests, RemoveRead(r) PROVE RenameInv'
  BY <1>10 DEF RemoveRead
<1>11. ASSUME NEW r \in Requests, RemoveCommit(r) PROVE RenameInv'
  BY <1>11 DEF RemoveCommit, Disturb
<1>12. CASE UNCHANGED vars
  BY <1>12 DEF vars
<1> QED
  BY <1>1, <1>2, <1>3, <1>4, <1>5, <1>6, <1>7, <1>8, <1>9, <1>10,
     <1>11, <1>12
  DEF Next

LEMMA RenameKeeps ==
  TypeOK /\ RowsInv /\ RenameInv /\ [Next]_vars =>
    \A r \in renames :
      pc[r] = "update" /\ pc'[r] = "updated" /\ current = seen[r] =>
        versions'[current'] = versions[current]
<1> SUFFICES ASSUME TypeOK, RowsInv, RenameInv, [Next]_vars, NEW r \in renames,
                    pc[r] = "update", pc'[r] = "updated", current = seen[r]
             PROVE  versions'[current'] = versions[current]
  OBVIOUS
<1>1. r \in Requests
  BY DEF TypeOK
<1>2. UpdateCommit(r)
  <2> USE <1>1 DEF TypeOK, Goto
  <2>1. ASSUME NEW q \in Requests, UpdateCommit(q) PROVE q = r
    BY <2>1 DEF UpdateCommit, Publish
  <2>2. ASSUME NEW q \in Requests, NEW d \in Dags, Create(q, d) PROVE FALSE
    BY <2>2 DEF Create
  <2>3. ASSUME NEW q \in Requests, NEW d \in Dags \cup {Keep}, UpdateRead(q, d) PROVE FALSE
    BY <2>3 DEF UpdateRead
  <2>4. ASSUME NEW q \in Requests, NEW v \in Numbers, RollbackRead(q, v) PROVE FALSE
    BY <2>4 DEF RollbackRead
  <2>5. ASSUME NEW q \in Requests, RollbackFind(q) \/ RollbackWrite(q) PROVE FALSE
    BY <2>5 DEF RollbackFind, RollbackWrite
  <2>6. ASSUME NEW q \in Requests, TriggerRead(q) \/ TriggerFind(q) \/ TriggerInsert(q)
        PROVE FALSE
    BY <2>6 DEF TriggerRead, TriggerFind, TriggerInsert
  <2>7. ASSUME NEW q \in Requests, RemoveRead(q) \/ RemoveCommit(q) PROVE FALSE
    BY <2>7 DEF RemoveRead, RemoveCommit
  <2>8. ~UNCHANGED vars
    BY DEF vars, requestVars
  <2> QED
    BY <2>1, <2>2, <2>3, <2>4, <2>5, <2>6, <2>7, <2>8 DEF Next
<1>3. /\ workflow = "live" /\ seen[r] + 1 \notin DOMAIN versions
      /\ Publish(r, seen[r] + 1)
  BY <1>1, <1>2 DEF UpdateCommit, Goto, TypeOK
<1>4. PICK n \in Nat : DOMAIN versions = 1 .. n
  BY DEF RowsInv, Dense
<1>5. seen[r] = n /\ versions'[n + 1] = save[r] /\ current' = n + 1
  BY <1>1, <1>3, <1>4, PublishAppends
<1>6. PICK m \in 1 .. n : n <= m /\ versions[m] = save[r]
  BY <1>3, <1>4, <1>5 DEF RenameInv
<1>7. m = n
  BY <1>6
<1> QED
  BY <1>5, <1>6, <1>7

\* An update without a dag never changes what the workflow runs
\* (workflow.service.ts:119-121), although it stores the newest version's dag:
\* after a rollback the unique index refuses it.
THEOREM RenamesKeepTheDag == Spec => RenameKeepsDag
<1>1. Init => TypeOK /\ RowsInv /\ RenameInv
  BY TypeInit, RowsInit, RenameInit
<1>2. TypeOK /\ RowsInv /\ RenameInv /\ [Next]_vars => (TypeOK /\ RowsInv /\ RenameInv)'
  BY TypeStep, RowsStep, RenameStep
<1> QED
  BY <1>1, <1>2, RenameKeeps, PTL DEF Spec, RenameKeepsDag

-----------------------------------------------------------------------------
(* The history.                                                             *)

\* Read as a sequence, the versions of a dense numbering are as many as their
\* numbers.
LEMMA VersionsAreSequence ==
  ASSUME TypeOK, NEW n \in Nat, DOMAIN versions = 1 .. n
  PROVE  versions \in Seq(Dags) /\ Len(versions) = n
<1>1. versions = [v \in 1 .. n |-> versions[v]]
  BY DEF TypeOK
<1>2. \A v \in 1 .. n : versions[v] \in Dags
  BY DEF TypeOK
<1>3. versions \in Seq(Dags)
  BY <1>1, <1>2
<1> QED
  BY <1>3

LEMMA HistoryInit == Init => VH!Init
  BY DEF Init, VH!Init, NoVersions

LEMMA HistoryStep == TypeOK /\ RowsInv /\ [Next]_vars => [VH!Next]_VH!vars
<1> SUFFICES ASSUME TypeOK, RowsInv, [Next]_vars PROVE [VH!Next]_VH!vars
  OBVIOUS
<1> USE DEF VH!vars, rowVars
<1>0. PICK n \in Nat : DOMAIN versions = 1 .. n
  BY DEF RowsInv, Dense
<1>s. versions \in Seq(Dags) /\ Len(versions) = n
  BY <1>0, VersionsAreSequence
<1>1. ASSUME NEW r \in Requests, NEW d \in Dags, Create(r, d) PROVE VH!Next
  <2>1. versions' = <<d>>
    BY <1>1 DEF Create
  <2>2. VH!Create(d)
    BY <1>1, <2>1 DEF Create, VH!Create
  <2> QED
    BY <2>2 DEF VH!Next
<1>2. ASSUME NEW r \in Requests, UpdateCommit(r) PROVE [VH!Next]_VH!vars
  <2>1. CASE workflow = "live" /\ Publish(r, seen[r] + 1) /\ seen[r] + 1 \notin DOMAIN versions
    <3>1. /\ seen[r] = n
          /\ DOMAIN versions' = 1 .. n + 1
          /\ \A v \in 1 .. n : versions'[v] = versions[v]
          /\ versions'[n + 1] = save[r]
          /\ current' = n + 1
      BY <1>0, <1>2, <2>1, PublishAppends DEF UpdateCommit
    <3>2. save[r] \in Dags
      BY <1>2 DEF UpdateCommit, TypeOK
    <3>3. versions' = [v \in 1 .. n + 1 |-> IF v = n + 1 THEN save[r] ELSE versions[v]]
      <4>1. versions' = [v \in DOMAIN versions \cup {n + 1} |->
                           IF v = n + 1 THEN save[r] ELSE versions[v]]
        BY <2>1, <3>1 DEF Publish
      <4>2. 1 .. n \cup {n + 1} = 1 .. n + 1
        OBVIOUS
      <4> QED
        BY <1>0, <4>1, <4>2
    <3>4. versions' = Append(versions, save[r])
      BY <1>s, <3>2, <3>3
    <3>5. UNCHANGED <<workflow, runs>>
      BY <1>2 DEF UpdateCommit
    <3>6. VH!Publish(save[r])
      BY <1>s, <2>1, <3>1, <3>4, <3>5 DEF VH!Publish
    <3> QED
      BY <3>2, <3>6 DEF VH!Next
  <2>2. CASE UNCHANGED <<current, versions, disturbed>>
    BY <1>2, <2>2 DEF UpdateCommit
  <2> QED
    BY <1>2, <2>1, <2>2 DEF UpdateCommit
<1>3. ASSUME NEW r \in Requests, RollbackWrite(r) PROVE [VH!Next]_VH!vars
  <2>1. CASE workflow = "live"
    <3>1. seen[r] \in 1 .. Len(versions)
      BY <1>0, <1>s, <1>3, <2>1 DEF RollbackWrite, RowsInv
    <3>2. VH!Rollback(seen[r])
      BY <1>3, <2>1 DEF RollbackWrite, VH!Rollback
    <3> QED
      BY <3>1, <3>2 DEF VH!Next
  <2>2. CASE workflow # "live"
    BY <1>3, <2>2 DEF RollbackWrite
  <2> QED
    BY <2>1, <2>2
<1>4. ASSUME NEW r \in Requests, TriggerInsert(r) PROVE [VH!Next]_VH!vars
  <2>1. CASE workflow = "live"
    <3>1. seen[r] \in 1 .. Len(versions)
      BY <1>0, <1>s, <1>4, <2>1 DEF TriggerInsert, RowsInv
    <3>2. VH!Start(r, seen[r])
      BY <1>4, <2>1 DEF TriggerInsert, VH!Start
    <3> QED
      BY <3>1, <3>2 DEF VH!Next
  <2>2. CASE workflow # "live"
    BY <1>4, <2>2 DEF TriggerInsert
  <2> QED
    BY <2>1, <2>2
<1>5. ASSUME NEW r \in Requests, RemoveCommit(r) PROVE [VH!Next]_VH!vars
  <2>1. CASE workflow = "live"
    <3>1. versions' = <<>>
      BY <1>5, <2>1 DEF RemoveCommit, NoVersions
    <3>2. VH!Remove
      BY <1>5, <2>1, <3>1 DEF RemoveCommit, VH!Remove
    <3> QED
      BY <3>2 DEF VH!Next
  <2>2. CASE workflow # "live"
    BY <1>5, <2>2 DEF RemoveCommit
  <2> QED
    BY <2>1, <2>2
<1>6. CASE UNCHANGED rowVars
  BY <1>6
<1> QED
  BY <1>1, <1>2, <1>3, <1>4, <1>5, <1>6
  DEF Next, vars, UpdateRead, RollbackRead, RollbackFind, TriggerRead, TriggerFind, RemoveRead

\* The service's requests, each of several statements, implement the atomic
\* operations of VersionHistory (workflow.service.ts:25-199,
\* execution.service.ts:28-52).
THEOREM VersionsImplementHistory == Spec => ImplementsVersionHistory
<1>1. Init => TypeOK /\ RowsInv
  BY TypeInit, RowsInit
<1>2. TypeOK /\ RowsInv /\ [Next]_vars => (TypeOK /\ RowsInv)'
  BY TypeStep, RowsStep
<1> QED
  BY <1>1, <1>2, HistoryInit, HistoryStep, PTL DEF Spec, ImplementsVersionHistory, VH!Spec

=============================================================================
