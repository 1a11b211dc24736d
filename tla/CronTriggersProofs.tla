------------------------- MODULE CronTriggersProofs -------------------------
(***************************************************************************)
(* Proofs about CronTriggers, for any sets of processes, triggers and      *)
(* requests.                                                               *)
(*                                                                         *)
(* While a process keeps track of a trigger, at most one request for it is *)
(* under way, and the process itself handles it.  How far that request has *)
(* come says how the row, the task and the map entry may differ: Agrees.   *)
(***************************************************************************)
EXTENDS CronTriggers, TLAPS

InFlightFor(r, t) == InFlight(r) /\ of[r] = t

\* A request is handled by a process that is up.
HandledInv ==
  \A r \in Requests :
    InFlight(r) => at[r] \in Processes /\ of[r] \in Triggers /\ phase[at[r]] = "up"

\* Without their workflow there are no rows.
CascadeInv == ~workflow => \A t \in Triggers : ~Exists(t)

\* The one request for a trigger that a process keeps track of.
Alone(p, t) ==
  /\ \A r \in Requests : InFlightFor(r, t) => at[r] = p
  /\ \A r, s \in Requests : InFlightFor(r, t) /\ InFlightFor(s, t) => r = s

Runs(p, t)  == tasks[p][t] = 1 /\ t \in mapped[p]
Rests(p, t) == tasks[p][t] = 0 /\ t \notin mapped[p]
Match(p, t) == IF row[t] = "active" THEN Runs(p, t) ELSE Rests(p, t)

\* What the place of a request says of its trigger.
Progress(r, p, t) ==
  /\ pc[r] \in {"toggle", "unschedule"} => Match(p, t)
  /\ pc[r] = "toggle" => (wasActive[r] <=> row[t] = "active")
  /\ pc[r] \in {"schedule", "owner"} => row[t] = "active" /\ Rests(p, t)
  /\ pc[r] = "stop" => row[t] # "active" /\ Runs(p, t)
  /\ pc[r] = "delete" => Rests(p, t)

Agrees(p, t) ==
  /\ Alone(p, t)
  /\ phase[p] = "boot" => (t \in found[p] <=> row[t] = "active")
  /\ phase[p] = "up" =>
       /\ (\A r \in Requests : ~InFlightFor(r, t)) => Match(p, t)
       /\ \A r \in Requests : InFlightFor(r, t) => Progress(r, p, t)

AgreeInv ==
  \A p \in Processes, t \in Triggers :
    phase[p] # "down" /\ t \notin upset[p] => Agrees(p, t)

IInv == TypeOK /\ EntriesAreTasks /\ HandledInv /\ CascadeInv /\ AgreeInv

-----------------------------------------------------------------------------
\* The parts of the state that any overlap of requests leaves sound: types, the
\* map of entries, where requests are handled, and the cascade.
Sound == TypeOK /\ EntriesAreTasks /\ HandledInv /\ CascadeInv

LEMMA InitSound == Init => Sound
<1> SUFFICES ASSUME Init PROVE Sound
  OBVIOUS
<1> QED
  BY CronAssumption DEF CronAssumption, Init, Sound, TypeOK, RequestPcs, EntriesAreTasks,
     HandledInv, CascadeInv, InFlight

\* What stops is an entry of the map, and goes with its task.
LEMMA StopIsSound ==
  ASSUME TypeOK, EntriesAreTasks, NEW p \in Processes, NEW t \in Triggers, Stop(p, t)
  PROVE  /\ tasks' \in [Processes -> [Triggers -> Nat]]
         /\ mapped' \in [Processes -> SUBSET Triggers]
         /\ EntriesAreTasks'
<1>1. /\ tasks \in [Processes -> [Triggers -> Nat]]
      /\ mapped \in [Processes -> SUBSET Triggers]
      /\ t \in mapped[p] => tasks[p][t] > 0
  BY DEF TypeOK, EntriesAreTasks
<1>2. (IF t \in mapped[p] THEN tasks[p][t] - 1 ELSE tasks[p][t]) \in Nat
  BY <1>1
<1>3. /\ tasks' \in [Processes -> [Triggers -> Nat]]
      /\ mapped' \in [Processes -> SUBSET Triggers]
  BY <1>1, <1>2 DEF Stop
<1>4. ASSUME NEW q \in Processes, NEW u \in Triggers, u \in mapped'[q]
      PROVE  u \in mapped[q] /\ tasks'[q][u] = tasks[q][u]
  BY <1>1, <1>4 DEF Stop
<1> QED
  BY <1>3, <1>4 DEF EntriesAreTasks

\* A request that goes on stays where it is handled.
LEMMA MovesOn ==
  ASSUME TypeOK, HandledInv, NEW r \in Requests, InFlight(r), NEW l \in RequestPcs,
         Goto(r, l), UNCHANGED <<at, of, phase>>
  PROVE  pc' \in [Requests -> RequestPcs] /\ HandledInv'
<1>1. pc \in [Requests -> RequestPcs]
  BY DEF TypeOK
<1>2. pc' \in [Requests -> RequestPcs]
  BY <1>1 DEF Goto
<1>3. \A q \in Requests : InFlight(q)' => InFlight(q)
  BY <1>1 DEF Goto, InFlight
<1> QED
  BY <1>2, <1>3 DEF HandledInv

LEMMA SoundStep == Sound /\ [Next]_vars => Sound'
<1> SUFFICES ASSUME Sound, [Next]_vars PROVE Sound'
  OBVIOUS
<1> USE CronAssumption DEF CronAssumption, Sound, TypeOK, RequestPcs, EntriesAreTasks,
     HandledInv, CascadeInv, InFlight, Exists, Goto, memory, requests
<1>1. ASSUME NEW p \in Processes, BootRead(p) PROVE Sound'
  BY <1>1 DEF BootRead
<1>2. ASSUME NEW p \in Processes, BootSchedule(p) PROVE Sound'
  BY <1>2 DEF BootSchedule
<1>3. ASSUME NEW p \in Processes, Restart(p) PROVE Sound'
  BY <1>3 DEF Restart, Fault
<1>4. ASSUME NEW r \in Requests, NEW p \in Processes, NEW t \in Triggers, Create(r, p, t)
      PROVE Sound'
  BY <1>4 DEF Create, Begin
<1>5. ASSUME NEW r \in Requests, NEW p \in Processes, NEW t \in Triggers, ToggleRead(r, p, t)
      PROVE Sound'
  BY <1>5 DEF ToggleRead, Begin
<1>6. ASSUME NEW r \in Requests, NEW p \in Processes, NEW t \in Triggers, DeleteRead(r, p, t)
      PROVE Sound'
  BY <1>6 DEF DeleteRead, Begin
<1>m. ASSUME NEW r \in Requests, InFlight(r), NEW l \in RequestPcs, Goto(r, l),
             UNCHANGED <<at, of, phase>>
      PROVE  pc' \in [Requests -> RequestPcs] /\ HandledInv'
  <2> HIDE DEF TypeOK, RequestPcs, HandledInv, InFlight, Goto
  <2> QED
    BY <1>m, MovesOn
<1>7. ASSUME NEW r \in Requests, ScheduleTask(r) PROVE Sound'
  BY <1>7 DEF ScheduleTask, Schedule
<1>8. ASSUME NEW r \in Requests, ToggleWrite(r) PROVE Sound'
  <2>1. InFlight(r) /\ of[r] \in Triggers /\ UNCHANGED <<at, of, phase>>
    BY <1>8 DEF ToggleWrite
  <2>2. \E l \in {"stop", "owner", "done"} : Goto(r, l)
    BY <1>8 DEF ToggleWrite
  <2>3. pc' \in [Requests -> RequestPcs] /\ HandledInv'
    <3> HIDE DEF Goto, InFlight, HandledInv
    <3> QED
      BY <2>1, <2>2, <1>m
  <2>4. EntriesAreTasks'
    BY <1>8 DEF ToggleWrite
  <2>5. TypeOK'
    BY <1>8, <2>1, <2>3 DEF ToggleWrite
  <2>6. CascadeInv'
    BY <1>8, <2>1 DEF ToggleWrite
  <2> QED
    BY <2>3, <2>4, <2>5, <2>6
<1>9. ASSUME NEW r \in Requests, ToggleOwner(r) PROVE Sound'
  BY <1>9 DEF ToggleOwner
<1>s. ASSUME NEW r \in Requests, NEW l \in RequestPcs, InFlight(r), Stop(at[r], of[r]),
             Goto(r, l),
             UNCHANGED <<row, workflow, phase, found, at, of, wasActive, upset, faults>>
      PROVE  Sound'
  <2>1. at[r] \in Processes /\ of[r] \in Triggers
    BY <1>s
  <2>2. /\ tasks' \in [Processes -> [Triggers -> Nat]]
        /\ mapped' \in [Processes -> SUBSET Triggers]
        /\ EntriesAreTasks'
    <3> HIDE DEF Sound, TypeOK, EntriesAreTasks, HandledInv, CascadeInv
    <3> QED
      BY <1>s, <2>1, StopIsSound DEF Sound
  <2>3. pc' \in [Requests -> RequestPcs] /\ HandledInv'
    <3> HIDE DEF Goto, InFlight, HandledInv
    <3> QED
      BY <1>s, <1>m
  <2>4. CascadeInv'
    BY <1>s
  <2> HIDE DEF EntriesAreTasks, HandledInv, CascadeInv, Goto, InFlight, Exists
  <2> QED
    BY <1>s, <2>2, <2>3, <2>4
<1>10. ASSUME NEW r \in Requests, ToggleStop(r) PROVE Sound'
  <2>1. InFlight(r) /\ "done" \in RequestPcs
    BY <1>10 DEF ToggleStop
  <2> HIDE DEF Sound, Goto, InFlight, RequestPcs
  <2> QED
    BY <1>10, <1>s, <2>1 DEF ToggleStop
<1>11. ASSUME NEW r \in Requests, DeleteStop(r) PROVE Sound'
  <2>1. InFlight(r) /\ "delete" \in RequestPcs
    BY <1>11 DEF DeleteStop
  <2> HIDE DEF Sound, Goto, InFlight, RequestPcs
  <2> QED
    BY <1>11, <1>s, <2>1 DEF DeleteStop
<1>12. ASSUME NEW r \in Requests, DeleteRow(r) PROVE Sound'
  BY <1>12 DEF DeleteRow
<1>13. ASSUME NEW r \in Requests, CallFails(r) PROVE Sound'
  BY <1>13 DEF CallFails, Fault
<1>14. CASE RemoveWorkflow
  BY <1>14 DEF RemoveWorkflow
<1>15. CASE UNCHANGED vars
  BY <1>15 DEF vars
<1> QED
  BY <1>1, <1>2, <1>3, <1>4, <1>5, <1>6, <1>7, <1>8, <1>9, <1>10, <1>11, <1>12, <1>13,
     <1>14, <1>15 DEF Next

\* Every variable stays in its type: no task is stopped that does not run.
THEOREM TypeCorrect == Spec => []TypeOK
<1>1. Sound => TypeOK
  BY DEF Sound
<1> QED BY InitSound, SoundStep, <1>1, PTL DEF Spec

\* EntriesAreTasks, for any number of processes: an entry of cronTasks stands
\* for a running task, however requests overlap, fail or are cut off.
THEOREM EntriesHold == Spec => []EntriesAreTasks
<1>1. Sound => EntriesAreTasks
  BY DEF Sound
<1> QED BY InitSound, SoundStep, <1>1, PTL DEF Spec

-----------------------------------------------------------------------------
\* A step that changes nothing of trigger t in process p.
LEMMA Untouched ==
  ASSUME NEW p, NEW t, Agrees(p, t),
         row'[t] = row[t], tasks'[p][t] = tasks[p][t],
         t \in mapped'[p] <=> t \in mapped[p],
         phase'[p] = phase[p], t \in found'[p] <=> t \in found[p],
         \A r \in Requests : InFlightFor(r, t)' <=> InFlightFor(r, t),
         \A r \in Requests : InFlightFor(r, t) =>
           pc'[r] = pc[r] /\ at'[r] = at[r] /\ wasActive'[r] = wasActive[r]
  PROVE  Agrees(p, t)'
<1>1. Match(p, t)' <=> Match(p, t)
  BY DEF Match, Runs, Rests
<1>2. ASSUME NEW r \in Requests, InFlightFor(r, t), Progress(r, p, t)
      PROVE Progress(r, p, t)'
  BY <1>1, <1>2 DEF Progress, Runs, Rests
<1>3. Alone(p, t)'
  BY DEF Agrees, Alone
<1> QED BY <1>1, <1>2, <1>3 DEF Agrees

\* A request that moves on, from one place in flight to another or to its end,
\* is the only one for its trigger, and what it says next holds.
LEMMA Moves ==
  ASSUME TypeOK, HandledInv, AgreeInv, NEW r \in Requests, InFlight(r),
         NEW l \in RequestPcs \ {"idle"}, Goto(r, l), UNCHANGED <<at, of, wasActive, phase, found>>,
         \A p \in Processes : upset[p] \subseteq upset'[p],
         \A t \in Triggers \ {of[r]} : row'[t] = row[t],
         \A p \in Processes, t \in Triggers :
           p # at[r] \/ t # of[r] =>
             tasks'[p][t] = tasks[p][t] /\ (t \in mapped'[p] <=> t \in mapped[p]),
         of[r] \notin upset'[at[r]] =>
           IF l = "done" THEN Match(at[r], of[r])' ELSE Progress(r, at[r], of[r])'
  PROVE  AgreeInv'
<1> SUFFICES ASSUME NEW p \in Processes, NEW t \in Triggers, phase[p] # "down", t \notin upset'[p]
             PROVE Agrees(p, t)'
  BY DEF AgreeInv
<1>1. Agrees(p, t)
  BY DEF AgreeInv
<1>2. \A s \in Requests \ {r} : pc'[s] = pc[s] /\ (InFlightFor(s, t)' <=> InFlightFor(s, t))
  BY DEF TypeOK, Goto, InFlightFor, InFlight
<1>3. pc'[r] = l
  BY DEF TypeOK, Goto
<1>4. CASE of[r] = t
  <2>1. at[r] = p /\ phase[p] = "up" /\ InFlightFor(r, t)
    BY <1>1, <1>4 DEF Agrees, Alone, InFlightFor, HandledInv
  <2>2. \A s \in Requests : InFlightFor(s, t)' => s = r
    BY <1>1, <1>2, <2>1 DEF Agrees, Alone
  <2>3. Alone(p, t)'
    BY <2>1, <2>2 DEF Alone
  <2>4. CASE l = "done"
    <3>1. \A s \in Requests : ~InFlightFor(s, t)'
      BY <1>3, <2>2, <2>4 DEF InFlightFor, InFlight
    <3>2. Match(p, t)'
      BY <1>4, <2>1, <2>4
    <3> QED BY <2>1, <2>3, <3>1, <3>2 DEF Agrees
  <2>5. CASE l # "done"
    <3>1. InFlightFor(r, t)'
      BY <1>3, <1>4, <2>5 DEF InFlightFor, InFlight
    <3>2. \A s \in Requests : InFlightFor(s, t)' => Progress(s, p, t)'
      BY <1>4, <2>1, <2>2, <2>5
    <3> QED BY <2>1, <2>3, <3>1, <3>2 DEF Agrees
  <2> QED BY <2>4, <2>5
<1>5. CASE of[r] # t
  <2>1. ~InFlightFor(r, t) /\ ~InFlightFor(r, t)'
    BY <1>5 DEF InFlightFor
  <2> QED BY <1>1, <1>2, <1>5, <2>1, Untouched
<1> QED BY <1>4, <1>5

\* A request that arrives is the only one for its trigger in a process that
\* keeps track of it.
LEMMA Begins ==
  ASSUME TypeOK, AgreeInv, NEW r \in Requests, NEW q \in Processes, NEW u \in Triggers,
         NEW l \in RequestPcs \ {"idle", "done"}, Begin(r, q, u, l), UNCHANGED memory,
         \A t \in Triggers \ {u} : row'[t] = row[t],
         \A s \in Requests \ {r} : wasActive'[s] = wasActive[s],
         Match(q, u) => Progress(r, q, u)'
  PROVE  AgreeInv'
<1> SUFFICES ASSUME NEW p \in Processes, NEW t \in Triggers, phase[p] # "down", t \notin upset'[p]
             PROVE Agrees(p, t)'
  BY DEF AgreeInv, memory
<1>1. Agrees(p, t)
  BY DEF AgreeInv, Begin, TypeOK
<1>2. \A s \in Requests \ {r} : pc'[s] = pc[s] /\ at'[s] = at[s] /\ of'[s] = of[s]
  BY DEF TypeOK, Begin, Goto
<1>3. pc[r] = "idle" /\ pc'[r] = l /\ at'[r] = q /\ of'[r] = u /\ phase[q] = "up"
  BY DEF TypeOK, Begin, Goto
<1>4. \A s \in Requests \ {r} : InFlightFor(s, t)' <=> InFlightFor(s, t)
  BY <1>2 DEF InFlightFor, InFlight
<1>5. CASE t = u
  <2>1. p = q /\ \A s \in Requests : ~InFlightFor(s, t)
    BY <1>5 DEF Begin, InFlightFor
  <2>2. \A s \in Requests : InFlightFor(s, t)' <=> s = r
    BY <1>3, <1>4, <1>5, <2>1 DEF InFlightFor, InFlight
  <2>3. Alone(p, t)'
    BY <1>3, <2>1, <2>2 DEF Alone
  <2>4. Match(q, u)
    BY <1>1, <1>3, <1>5, <2>1 DEF Agrees
  <2> QED BY <1>3, <1>5, <2>1, <2>2, <2>3, <2>4 DEF Agrees, memory
<1>6. CASE t # u
  <2>1. ~InFlightFor(r, t) /\ ~InFlightFor(r, t)'
    BY <1>3, <1>6 DEF InFlightFor, InFlight
  <2> QED BY <1>1, <1>2, <1>4, <1>6, <2>1, Untouched DEF memory
<1> QED BY <1>5, <1>6

-----------------------------------------------------------------------------
\* The steps of a process, which change many triggers at once.
LEMMA BootReadStep ==
  ASSUME IInv, NEW q \in Processes, BootRead(q)
  PROVE  AgreeInv'
<1> SUFFICES ASSUME NEW p \in Processes, NEW t \in Triggers, phase'[p] # "down", t \notin upset'[p]
             PROVE Agrees(p, t)'
  BY DEF AgreeInv
<1>1. CASE p = q
  <2>1. \A r \in Requests : ~InFlightFor(r, t)'
    BY <1>1 DEF BootRead, IInv, TypeOK, InFlightFor, InFlight, requests
  <2>2. phase'[p] = "boot" /\ (t \in found'[p] <=> row'[t] = "active")
    BY <1>1 DEF BootRead, IInv, TypeOK
  <2> QED BY <2>1, <2>2 DEF Agrees, Alone
<1>2. CASE p # q
  <2>1. Agrees(p, t)
    BY <1>2 DEF BootRead, IInv, TypeOK, AgreeInv
  <2>2. \A r \in Requests : InFlightFor(r, t)' <=> InFlightFor(r, t)
    BY DEF BootRead, InFlightFor, InFlight, requests
  <2>3. phase'[p] = phase[p] /\ found'[p] = found[p]
    BY <1>2 DEF BootRead, IInv, TypeOK
  <2> QED BY <2>1, <2>2, <2>3, Untouched DEF BootRead, requests
<1> QED BY <1>1, <1>2

LEMMA BootScheduleStep ==
  ASSUME IInv, NEW q \in Processes, BootSchedule(q)
  PROVE  AgreeInv'
<1> SUFFICES ASSUME NEW p \in Processes, NEW t \in Triggers, phase'[p] # "down", t \notin upset'[p]
             PROVE Agrees(p, t)'
  BY DEF AgreeInv
<1>1. Agrees(p, t)
  BY DEF BootSchedule, IInv, TypeOK, AgreeInv
<1>2. \A r \in Requests : InFlightFor(r, t)' <=> InFlightFor(r, t)
  BY DEF BootSchedule, InFlightFor, InFlight, requests
<1>3. CASE p = q
  <2>1. \A r \in Requests : ~InFlightFor(r, t)
    BY <1>1, <1>3 DEF BootSchedule, IInv, HandledInv, Agrees, Alone, InFlightFor
  <2>2. t \in found[p] <=> row[t] = "active"
    BY <1>1, <1>3 DEF BootSchedule, Agrees
  <2>3. Match(p, t)'
    BY <1>3, <2>2 DEF BootSchedule, IInv, TypeOK, Match, Runs, Rests
  <2>4. phase'[p] = "up"
    BY <1>3 DEF BootSchedule, IInv, TypeOK
  <2> QED BY <1>2, <2>1, <2>3, <2>4 DEF Agrees, Alone
<1>4. CASE p # q
  <2>1. /\ phase'[p] = phase[p] /\ found'[p] = found[p]
        /\ tasks'[p] = tasks[p] /\ mapped'[p] = mapped[p]
    BY <1>4 DEF BootSchedule, IInv, TypeOK
  <2> QED BY <1>1, <1>2, <2>1, Untouched DEF BootSchedule, requests
<1> QED BY <1>3, <1>4

\* The requests that end with a process are those it handles.
LEMMA RestartStep ==
  ASSUME IInv, NEW q \in Processes, Restart(q)
  PROVE  AgreeInv'
<1> SUFFICES ASSUME NEW p \in Processes, NEW t \in Triggers, phase'[p] # "down", t \notin upset'[p]
             PROVE Agrees(p, t)'
  BY DEF AgreeInv
<1>1. p # q
  BY DEF Restart, IInv, TypeOK
<1>2. /\ phase'[p] = phase[p] /\ found'[p] = found[p]
      /\ tasks'[p] = tasks[p] /\ mapped'[p] = mapped[p]
  BY <1>1 DEF Restart, IInv, TypeOK
<1>3. Agrees(p, t)
  BY <1>2 DEF Restart, IInv, AgreeInv
<1>4. \A r \in Requests : InFlightFor(r, t) => pc'[r] = pc[r]
  BY <1>1, <1>3 DEF Restart, Agrees, Alone
<1>5. \A r \in Requests : InFlightFor(r, t)' <=> InFlightFor(r, t)
  BY <1>4 DEF Restart, InFlightFor, InFlight
<1> QED BY <1>2, <1>3, <1>4, <1>5, Untouched DEF Restart

\* The cascade changes rows that exist, which every process then loses track of.
LEMMA RemoveStep ==
  ASSUME IInv, RemoveWorkflow
  PROVE  AgreeInv'
<1> SUFFICES ASSUME NEW p \in Processes, NEW t \in Triggers, phase[p] # "down", t \notin upset'[p]
             PROVE Agrees(p, t)'
  BY DEF AgreeInv, RemoveWorkflow, memory
<1>1. t \notin upset[p] /\ row'[t] = row[t]
  BY DEF RemoveWorkflow, IInv, TypeOK
<1>2. Agrees(p, t)
  BY <1>1 DEF IInv, AgreeInv
<1>3. \A r \in Requests : InFlightFor(r, t)' <=> InFlightFor(r, t)
  BY DEF RemoveWorkflow, InFlightFor, InFlight, requests
<1> QED BY <1>1, <1>2, <1>3, Untouched DEF RemoveWorkflow, memory, requests

-----------------------------------------------------------------------------
\* What a request in flight may rely on in the process that handles it.
LEMMA Here ==
  ASSUME IInv, NEW r \in Requests, InFlight(r)
  PROVE  /\ at[r] \in Processes /\ of[r] \in Triggers
         /\ of[r] \notin upset[at[r]] => Progress(r, at[r], of[r])
<1>1. at[r] \in Processes /\ of[r] \in Triggers /\ phase[at[r]] = "up"
  BY DEF IInv, HandledInv
<1>2. ASSUME of[r] \notin upset[at[r]] PROVE Agrees(at[r], of[r])
  BY <1>1, <1>2 DEF IInv, AgreeInv
<1> QED BY <1>1, <1>2 DEF Agrees, InFlightFor

\* The steps of a request that arrives.
LEMMA ArrivalStep ==
  ASSUME IInv, NEW r \in Requests, NEW p \in Processes, NEW t \in Triggers,
         Create(r, p, t) \/ ToggleRead(r, p, t) \/ DeleteRead(r, p, t)
  PROVE  AgreeInv'
<1> USE DEF Match, Runs, Rests, Progress
<1>1. CASE Create(r, p, t)
  <2>1. Match(p, t) => Progress(r, p, t)'
    BY <1>1 DEF Create, Begin, Goto, IInv, TypeOK, memory
  <2> QED BY <1>1, <2>1, Begins DEF Create, IInv, TypeOK, RequestPcs
<1>2. CASE ToggleRead(r, p, t)
  <2>1. Match(p, t) => Progress(r, p, t)'
    <3>1. pc'[r] = "toggle" /\ (wasActive'[r] <=> row'[t] = "active")
      BY <1>2 DEF ToggleRead, Begin, Goto, IInv, TypeOK
    <3>2. Match(p, t) <=> Match(p, t)'
      BY <1>2 DEF ToggleRead, memory
    <3> QED BY <3>1, <3>2
  <2> QED BY <1>2, <2>1, Begins DEF ToggleRead, IInv, TypeOK, RequestPcs
<1>3. CASE DeleteRead(r, p, t)
  <2>1. Match(p, t) => Progress(r, p, t)'
    BY <1>3 DEF DeleteRead, Begin, Goto, IInv, TypeOK, memory
  <2> QED BY <1>3, <2>1, Begins DEF DeleteRead, IInv, TypeOK, RequestPcs
<1> QED BY <1>1, <1>2, <1>3

\* The steps of a request that changes the row, or nothing yet.
LEMMA RowStep ==
  ASSUME IInv, NEW r \in Requests,
         ToggleWrite(r) \/ ToggleOwner(r) \/ DeleteRow(r) \/ CallFails(r)
  PROVE  AgreeInv'
<1> USE DEF Match, Runs, Rests, Progress
<1>1. InFlight(r)
  BY DEF ToggleWrite, ToggleOwner, DeleteRow, CallFails, InFlight
<1>2. /\ at[r] \in Processes /\ of[r] \in Triggers
      /\ of[r] \notin upset[at[r]] => Progress(r, at[r], of[r])
  BY <1>1, Here
<1>3. CASE ToggleWrite(r)
  <2>1. pc[r] = "toggle" /\ UNCHANGED <<memory, at, of, wasActive, upset>>
    BY <1>3 DEF ToggleWrite
  <2>2. CASE ~Exists(of[r])
    <3>1. Goto(r, "done") /\ UNCHANGED row
      BY <1>3, <2>2 DEF ToggleWrite
    <3> QED BY <1>1, <1>2, <2>1, <3>1, Moves DEF IInv, RequestPcs, memory
  <2>3. CASE Exists(of[r]) /\ wasActive[r]
    <3>1. Goto(r, "stop") /\ row' = [row EXCEPT ![of[r]] = "inactive"]
      BY <1>3, <2>3 DEF ToggleWrite
    <3>2. of[r] \notin upset'[at[r]] => Progress(r, at[r], of[r])'
      BY <1>2, <2>1, <2>3, <3>1 DEF Goto, IInv, TypeOK, memory
    <3> QED BY <1>1, <1>2, <2>1, <3>1, <3>2, Moves DEF IInv, TypeOK, RequestPcs, memory
  <2>4. CASE Exists(of[r]) /\ ~wasActive[r]
    <3>1. Goto(r, "owner") /\ row' = [row EXCEPT ![of[r]] = "active"]
      BY <1>3, <2>4 DEF ToggleWrite
    <3>2. of[r] \notin upset'[at[r]] => Progress(r, at[r], of[r])'
      BY <1>2, <2>1, <2>4, <3>1 DEF Goto, IInv, TypeOK, memory
    <3> QED BY <1>1, <1>2, <2>1, <3>1, <3>2, Moves DEF IInv, TypeOK, RequestPcs, memory
  <2> QED BY <2>2, <2>3, <2>4
<1>4. CASE ToggleOwner(r)
  <2>1. pc[r] = "owner" /\ UNCHANGED <<row, memory, at, of, wasActive, upset>>
    BY <1>4 DEF ToggleOwner
  <2>2. CASE workflow
    <3>1. Goto(r, "schedule")
      BY <1>4, <2>2 DEF ToggleOwner
    <3>2. of[r] \notin upset'[at[r]] => Progress(r, at[r], of[r])'
      BY <1>2, <2>1, <3>1 DEF Goto, IInv, TypeOK, memory
    <3> QED BY <1>1, <1>2, <2>1, <3>1, <3>2, Moves DEF IInv, RequestPcs, memory
  <2>3. CASE ~workflow
    <3>1. Goto(r, "done")
      BY <1>4, <2>3 DEF ToggleOwner
    <3>2. of[r] \in upset[at[r]]
      BY <1>2, <2>1, <2>3 DEF IInv, CascadeInv, Exists
    <3> QED BY <1>1, <1>2, <2>1, <3>1, <3>2, Moves DEF IInv, RequestPcs, memory
  <2> QED BY <2>2, <2>3
<1>5. CASE DeleteRow(r)
  <2>1. /\ pc[r] = "delete" /\ Goto(r, "done") /\ row' = [row EXCEPT ![of[r]] = "deleted"]
        /\ UNCHANGED <<memory, at, of, wasActive, upset>>
    BY <1>5 DEF DeleteRow
  <2>2. of[r] \notin upset'[at[r]] => Match(at[r], of[r])'
    BY <1>2, <2>1 DEF IInv, TypeOK, memory
  <2> QED BY <1>1, <1>2, <2>1, <2>2, Moves DEF IInv, TypeOK, RequestPcs, memory
<1>6. CASE CallFails(r)
  <2>1. Goto(r, "done") /\ UNCHANGED <<row, memory, at, of, wasActive>>
    BY <1>6 DEF CallFails
  <2>2. \A p \in Processes : upset[p] \subseteq upset'[p]
    BY <1>6 DEF CallFails, IInv, TypeOK
  <2>3. of[r] \notin upset'[at[r]] => Match(at[r], of[r])'
    <3>1. CASE pc[r] = "toggle"
      BY <1>2, <1>6, <2>1, <3>1 DEF CallFails, memory
    <3>2. CASE pc[r] # "toggle"
      BY <1>2, <1>6, <3>2 DEF CallFails, IInv, TypeOK
    <3> QED BY <3>1, <3>2
  <2> QED BY <1>1, <1>2, <2>1, <2>2, <2>3, Moves DEF IInv, RequestPcs, memory
<1> QED BY <1>3, <1>4, <1>5, <1>6

\* The steps of a request that starts or stops a task.
LEMMA TaskStep ==
  ASSUME IInv, NEW r \in Requests, ScheduleTask(r) \/ ToggleStop(r) \/ DeleteStop(r)
  PROVE  AgreeInv'
<1> USE DEF Match, Runs, Rests, Progress
<1>1. InFlight(r)
  BY DEF ScheduleTask, ToggleStop, DeleteStop, InFlight
<1>2. /\ at[r] \in Processes /\ of[r] \in Triggers
      /\ of[r] \notin upset[at[r]] => Progress(r, at[r], of[r])
  BY <1>1, Here
<1>3. CASE ScheduleTask(r)
  <2>1. /\ pc[r] = "schedule" /\ Goto(r, "done") /\ Schedule(at[r], of[r])
        /\ UNCHANGED <<row, phase, found, at, of, wasActive, upset>>
    BY <1>3 DEF ScheduleTask
  <2>2. of[r] \notin upset'[at[r]] => Match(at[r], of[r])'
    BY <1>2, <2>1 DEF Schedule, IInv, TypeOK
  <2>3. \A p \in Processes, t \in Triggers : p # at[r] \/ t # of[r] =>
          tasks'[p][t] = tasks[p][t] /\ (t \in mapped'[p] <=> t \in mapped[p])
    BY <1>2, <2>1 DEF Schedule, IInv, TypeOK
  <2> QED BY <1>1, <1>2, <2>1, <2>2, <2>3, Moves DEF IInv, RequestPcs
<1>4. CASE ToggleStop(r)
  <2>1. /\ pc[r] = "stop" /\ Goto(r, "done") /\ Stop(at[r], of[r])
        /\ UNCHANGED <<row, phase, found, at, of, wasActive, upset>>
    BY <1>4 DEF ToggleStop
  <2>2. of[r] \notin upset'[at[r]] => Match(at[r], of[r])'
    BY <1>2, <2>1 DEF Stop, IInv, TypeOK
  <2>3. \A p \in Processes, t \in Triggers : p # at[r] \/ t # of[r] =>
          tasks'[p][t] = tasks[p][t] /\ (t \in mapped'[p] <=> t \in mapped[p])
    BY <1>2, <2>1 DEF Stop, IInv, TypeOK
  <2> QED BY <1>1, <1>2, <2>1, <2>2, <2>3, Moves DEF IInv, RequestPcs
<1>5. CASE DeleteStop(r)
  <2>1. /\ pc[r] = "unschedule" /\ Goto(r, "delete") /\ Stop(at[r], of[r])
        /\ UNCHANGED <<row, phase, found, at, of, wasActive, upset>>
    BY <1>5 DEF DeleteStop
  <2>2. of[r] \notin upset'[at[r]] => Progress(r, at[r], of[r])'
    BY <1>2, <2>1 DEF Stop, Goto, IInv, TypeOK
  <2>3. \A p \in Processes, t \in Triggers : p # at[r] \/ t # of[r] =>
          tasks'[p][t] = tasks[p][t] /\ (t \in mapped'[p] <=> t \in mapped[p])
    BY <1>2, <2>1 DEF Stop, IInv, TypeOK
  <2> QED BY <1>1, <1>2, <2>1, <2>2, <2>3, Moves DEF IInv, RequestPcs
<1> QED BY <1>3, <1>4, <1>5

-----------------------------------------------------------------------------
LEMMA Step == IInv /\ [Next]_vars => IInv'
<1> SUFFICES ASSUME IInv, [Next]_vars PROVE IInv'
  OBVIOUS
<1>1. Sound'
  BY SoundStep DEF IInv, Sound
<1>2. AgreeInv'
  <2>1. CASE UNCHANGED vars
    <3>1. \A r \in Requests, t \in Triggers : InFlightFor(r, t)' <=> InFlightFor(r, t)
      BY <2>1 DEF vars, requests, InFlightFor, InFlight
    <3> QED BY <2>1, <3>1, Untouched DEF vars, memory, requests, IInv, AgreeInv
  <2> QED BY <2>1, BootReadStep, BootScheduleStep, RestartStep, RemoveStep, ArrivalStep,
             RowStep, TaskStep DEF Next
<1> QED BY <1>1, <1>2 DEF IInv, Sound

LEMMA Invariant == Spec => []IInv
<1>1. Init => IInv
  <2>1. Init => AgreeInv
    BY DEF Init, AgreeInv
  <2> QED BY <2>1, InitSound DEF IInv, Sound
<1> QED BY <1>1, Step, PTL DEF Spec

\* TasksMatchRows, for any number of processes, triggers and requests, however
\* often processes restart: requests for a trigger that come one after the
\* other leave one task if its row is active and none if it is not.
THEOREM TasksFollowRows == Spec => []TasksMatchRows
<1>1. IInv => TasksMatchRows
  BY DEF IInv, AgreeInv, Agrees, TasksMatchRows, Settled, Match, Runs, Rests, InFlightFor
<1> QED BY Invariant, <1>1, PTL

=============================================================================
