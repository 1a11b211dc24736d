----------------------------- MODULE HealthCache -----------------------------
(***************************************************************************)
(* The health metrics of one tenant (health.service.ts): a cache of 60 s   *)
(* in Redis, a lock of 10 s that lets one request at a time fill it, and   *)
(* the handlers that write the end of an execution and then delete the     *)
(* cached value (execution.processor.ts, execution.service.ts,             *)
(* workflow.service.ts).                                                   *)
(*                                                                         *)
(* Metrics are abstracted to the number of terminal writes they count.     *)
(* There is no clock: a key with an expiry may expire at any moment, and a *)
(* waiter may reach its deadline after any of its polls.                   *)
(***************************************************************************)
EXTENDS Naturals, FiniteSets

CONSTANTS
  Callers,      \* requests for the metrics that can be under way together
  Writers,      \* handlers that end, cancel or delete an execution
  Free,         \* no request holds the lock
  Empty,        \* no value is cached
  MaxPolls,     \* bound on LOCK_TIMEOUT_MS / LOCK_POLL_MS
  MaxOverruns,  \* bound on locks that expire under a computation
  MaxFaults     \* bound on failed calls and crashes

ASSUME CacheAssumption ==
  /\ IsFiniteSet(Callers) /\ IsFiniteSet(Writers)
  /\ Free \notin Callers
  /\ Empty \notin Nat
  /\ MaxPolls \in Nat /\ MaxOverruns \in Nat /\ MaxFaults \in Nat

VARIABLES
  version,   \* terminal writes the database has seen
  cache,     \* health:metrics:<tenant>
  lock,      \* health:lock:<tenant>; Redis keeps '1', here who has set it
  pc,        \* where each request is in getMetrics and waitForCache
  value,     \* the metrics it has computed
  polls,     \* turns of its polling loop
  wpc,       \* where each writer is
  overruns,  \* history: locks that expired under a computation
  raced,     \* history: the cached value was out of date when it was stored
  missed,    \* history: a writer did not get to its del
  faults

redisVars  == <<cache, lock>>
callerVars == <<pc, value, polls>>
writerVars == <<version, wpc>>
noteVars   == <<overruns, raced, missed, faults>>
vars == <<redisVars, callerVars, writerVars, noteVars>>

CallerPcs == {"idle", "get", "lock", "compute", "store", "unlock",
              "poll", "exists", "relock", "direct"}

\* Requests inside try ... finally, which compute, store and then delete the lock.
Filling == {c \in Callers : pc[c] \in {"compute", "store", "unlock"}}

Init ==
  /\ version = 0
  /\ cache = Empty
  /\ lock = Free
  /\ pc = [c \in Callers |-> "idle"]
  /\ value = [c \in Callers |-> 0]
  /\ polls = [c \in Callers |-> 0]
  /\ wpc = [w \in Writers |-> "write"]
  /\ overruns = 0
  /\ raced = FALSE
  /\ missed = FALSE
  /\ faults = 0

Fault == faults < MaxFaults /\ faults' = faults + 1

-----------------------------------------------------------------------------
(* getMetrics.                                                              *)

Goto(c, l) == pc' = [pc EXCEPT ![c] = l]

Return(c) ==
  /\ Goto(c, "idle")
  /\ value' = [value EXCEPT ![c] = 0]
  /\ polls' = [polls EXCEPT ![c] = 0]

Arrive(c) ==
  /\ pc[c] = "idle"
  /\ Goto(c, "get")
  /\ UNCHANGED <<redisVars, value, polls, writerVars, noteVars>>

Get(c) ==
  /\ pc[c] = "get"
  /\ IF cache # Empty THEN Return(c) ELSE Goto(c, "lock") /\ UNCHANGED <<value, polls>>
  /\ UNCHANGED <<redisVars, writerVars, noteVars>>

\* Seeded bug: SET without NX.
TakeUnconditionally(c, other) ==
  lock' = c /\ Goto(c, "compute")

\* SET NX: the lock, or the way of a request that did not get it.
Take(c, other) ==
  \/ lock = Free /\ lock' = c /\ Goto(c, "compute")
  \/ lock # Free /\ UNCHANGED lock /\ Goto(c, other)

Lock(c) ==
  /\ pc[c] = "lock"
  /\ Take(c, "poll")
  /\ UNCHANGED <<cache, value, polls, writerVars, noteVars>>

\* computeMetrics: three queries side by side.  value is what the first of them
\* to be answered has seen; the others may have seen more.
Compute(c) ==
  /\ pc[c] = "compute"
  /\ value' = [value EXCEPT ![c] = version]
  /\ Goto(c, "store")
  /\ UNCHANGED <<redisVars, polls, writerVars, noteVars>>

Store(c) ==
  /\ pc[c] = "store"
  /\ cache' = value[c]
  /\ raced' = (value[c] # version)
  /\ Goto(c, "unlock")
  /\ UNCHANGED <<lock, value, polls, writerVars, overruns, missed, faults>>

\* The del of the finally block, whoever's lock it is by now.
Unlock(c) ==
  /\ pc[c] = "unlock"
  /\ lock' = Free
  /\ Return(c)
  /\ UNCHANGED <<cache, writerVars, noteVars>>

-----------------------------------------------------------------------------
(* waitForCache.                                                            *)

Poll(c) ==
  /\ pc[c] = "poll" /\ polls[c] < MaxPolls
  /\ IF cache # Empty
       THEN Return(c)
       ELSE /\ Goto(c, "exists")
            /\ polls' = [polls EXCEPT ![c] = @ + 1]
            /\ UNCHANGED value
  /\ UNCHANGED <<redisVars, writerVars, noteVars>>

LockExists(c) ==
  /\ pc[c] = "exists"
  /\ Goto(c, IF lock = Free THEN "relock" ELSE "poll")
  /\ UNCHANGED <<redisVars, value, polls, writerVars, noteVars>>

Relock(c) ==
  /\ pc[c] = "relock"
  /\ Take(c, "poll")
  /\ UNCHANGED <<cache, value, polls, writerVars, noteVars>>

\* The deadline: compute without the lock and leave the cache alone.
GiveUp(c) ==
  /\ pc[c] = "poll" /\ polls[c] > 0
  /\ Goto(c, "direct")
  /\ UNCHANGED <<redisVars, value, polls, writerVars, noteVars>>

Direct(c) ==
  /\ pc[c] = "direct"
  /\ Return(c)
  /\ UNCHANGED <<redisVars, writerVars, noteVars>>

\* A call rejects.  In try ... finally the lock is still deleted.
Throw(c) ==
  /\ pc[c] # "idle"
  /\ Fault
  /\ IF pc[c] \in {"compute", "store"}
       THEN Goto(c, "unlock") /\ UNCHANGED <<value, polls>>
       ELSE Return(c)
  /\ UNCHANGED <<redisVars, writerVars, overruns, raced, missed>>

\* The process dies: a lock it holds stays until it expires.
Crash(c) ==
  /\ pc[c] \in {"compute", "store", "unlock"}
  /\ Fault
  /\ Return(c)
  /\ UNCHANGED <<redisVars, writerVars, overruns, raced, missed>>

-----------------------------------------------------------------------------
(* Redis: SETEX and SET EX.                                                 *)

\* Seeded bug: the metrics are cached with SET instead of SETEX.
CacheNeverExpires == FALSE /\ UNCHANGED vars

CacheExpires ==
  /\ cache # Empty
  /\ cache' = Empty
  /\ raced' = FALSE
  /\ UNCHANGED <<lock, callerVars, writerVars, overruns, missed, faults>>

\* The request that set the lock has gone without deleting it.
Orphaned == lock # Free /\ lock \notin Filling

\* Seeded bug: the lock is set without EX.
OrphanNeverExpires == FALSE /\ UNCHANGED vars

OrphanExpires ==
  /\ Orphaned
  /\ lock' = Free
  /\ UNCHANGED <<cache, callerVars, writerVars, noteVars>>

\* The computation takes longer than LOCK_TTL_SECONDS.
LockExpires ==
  /\ lock \in Filling
  /\ overruns < MaxOverruns
  /\ overruns' = overruns + 1
  /\ lock' = Free
  /\ UNCHANGED <<cache, callerVars, writerVars, raced, missed, faults>>

-----------------------------------------------------------------------------
(* The writers: a terminal status, then del health:metrics.                 *)

\* Seeded bug: the handler returns without the del.
WriteWithoutDel(w) ==
  /\ wpc[w] = "write"
  /\ version' = version + 1
  /\ wpc' = [wpc EXCEPT ![w] = "done"]
  /\ UNCHANGED <<redisVars, callerVars, noteVars>>

Write(w) ==
  /\ wpc[w] = "write"
  /\ version' = version + 1
  /\ wpc' = [wpc EXCEPT ![w] = "del"]
  /\ UNCHANGED <<redisVars, callerVars, noteVars>>

Del(w) ==
  /\ wpc[w] = "del"
  /\ cache' = Empty
  /\ raced' = FALSE
  /\ wpc' = [wpc EXCEPT ![w] = "done"]
  /\ UNCHANGED <<version, lock, callerVars, overruns, missed, faults>>

\* The del rejects, or the process dies before it.
DelFails(w) ==
  /\ wpc[w] = "del"
  /\ Fault
  /\ missed' = TRUE
  /\ wpc' = [wpc EXCEPT ![w] = "done"]
  /\ UNCHANGED <<version, redisVars, callerVars, overruns, raced>>

-----------------------------------------------------------------------------
CallerStep(c) ==
  \/ Get(c) \/ Lock(c) \/ Compute(c) \/ Store(c) \/ Unlock(c)
  \/ Poll(c) \/ LockExists(c) \/ Relock(c) \/ GiveUp(c) \/ Direct(c)

Next ==
  \/ \E c \in Callers : Arrive(c) \/ CallerStep(c) \/ Throw(c) \/ Crash(c)
  \/ CacheExpires \/ OrphanExpires \/ LockExpires
  \/ \E w \in Writers : Write(w) \/ Del(w) \/ DelFails(w)

\* A request that is under way goes on and keys expire.  No request has to
\* arrive, no writer has to write.
Fairness ==
  /\ \A c \in Callers : WF_vars(CallerStep(c))
  /\ WF_vars(CacheExpires) /\ WF_vars(OrphanExpires)
  /\ \A w \in Writers : WF_vars(Del(w))

Spec == Init /\ [][Next]_vars
FairSpec == Spec /\ Fairness

-----------------------------------------------------------------------------
TypeOK ==
  /\ version \in Nat
  /\ cache \in Nat \cup {Empty}
  /\ cache # Empty => cache <= version
  /\ lock \in Callers \cup {Free}
  /\ pc \in [Callers -> CallerPcs]
  /\ value \in [Callers -> Nat]
  /\ \A c \in Callers : value[c] <= version
  /\ polls \in [Callers -> 0 .. MaxPolls]
  /\ wpc \in [Writers -> {"write", "del", "done"}]
  /\ overruns \in 0 .. MaxOverruns
  /\ raced \in BOOLEAN /\ missed \in BOOLEAN
  /\ faults \in 0 .. MaxFaults

\* The lock keeps requests from filling the cache together: those that compute
\* in order to store are as many as locks have expired under a computation, and
\* one.  The finally block deletes the locks of others, but every such theft
\* needs a computation of its own to end, so they do not add up.  This says
\* nothing of the requests at direct, which have waited until their deadline:
\* they compute without the lock, any number of them, and store nothing.
FillersBounded == Cardinality(Filling) <= overruns + 1

\* A cached value that lacks a terminal status is about to be dropped, or it
\* was computed before the write and stored after it, or a del was missed:
\* there is no fourth way for the metrics to be out of date.
StaleExplained ==
  cache \notin {Empty, version} =>
    raced \/ missed \/ \E w \in Writers : wpc[w] = "del"

\* As long as metrics are asked for, they get cached: a request that dies with
\* the lock in its hands does not leave every later one to compute on its own.
CacheRecovers == ([]<>(\E c \in Callers : pc[c] = "get")) => []<>(cache # Empty)

\* After the last write the cache comes to be up to date, lost races and
\* missed dels included.
CacheConverges == <>[](cache \in {Empty, version})

=============================================================================
