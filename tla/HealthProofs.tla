----------------------------- MODULE HealthProofs -----------------------------
(***************************************************************************)
(* Proofs about the two halves of health.service.ts: HealthCache, for every*)
(* finite set of requests and writers and every bound on polls, overruns   *)
(* and faults; and HealthMetrics, for every finite set of executions, every*)
(* length of a day and every time.                                         *)
(***************************************************************************)
EXTENDS HealthCache, HealthMetrics, FiniteSetTheorems, TLAPS

-----------------------------------------------------------------------------
(* HealthCache: type correctness.                                           *)

LEMMA TypeInit == Init => TypeOK
<1> SUFFICES ASSUME Init PROVE TypeOK
  OBVIOUS
<1> USE CacheAssumption DEF CacheAssumption, Init
<1>1. raced \in BOOLEAN /\ missed \in BOOLEAN
  BY Zenon
<1> QED
  BY <1>1 DEF TypeOK, CallerPcs

LEMMA TypeStep == TypeOK /\ [Next]_vars => TypeOK'
<1> SUFFICES ASSUME TypeOK, [Next]_vars PROVE TypeOK'
  OBVIOUS
<1> USE CacheAssumption
    DEF CacheAssumption, TypeOK, CallerPcs, redisVars, callerVars, writerVars, noteVars
<1>1. ASSUME NEW c \in Callers, Arrive(c) PROVE TypeOK'
  BY <1>1 DEF Arrive, Goto
<1>2. ASSUME NEW c \in Callers, Get(c) PROVE TypeOK'
  BY <1>2 DEF Get, Return, Goto
<1>3. ASSUME NEW c \in Callers, Lock(c) PROVE TypeOK'
  BY <1>3 DEF Lock, Take, Goto
<1>4. ASSUME NEW c \in Callers, Compute(c) PROVE TypeOK'
  BY <1>4 DEF Compute, Goto
<1>5. ASSUME NEW c \in Callers, Store(c) PROVE TypeOK'
  BY <1>5 DEF Store, Goto
<1>6. ASSUME NEW c \in Callers, Unlock(c) PROVE TypeOK'
  BY <1>6 DEF Unlock, Return, Goto
<1>7. ASSUME NEW c \in Callers, Poll(c) PROVE TypeOK'
  BY <1>7 DEF Poll, Return, Goto
<1>8. ASSUME NEW c \in Callers, LockExists(c) PROVE TypeOK'
  BY <1>8 DEF LockExists, Goto
<1>9. ASSUME NEW c \in Callers, Relock(c) PROVE TypeOK'
  BY <1>9 DEF Relock, Take, Goto
<1>10. ASSUME NEW c \in Callers, GiveUp(c) PROVE TypeOK'
  BY <1>10 DEF GiveUp, Goto
<1>11. ASSUME NEW c \in Callers, Direct(c) PROVE TypeOK'
  BY <1>11 DEF Direct, Return, Goto
<1>12. ASSUME NEW c \in Callers, Throw(c) PROVE TypeOK'
  BY <1>12 DEF Throw, Return, Goto, Fault
<1>13. ASSUME NEW c \in Callers, Crash(c) PROVE TypeOK'
  BY <1>13 DEF Crash, Return, Goto, Fault
<1>14. ASSUME CacheExpires PROVE TypeOK'
  BY <1>14 DEF CacheExpires
<1>15. ASSUME OrphanExpires PROVE TypeOK'
  BY <1>15 DEF OrphanExpires, Orphaned
<1>16. ASSUME LockExpires PROVE TypeOK'
  BY <1>16 DEF LockExpires, Filling
<1>17. ASSUME NEW w \in Writers, Write(w) PROVE TypeOK'
  BY <1>17 DEF Write
<1>18. ASSUME NEW w \in Writers, Del(w) PROVE TypeOK'
  BY <1>18 DEF Del
<1>19. ASSUME NEW w \in Writers, DelFails(w) PROVE TypeOK'
  BY <1>19 DEF DelFails, Fault
<1>20. CASE UNCHANGED vars
  BY <1>20 DEF vars
<1> QED
  BY <1>1, <1>2, <1>3, <1>4, <1>5, <1>6, <1>7, <1>8, <1>9, <1>10, <1>11, <1>12,
     <1>13, <1>14, <1>15, <1>16, <1>17, <1>18, <1>19, <1>20
  DEF Next, CallerStep

\* Every variable keeps to its type, and neither the cache nor a request ever
\* has metrics of writes that the database has not seen.
THEOREM TypeCorrect == Spec => []TypeOK
  BY TypeInit, TypeStep, PTL DEF Spec

-----------------------------------------------------------------------------
(* The requests that fill the cache.                                        *)

LEMMA FillingFinite == IsFiniteSet(Filling) /\ Cardinality(Filling) \in Nat
<1>1. Filling \in SUBSET Callers
  BY DEF Filling
<1> QED
  BY <1>1, CacheAssumption, FS_Subset, FS_CardinalityType DEF CacheAssumption

\* How many requests fill the cache while nobody, or somebody, of them holds
\* the lock.  FillersBounded alone is not inductive: it does not say that a free
\* lock leaves room for one more.
FillersInv ==
  /\ lock \in Filling => Cardinality(Filling) <= overruns + 1
  /\ lock \notin Filling => Cardinality(Filling) <= overruns

LEMMA FillersInit == Init => FillersInv
<1> SUFFICES ASSUME Init PROVE FillersInv
  OBVIOUS
<1>1. Filling = {}
  BY DEF Init, Filling
<1> QED
  BY <1>1, FS_EmptySet DEF Init, FillersInv

\* Nothing that the bound depends on changes.
LEMMA FillersSame ==
  ASSUME FillersInv, Filling' = Filling, lock' = lock, overruns' = overruns
  PROVE  FillersInv'
  BY DEF FillersInv

\* A request takes the lock, or goes another way.
LEMMA FillersTake ==
  ASSUME TypeOK, FillersInv, NEW c \in Callers, NEW other \in {"poll"}, Take(c, other),
         pc[c] \in {"lock", "relock"}, UNCHANGED overruns
  PROVE  FillersInv'
<1> USE CacheAssumption DEF CacheAssumption, TypeOK, FillersInv, Take, Goto
<1>1. CASE lock = Free /\ lock' = c /\ pc' = [pc EXCEPT ![c] = "compute"]
  <2>1. lock \notin Filling /\ c \notin Filling
    BY <1>1 DEF Filling
  <2>2. Filling' = Filling \cup {c}
    BY <1>1 DEF Filling
  <2>3. Cardinality(Filling \cup {c}) = Cardinality(Filling) + 1
    BY <2>1, FillingFinite, FS_AddElement
  <2>4. lock' \in Filling'
    BY <1>1, <2>2
  <2>5. Cardinality(Filling') <= overruns + 1
    BY <2>1, <2>2, <2>3, FillingFinite
  <2> QED
    BY <2>4, <2>5
<1>2. CASE lock # Free /\ lock' = lock /\ pc' = [pc EXCEPT ![c] = other]
  <2>1. Filling' = Filling
    BY <1>2 DEF Filling
  <2> QED
    BY <1>2, <2>1
<1> QED
  BY <1>1, <1>2

\* A request stops filling the cache and leaves the lock, or deletes it.
LEMMA FillersLeave ==
  ASSUME TypeOK, FillersInv, NEW c \in Callers, c \in Filling, Return(c),
         UNCHANGED overruns, lock' \in {lock, Free}
  PROVE  FillersInv'
<1> USE CacheAssumption DEF CacheAssumption, TypeOK, FillersInv
<1>1. Filling' = Filling \ {c}
  BY DEF Filling, Return, Goto
<1>2. Cardinality(Filling \ {c}) = Cardinality(Filling) - 1
  BY FillingFinite, FS_RemoveElement
<1>3. Cardinality(Filling) <= overruns + 1
  BY FillingFinite
<1>4. Cardinality(Filling') \in Int /\ Cardinality(Filling') <= overruns
  BY <1>1, <1>2, <1>3, FillingFinite
<1>5. overruns' = overruns /\ overruns \in Nat
  OBVIOUS
<1> QED
  BY <1>4, <1>5

LEMMA FillersStep == TypeOK /\ FillersInv /\ [Next]_vars => FillersInv'
<1> SUFFICES ASSUME TypeOK, FillersInv, [Next]_vars PROVE FillersInv'
  OBVIOUS
<1> USE CacheAssumption
    DEF CacheAssumption, TypeOK, redisVars, callerVars, writerVars, noteVars
<1>1. ASSUME NEW c \in Callers, Arrive(c) PROVE FillersInv'
  <2>1. Filling' = Filling /\ lock' = lock /\ overruns' = overruns
    BY <1>1 DEF Arrive, Goto, Filling
  <2> QED
    BY <2>1, FillersSame
<1>2. ASSUME NEW c \in Callers, Get(c) PROVE FillersInv'
  <2>1. Filling' = Filling /\ lock' = lock /\ overruns' = overruns
    BY <1>2 DEF Get, Return, Goto, Filling
  <2> QED
    BY <2>1, FillersSame
<1>3. ASSUME NEW c \in Callers, Lock(c) PROVE FillersInv'
  BY <1>3, FillersTake DEF Lock
<1>4. ASSUME NEW c \in Callers, Compute(c) PROVE FillersInv'
  <2>1. Filling' = Filling /\ lock' = lock /\ overruns' = overruns
    BY <1>4 DEF Compute, Goto, Filling
  <2> QED
    BY <2>1, FillersSame
<1>5. ASSUME NEW c \in Callers, Store(c) PROVE FillersInv'
  <2>1. Filling' = Filling /\ lock' = lock /\ overruns' = overruns
    BY <1>5 DEF Store, Goto, Filling
  <2> QED
    BY <2>1, FillersSame
<1>6. ASSUME NEW c \in Callers, Unlock(c) PROVE FillersInv'
  BY <1>6, FillersLeave DEF Unlock, Filling
<1>7. ASSUME NEW c \in Callers, Poll(c) PROVE FillersInv'
  <2>1. Filling' = Filling /\ lock' = lock /\ overruns' = overruns
    BY <1>7 DEF Poll, Return, Goto, Filling
  <2> QED
    BY <2>1, FillersSame
<1>8. ASSUME NEW c \in Callers, LockExists(c) PROVE FillersInv'
  <2>1. Filling' = Filling /\ lock' = lock /\ overruns' = overruns
    BY <1>8 DEF LockExists, Goto, Filling
  <2> QED
    BY <2>1, FillersSame
<1>9. ASSUME NEW c \in Callers, Relock(c) PROVE FillersInv'
  BY <1>9, FillersTake DEF Relock
<1>10. ASSUME NEW c \in Callers, GiveUp(c) PROVE FillersInv'
  <2>1. Filling' = Filling /\ lock' = lock /\ overruns' = overruns
    BY <1>10 DEF GiveUp, Goto, Filling
  <2> QED
    BY <2>1, FillersSame
<1>11. ASSUME NEW c \in Callers, Direct(c) PROVE FillersInv'
  <2>1. Filling' = Filling /\ lock' = lock /\ overruns' = overruns
    BY <1>11 DEF Direct, Return, Goto, Filling
  <2> QED
    BY <2>1, FillersSame
<1>12. ASSUME NEW c \in Callers, Throw(c) PROVE FillersInv'
  <2>1. CASE pc[c] = "unlock"
    BY <1>12, <2>1, FillersLeave DEF Throw, Filling
  <2>2. CASE pc[c] # "unlock"
    <3>1. Filling' = Filling /\ lock' = lock /\ overruns' = overruns
      BY <1>12, <2>2 DEF Throw, Return, Goto, Filling
    <3> QED
      BY <3>1, FillersSame
  <2> QED
    BY <2>1, <2>2
<1>13. ASSUME NEW c \in Callers, Crash(c) PROVE FillersInv'
  BY <1>13, FillersLeave DEF Crash, Filling
<1>14. ASSUME CacheExpires PROVE FillersInv'
  <2>1. Filling' = Filling /\ lock' = lock /\ overruns' = overruns
    BY <1>14 DEF CacheExpires, Filling
  <2> QED
    BY <2>1, FillersSame
<1>15. ASSUME OrphanExpires PROVE FillersInv'
  <2>1. Filling' = Filling /\ overruns' = overruns /\ lock \notin Filling
    BY <1>15 DEF OrphanExpires, Orphaned, Filling
  <2>2. Free \notin Filling
    BY DEF Filling
  <2> QED
    BY <1>15, <2>1, <2>2 DEF OrphanExpires, FillersInv
<1>16. ASSUME LockExpires PROVE FillersInv'
  <2>1. Filling' = Filling /\ overruns' = overruns + 1 /\ lock \in Filling
    BY <1>16 DEF LockExpires, Filling
  <2>2. Free \notin Filling
    BY DEF Filling
  <2> QED
    BY <1>16, <2>1, <2>2, FillingFinite DEF LockExpires, FillersInv
<1>17. ASSUME NEW w \in Writers, Write(w) PROVE FillersInv'
  <2>1. Filling' = Filling /\ lock' = lock /\ overruns' = overruns
    BY <1>17 DEF Write, Filling
  <2> QED
    BY <2>1, FillersSame
<1>18. ASSUME NEW w \in Writers, Del(w) PROVE FillersInv'
  <2>1. Filling' = Filling /\ lock' = lock /\ overruns' = overruns
    BY <1>18 DEF Del, Filling
  <2> QED
    BY <2>1, FillersSame
<1>19. ASSUME NEW w \in Writers, DelFails(w) PROVE FillersInv'
  <2>1. Filling' = Filling /\ lock' = lock /\ overruns' = overruns
    BY <1>19 DEF DelFails, Fault, Filling
  <2> QED
    BY <2>1, FillersSame
<1>20. CASE UNCHANGED vars
  <2>1. Filling' = Filling /\ lock' = lock /\ overruns' = overruns
    BY <1>20 DEF vars, Filling
  <2> QED
    BY <2>1, FillersSame
<1> QED
  BY <1>1, <1>2, <1>3, <1>4, <1>5, <1>6, <1>7, <1>8, <1>9, <1>10, <1>11, <1>12,
     <1>13, <1>14, <1>15, <1>16, <1>17, <1>18, <1>19, <1>20
  DEF Next, CallerStep

\* As many requests compute the metrics to store them as locks have expired
\* under a computation, and one (health.service.ts:67-89, 106-126).  Those that
\* compute at line 133 without the lock are not counted.
THEOREM FillersAreBounded == Spec => []FillersBounded
<1>1. Init => TypeOK /\ FillersInv
  BY TypeInit, FillersInit
<1>2. TypeOK /\ FillersInv /\ [Next]_vars => (TypeOK /\ FillersInv)'
  BY TypeStep, FillersStep
<1>3. TypeOK /\ FillersInv => FillersBounded
  BY FillingFinite DEF TypeOK, FillersInv, FillersBounded
<1> QED
  BY <1>1, <1>2, <1>3, PTL DEF Spec

-----------------------------------------------------------------------------
(* Staleness.                                                               *)

LEMMA StaleInit == Init => StaleExplained
  BY DEF Init, StaleExplained

LEMMA StaleStep == TypeOK /\ StaleExplained /\ [Next]_vars => StaleExplained'
<1> SUFFICES ASSUME TypeOK, StaleExplained, [Next]_vars PROVE StaleExplained'
  OBVIOUS
<1> USE CacheAssumption
    DEF CacheAssumption, TypeOK, StaleExplained, redisVars, callerVars, writerVars,
        noteVars
<1>1. ASSUME NEW c \in Callers, Arrive(c) PROVE StaleExplained'
  BY <1>1 DEF Arrive, Goto
<1>2. ASSUME NEW c \in Callers, Get(c) PROVE StaleExplained'
  BY <1>2 DEF Get, Return, Goto
<1>3. ASSUME NEW c \in Callers, Lock(c) PROVE StaleExplained'
  BY <1>3 DEF Lock, Take, Goto
<1>4. ASSUME NEW c \in Callers, Compute(c) PROVE StaleExplained'
  BY <1>4 DEF Compute, Goto
<1>5. ASSUME NEW c \in Callers, Store(c) PROVE StaleExplained'
  BY <1>5 DEF Store, Goto
<1>6. ASSUME NEW c \in Callers, Unlock(c) PROVE StaleExplained'
  BY <1>6 DEF Unlock, Return, Goto
<1>7. ASSUME NEW c \in Callers, Poll(c) PROVE StaleExplained'
  BY <1>7 DEF Poll, Return, Goto
<1>8. ASSUME NEW c \in Callers, LockExists(c) PROVE StaleExplained'
  BY <1>8 DEF LockExists, Goto
<1>9. ASSUME NEW c \in Callers, Relock(c) PROVE StaleExplained'
  BY <1>9 DEF Relock, Take, Goto
<1>10. ASSUME NEW c \in Callers, GiveUp(c) PROVE StaleExplained'
  BY <1>10 DEF GiveUp, Goto
<1>11. ASSUME NEW c \in Callers, Direct(c) PROVE StaleExplained'
  BY <1>11 DEF Direct, Return, Goto
<1>12. ASSUME NEW c \in Callers, Throw(c) PROVE StaleExplained'
  BY <1>12 DEF Throw, Return, Goto, Fault
<1>13. ASSUME NEW c \in Callers, Crash(c) PROVE StaleExplained'
  BY <1>13 DEF Crash, Return, Goto, Fault
<1>14. ASSUME CacheExpires PROVE StaleExplained'
  BY <1>14 DEF CacheExpires
<1>15. ASSUME OrphanExpires PROVE StaleExplained'
  BY <1>15 DEF OrphanExpires, Orphaned
<1>16. ASSUME LockExpires PROVE StaleExplained'
  BY <1>16 DEF LockExpires, Filling
<1>17. ASSUME NEW w \in Writers, Write(w) PROVE StaleExplained'
  BY <1>17 DEF Write
<1>18. ASSUME NEW w \in Writers, Del(w) PROVE StaleExplained'
  BY <1>18 DEF Del
<1>19. ASSUME NEW w \in Writers, DelFails(w) PROVE StaleExplained'
  BY <1>19 DEF DelFails, Fault
<1>20. CASE UNCHANGED vars
  BY <1>20 DEF vars
<1> QED
  BY <1>1, <1>2, <1>3, <1>4, <1>5, <1>6, <1>7, <1>8, <1>9, <1>10, <1>11, <1>12,
     <1>13, <1>14, <1>15, <1>16, <1>17, <1>18, <1>19, <1>20
  DEF Next, CallerStep

\* Cached metrics are out of date only for one of the three reasons named
\* (health.service.ts:80-85, execution.processor.ts:111-143).
THEOREM StalenessIsExplained == Spec => []StaleExplained
  BY TypeInit, TypeStep, StaleInit, StaleStep, PTL DEF Spec

-----------------------------------------------------------------------------
(* The order of the values.                                                 *)

\* What is about to be stored is no older than what is there, as long as one
\* request at a time fills the cache.
ForwardInv ==
  overruns = 0 =>
    \A c \in Callers : pc[c] = "store" /\ cache # Empty => cache <= value[c]

LEMMA OneFills ==
  ASSUME TypeOK, FillersInv, overruns = 0, NEW c \in Filling, NEW d \in Filling
  PROVE  c = d
<1>1. IsFiniteSet(Filling) /\ Cardinality(Filling) \in Nat
  BY FillingFinite
<1>2. Cardinality(Filling) <= 1
  BY <1>1 DEF FillersInv
<1>3. /\ IsFiniteSet({c, d}) /\ Cardinality({c, d}) <= Cardinality(Filling)
  BY <1>1, FS_Subset
<1>4. c # d => Cardinality({c, d}) = 2
  <2> SUFFICES ASSUME c # d PROVE Cardinality({c, d}) = 2
    OBVIOUS
  <2>1. IsFiniteSet({c}) /\ Cardinality({c}) = 1
    BY FS_Singleton
  <2>2. Cardinality({c} \cup {d}) = Cardinality({c}) + 1
    BY <2>1, FS_AddElement
  <2>3. {c} \cup {d} = {c, d}
    OBVIOUS
  <2> QED
    BY <2>1, <2>2, <2>3
<1> QED
  BY <1>1, <1>2, <1>3, <1>4

LEMMA ForwardInit == Init => ForwardInv
  BY DEF Init, ForwardInv

\* Neither the cache nor what is about to be stored changes.
LEMMA ForwardSame ==
  ASSUME ForwardInv, cache' \in {cache, Empty}, overruns' = overruns,
         \A c \in Callers : pc'[c] = "store" => pc[c] = "store" /\ value'[c] = value[c]
  PROVE  ForwardInv'
  BY DEF ForwardInv

LEMMA ForwardStep == TypeOK /\ FillersInv /\ ForwardInv /\ [Next]_vars => ForwardInv'
<1> SUFFICES ASSUME TypeOK, FillersInv, ForwardInv, [Next]_vars PROVE ForwardInv'
  OBVIOUS
<1>0. /\ pc \in [Callers -> CallerPcs] /\ value \in [Callers -> Nat]
      /\ version \in Nat /\ overruns \in Nat
      /\ cache # Empty => cache \in Nat /\ cache <= version
  BY DEF TypeOK
<1>1. ASSUME NEW c \in Callers, Store(c) PROVE ForwardInv'
  <2>1. ASSUME overruns = 0, NEW d \in Callers PROVE pc'[d] # "store"
    <3>1. c \in Filling /\ pc'[c] = "unlock"
      BY <1>0, <1>1 DEF Store, Goto, Filling
    <3>2. d \in Filling => d = c
      BY <2>1, <3>1, OneFills
    <3>3. d # c => pc'[d] = pc[d]
      BY <1>0, <1>1 DEF Store, Goto
    <3> QED
      BY <3>1, <3>2, <3>3 DEF Filling
  <2> QED
    BY <1>1, <2>1 DEF ForwardInv, Store
<1>2. ASSUME NEW c \in Callers, Compute(c) PROVE ForwardInv'
  <2>1. /\ value'[c] = version /\ cache' = cache /\ overruns' = overruns
        /\ \A d \in Callers : d # c => pc'[d] = pc[d] /\ value'[d] = value[d]
    BY <1>0, <1>2 DEF Compute, Goto, redisVars, noteVars
  <2> QED
    BY <1>0, <2>1 DEF ForwardInv
<1>3. CASE LockExpires
  <2>1. overruns' # 0
    BY <1>0, <1>3 DEF LockExpires
  <2> QED
    BY <2>1 DEF ForwardInv
<1>4. ASSUME NEW c \in Callers,
             Arrive(c) \/ Get(c) \/ Lock(c) \/ Unlock(c) \/ Poll(c) \/ LockExists(c)
               \/ Relock(c) \/ GiveUp(c) \/ Direct(c) \/ Throw(c) \/ Crash(c)
      PROVE  ForwardInv'
  <2>1. cache' = cache /\ overruns' = overruns
    BY <1>4 DEF Arrive, Get, Lock, Unlock, Poll, LockExists, Relock, GiveUp, Direct, Throw,
                Crash, redisVars, noteVars
  <2>2. /\ pc'[c] # "store"
        /\ \A d \in Callers : d # c => pc'[d] = pc[d] /\ value'[d] = value[d]
    BY <1>0, <1>4 DEF Arrive, Get, Lock, Take, Unlock, Poll, LockExists, Relock, GiveUp, Direct,
                      Throw, Crash, Return, Goto
  <2> QED
    BY <2>1, <2>2, ForwardSame
<1>5. ASSUME NEW w \in Writers, Write(w) \/ Del(w) \/ DelFails(w) PROVE ForwardInv'
  BY <1>5, ForwardSame DEF Write, Del, DelFails, redisVars, callerVars, noteVars
<1>6. CASE CacheExpires \/ OrphanExpires \/ UNCHANGED vars
  BY <1>6, ForwardSame DEF CacheExpires, OrphanExpires, vars, redisVars, callerVars, noteVars
<1> QED
  BY <1>1, <1>2, <1>3, <1>4, <1>5, <1>6 DEF Next, CallerStep

\* A value of the cache is replaced by an older one only after a lock has
\* expired under its computation.
CacheGoesForward ==
  [][overruns = 0 /\ cache # Empty /\ cache' # Empty => cache <= cache']_vars

\* The lock is what keeps metrics that were computed earlier from being stored
\* over later ones (getMetrics and waitForCache of health.service.ts), crashes,
\* failed calls and the del of another request's lock included.
THEOREM CacheIsForward == Spec => CacheGoesForward
<1>1. TypeOK /\ ForwardInv /\ [Next]_vars =>
        [overruns = 0 /\ cache # Empty /\ cache' # Empty => cache <= cache']_vars
  <2> SUFFICES ASSUME TypeOK, ForwardInv, Next, overruns = 0, cache # Empty, cache' # Empty
               PROVE  cache <= cache'
    OBVIOUS
  <2>1. cache \in Nat
    BY DEF TypeOK
  <2>2. ASSUME NEW c \in Callers, Store(c) PROVE cache <= cache'
    BY <2>2 DEF Store, ForwardInv
  <2>3. CASE cache' \in {cache, Empty}
    BY <2>1, <2>3
  <2>4. (\E c \in Callers : Store(c)) \/ cache' \in {cache, Empty}
    BY DEF Next, CallerStep, Arrive, Get, Lock, Compute, Unlock, Poll, LockExists, Relock,
           GiveUp, Direct, Throw, Crash, CacheExpires, OrphanExpires, LockExpires,
           Write, Del, DelFails, redisVars
  <2> QED
    BY <2>2, <2>3, <2>4
<1> QED
  BY <1>1, TypeInit, TypeStep, FillersInit, FillersStep, ForwardInit, ForwardStep, PTL
  DEF Spec, CacheGoesForward

-----------------------------------------------------------------------------
(* Hours and their keys.                                                    *)

LEMMA HourIsNat == \A t \in Nat : HourOf(t) \in Nat
  BY MetricsAssumption DEF MetricsAssumption, HourOf

LEMMA HoursGrow ==
  ASSUME NEW t \in Nat, NEW u \in Nat, t <= u
  PROVE  HourOf(t) <= HourOf(u)
  BY MetricsAssumption DEF MetricsAssumption, HourOf

LEMMA KeyType == \A h \in Nat : Key(h) \in Keys
  BY MetricsAssumption DEF MetricsAssumption, Key, Keys

\* Two hours with one key are a day apart.
LEMMA KeysRepeat ==
  ASSUME NEW h \in Nat, NEW g \in Nat, h < g, Key(h) = Key(g)
  PROVE  h + Day <= g
<1> DEFINE p == h \div Day
           q == g \div Day
<1>0. Day \in Nat /\ Day > 0
  BY MetricsAssumption DEF MetricsAssumption
<1>1. h = Day * p + Key(h) /\ g = Day * q + Key(g) /\ p \in Nat /\ q \in Nat
  BY <1>0 DEF Key
<1>2. ASSUME q <= p PROVE FALSE
  BY <1>0, <1>1, <1>2
<1>3. q >= p + 1
  BY <1>1, <1>2
<1> DEFINE r == q - p - 1
<1>4. r \in Nat /\ q = p + 1 + r
  BY <1>1, <1>3
<1> HIDE DEF p, q, r
<1>5. Day * (p + 1 + r) = Day * p + Day + Day * r
  BY <1>0, <1>1, <1>4
<1>6. Day * r \in Nat /\ Day * p \in Nat
  BY <1>0, <1>1, <1>4
<1>7. Key(h) \in Nat
  BY <1>0, KeyType DEF Keys
<1>8. g = Day * p + Day + Day * r + Key(h)
  BY <1>1, <1>4, <1>5
<1> HIDE DEF Key
<1> QED
  BY <1>0, <1>1, <1>6, <1>7, <1>8

-----------------------------------------------------------------------------
(* Counting.                                                                *)

\* Sets that differ only in elements of M differ in size by no more than its.
LEMMA SizesAreNear ==
  ASSUME NEW M, IsFiniteSet(M), NEW A, IsFiniteSet(A), NEW B, A \subseteq B \cup M, IsFiniteSet(B)
  PROVE  Cardinality(A) <= Cardinality(B) + Cardinality(M)
<1>1. IsFiniteSet(B \cup M)
  BY FS_Union
<1>2. Cardinality(A) <= Cardinality(B \cup M)
  BY <1>1, FS_Subset
<1>3. Cardinality(B \cup M) = Cardinality(B) + Cardinality(M) - Cardinality(B \cap M)
  BY FS_Union
<1>4. IsFiniteSet(B \cap M)
  BY FS_Subset
<1> QED
  BY <1>1, <1>2, <1>3, <1>4, FS_CardinalityType

LEMMA DisjointSizes ==
  ASSUME NEW A, IsFiniteSet(A), NEW B, IsFiniteSet(B), A \cap B = {}
  PROVE  /\ IsFiniteSet(A \cup B)
         /\ Cardinality(A \cup B) = Cardinality(A) + Cardinality(B)
<1>1. Cardinality(A \cap B) = 0
  BY FS_EmptySet
<1> QED
  BY <1>1, FS_Union, FS_CardinalityType

\* Bars of these heights, unit by unit, and what f maps to k.
Units(K, n)   == UNION {{k} \X (1 .. n[k]) : k \in K}
Part(W, f, k) == {e \in W : f[e] = k}

\* Bars of the heights of the parts of a set have as many units together as the
\* set has elements.
LEMMA PartsAddUp ==
  ASSUME NEW W, IsFiniteSet(W), NEW K, NEW f \in [W -> K], NEW n \in [K -> Nat],
         \A k \in K : n[k] = Cardinality(Part(W, f, k))
  PROVE  IsFiniteSet(Units(K, n)) /\ Cardinality(Units(K, n)) = Cardinality(W)
<1> DEFINE units == UNION {{k} \X (1 .. n[k]) : k \in K}
           B     == [k \in K |-> CHOOSE b : b \in Bijection(1 .. n[k], Part(W, f, k))]
           F     == [u \in units |-> B[u[1]][u[2]]]
<1>1. ASSUME NEW k \in K PROVE B[k] \in Bijection(1 .. n[k], Part(W, f, k))
  <2>1. IsFiniteSet(Part(W, f, k))
    BY FS_Subset DEF Part
  <2>2. ExistsBijection(1 .. n[k], Part(W, f, k))
    BY <2>1, FS_CardinalityType
  <2> QED
    BY <2>2 DEF ExistsBijection
<1>2. ASSUME NEW k \in K
      PROVE  /\ \A i \in 1 .. n[k] : B[k][i] \in W /\ f[B[k][i]] = k
             /\ \A i, j \in 1 .. n[k] : B[k][i] = B[k][j] => i = j
             /\ \A e \in Part(W, f, k) : \E i \in 1 .. n[k] : B[k][i] = e
  <2> HIDE DEF B
  <2>1. B[k] \in [1 .. n[k] -> Part(W, f, k)]
    BY <1>1 DEF Bijection, Injection
  <2> QED
    BY <1>1, <2>1 DEF Bijection, Injection, Surjection, IsInjective, Part
<1>3. ASSUME NEW u \in units
      PROVE  u[1] \in K /\ u[2] \in 1 .. n[u[1]] /\ u = <<u[1], u[2]>> /\ F[u] = B[u[1]][u[2]]
  OBVIOUS
<1>4. ASSUME NEW k \in K, NEW i \in 1 .. n[k] PROVE <<k, i>> \in units /\ F[<<k, i>>] = B[k][i]
  <2>1. <<k, i>> \in {k} \X (1 .. n[k])
    OBVIOUS
  <2>2. <<k, i>> \in units
    BY <2>1
  <2> HIDE DEF units
  <2>3. F[<<k, i>>] = B[<<k, i>>[1]][<<k, i>>[2]]
    BY <2>2, Zenon
  <2> QED
    BY <2>2, <2>3
<1>5. DOMAIN F = units /\ F = [u \in units |-> F[u]]
  OBVIOUS
<1> HIDE DEF F, B, units
<1>6. ASSUME NEW u \in units PROVE F[u] \in W /\ f[F[u]] = u[1]
  BY <1>2, <1>3
<1>7. ASSUME NEW u \in units, NEW v \in units, F[u] = F[v] PROVE u = v
  <2>1. u[1] = v[1]
    BY <1>6, <1>7
  <2>2. B[u[1]][u[2]] = B[u[1]][v[2]]
    BY <1>3, <1>7, <2>1
  <2>3. u[1] \in K /\ u[2] \in 1 .. n[u[1]] /\ v[2] \in 1 .. n[u[1]]
    BY <1>3, <2>1
  <2>4. u[2] = v[2]
    BY <1>2, <2>2, <2>3
  <2> QED
    BY <1>3, <2>1, <2>4
<1>8. ASSUME NEW e \in W PROVE \E u \in units : F[u] = e
  <2>1. PICK i \in 1 .. n[f[e]] : B[f[e]][i] = e
    BY <1>2 DEF Part
  <2>2. f[e] \in K
    OBVIOUS
  <2>3. <<f[e], i>> \in units /\ F[<<f[e], i>>] = B[f[e]][i]
    BY <1>4, <2>2
  <2> QED
    BY <2>1, <2>3
<1>9. F \in [units -> W]
  BY <1>5, <1>6
<1>10. F \in Injection(units, W) /\ F \in Surjection(units, W)
  BY <1>7, <1>8, <1>9 DEF Injection, Surjection, IsInjective
<1> QED
  BY <1>10, FS_Injection DEF units, Units

-----------------------------------------------------------------------------
(* HealthMetrics: type correctness.                                         *)

LEMMA CountType ==
  ASSUME NEW es \in SUBSET Executions
  PROVE  /\ IsFiniteSet(es)
         /\ CountActive(es) \in Nat
         /\ \A s : Count(es, s) \in Nat
<1>1. ASSUME NEW T \in SUBSET Executions PROVE IsFiniteSet(T) /\ Cardinality(T) \in Nat
  BY FS_Subset, FS_CardinalityType, MetricsAssumption DEF MetricsAssumption
<1>2. {e \in es : Status(e) \in Active} \subseteq Executions
  OBVIOUS
<1>3. ASSUME NEW s PROVE {e \in es : Status(e) = s} \subseteq Executions
  OBVIOUS
<1> QED
  BY <1>1, <1>2, <1>3 DEF CountActive, Count

\* What the hourly query answers.
LEMMA RowsByHour ==
  ASSUME NEW es \in SUBSET Executions
  PROVE  /\ DOMAIN ByHour(es) = {Hour(e) : e \in es}
         /\ \A h \in DOMAIN ByHour(es) :
              /\ ByHour(es)[h].success = Count({e \in es : Hour(e) = h}, "SUCCESS")
              /\ ByHour(es)[h].failed = Count({e \in es : Hour(e) = h}, "FAILED")
  BY DEF ByHour, HourRow

LEMMA MetricsTypeInit == MetricsInit => MetricsTypeOK
  BY DEF MetricsInit, MetricsTypeOK, RowType, NoHours, Zeros, Bars

\* A write of one row.
LEMMA SetType ==
  ASSUME MetricsTypeOK, NEW e \in DOMAIN rows, NEW s \in Statuses,
         NEW ms \in Durations \cup {None}, Set(e, s, ms)
  PROVE  MetricsTypeOK'
<1>1. rows' \in [DOMAIN rows -> RowType] /\ DOMAIN rows' = DOMAIN rows
  BY DEF Set, MetricsTypeOK, RowType
<1> QED
  BY <1>1 DEF Set, Moves, MetricsTypeOK, RowType, answers, loop

LEMMA MetricsTypeStep == MetricsTypeOK /\ [MetricsNext]_metricsVars => MetricsTypeOK'
<1> SUFFICES ASSUME MetricsTypeOK, [MetricsNext]_metricsVars PROVE MetricsTypeOK'
  OBVIOUS
<1> USE DEF table, answers, loop
<1>0. DOMAIN rows \subseteq Executions /\ InWindow \subseteq DOMAIN rows
  BY DEF MetricsTypeOK, InWindow
<1>1. CASE Tick
  <2>1. time' \in Nat /\ 0 .. time \subseteq 0 .. time'
    BY <1>1 DEF Tick, MetricsTypeOK
  <2>2. rows' \in [DOMAIN rows' -> RowType']
    BY <1>1, <2>1 DEF Tick, MetricsTypeOK, RowType
  <2> QED
    BY <1>1, <2>1, <2>2 DEF Tick, MetricsTypeOK
<1>2. ASSUME NEW e \in Executions, Create(e) PROVE MetricsTypeOK'
  <2>1. rows' \in [DOMAIN rows' -> RowType'] /\ DOMAIN rows' = DOMAIN rows \cup {e}
    BY <1>2 DEF Create, Moves, MetricsTypeOK, RowType, Statuses
  <2> QED
    BY <1>2, <2>1 DEF Create, Moves, MetricsTypeOK
<1>3. ASSUME NEW e \in DOMAIN rows, Begin(e) \/ Settle(e) \/ Cancel(e) PROVE MetricsTypeOK'
  <2>1. rows[e].ms \in Durations \cup {None}
    BY DEF MetricsTypeOK, RowType
  <2> QED
    BY <1>3, <2>1, SetType DEF Begin, Settle, Cancel, Statuses
<1>4. ASSUME NEW e \in DOMAIN rows, Delete(e) PROVE MetricsTypeOK'
  <2>1. rows' \in [DOMAIN rows' -> RowType'] /\ DOMAIN rows' = DOMAIN rows \ {e}
    BY <1>4 DEF Delete, Moves, MetricsTypeOK, RowType
  <2> QED
    BY <1>0, <1>4, <2>1 DEF Delete, Moves, MetricsTypeOK
<1>5. CASE Ask
  BY <1>5 DEF Ask, MetricsTypeOK, RowType
<1>6. CASE QueryActive
  <2>1. active' \in Nat
    BY <1>0, <1>6, CountType DEF QueryActive, ActiveNow
  <2> QED
    BY <1>6, <2>1 DEF QueryActive, Answer, MetricsTypeOK, RowType
<1>7. CASE QueryHourly
  <2>1. hourly' = ByHour(InWindow) /\ left' = DOMAIN hourly'
    BY <1>7 DEF QueryHourly, HourlyRows
  <2>2. ASSUME NEW h \in DOMAIN hourly'
        PROVE  h \in Nat /\ hourly'[h].success \in Nat /\ hourly'[h].failed \in Nat
    <3>1. \E e \in InWindow : h = Hour(e)
      BY <1>0, <2>1, <2>2, RowsByHour
    <3>2. h \in Nat
      BY <1>0, <3>1, HourIsNat DEF Hour, MetricsTypeOK, RowType
    <3>3. {e \in InWindow : Hour(e) = h} \subseteq Executions
      BY <1>0
    <3>4. \A s : Count({e \in InWindow : Hour(e) = h}, s) \in Nat
      BY <3>3, CountType
    <3>5. /\ hourly'[h].success = Count({e \in InWindow : Hour(e) = h}, "SUCCESS")
          /\ hourly'[h].failed = Count({e \in InWindow : Hour(e) = h}, "FAILED")
      BY <1>0, <2>1, <2>2, RowsByHour
    <3> QED
      BY <3>2, <3>4, <3>5
  <2>3. UNCHANGED <<time, rows, gone, asked, moved, active, counts, chart, totalSuccess, totalFailed>>
        /\ waiting' \subseteq waiting
    BY <1>7 DEF QueryHourly, Answer
  <2> QED
    BY <2>1, <2>2, <2>3 DEF MetricsTypeOK, RowType
<1>8. CASE QueryCounts
  <2>1. counts' \in [Statuses -> Nat]
    BY <1>0, <1>8, CountType DEF QueryCounts, StatusCounts
  <2> QED
    BY <1>8, <2>1 DEF QueryCounts, Answer, MetricsTypeOK, RowType
<1>9. ASSUME NEW h \in left, ReadRow(h) PROVE MetricsTypeOK'
  <2>1. totalSuccess' \in Nat /\ totalFailed' \in Nat
    BY <1>9 DEF ReadRow, MetricsTypeOK
  <2> QED
    BY <1>9, <2>1 DEF ReadRow, Fill, MetricsTypeOK, RowType
<1>10. CASE Reply
  BY <1>10 DEF Reply, Computed, MetricsTypeOK, RowType, NoHours, Zeros, Bars
<1>11. CASE UNCHANGED metricsVars
  BY <1>11 DEF metricsVars, MetricsTypeOK, RowType
<1> QED
  BY <1>1, <1>2, <1>3, <1>4, <1>5, <1>6, <1>7, <1>8, <1>9, <1>10, <1>11 DEF MetricsNext, Writer

\* The answers are counts and the rows of the table are rows: the type invariant
\* of computeMetrics, for every table and every length of a day.
THEOREM MetricsTyped == MetricsSpec => []MetricsTypeOK
  BY MetricsTypeInit, MetricsTypeStep, PTL DEF MetricsSpec

-----------------------------------------------------------------------------
(* The invariant.  What a query has answered is what it would answer on     *)
(* some table that agrees with the present one but for what has moved.      *)

\* The status of each execution in the window, "none" of all others.
Snapshots == [Executions -> Statuses \cup {"none"}]
Present(e) == IF e \in InWindow THEN Status(e) ELSE "none"
With(q, s) == {e \in Executions : q[e] = s}

\* q is a snapshot of the window from some time since the request came.
Recent(q) ==
  \A e \in Executions :
    /\ e \notin moved => q[e] = Present(e)
    /\ q[e] # "none" => /\ e \in DOMAIN rows \cup gone
                        /\ e \in DOMAIN rows => rows[e].at >= since

\* S were the active executions then.
RecentlyActive(S) ==
  \A e \in Executions \ moved : e \in S <=> e \in DOMAIN rows /\ Status(e) \in Active

\* t has the hours of the executions in q.
HoursOf(q, t) ==
  \A e \in Executions :
    q[e] # "none" => /\ t[e] <= HourOf(time)
                     /\ e \in DOMAIN rows => t[e] = Hour(e)

\* The rows of the hours, and the totals of those that the loop has read.
Tells(q, t) ==
  /\ DOMAIN hourly = {t[e] : e \in {f \in Executions : q[f] # "none"}}
  /\ \A h \in DOMAIN hourly :
       /\ hourly[h].success = Cardinality({e \in With(q, "SUCCESS") : t[e] = h})
       /\ hourly[h].failed = Cardinality({e \in With(q, "FAILED") : t[e] = h})
  /\ totalSuccess = Cardinality({e \in With(q, "SUCCESS") : t[e] \notin left})
  /\ totalFailed = Cardinality({e \in With(q, "FAILED") : t[e] \notin left})

Has(query) == asked # None /\ query \notin waiting

ActiveInv ==
  Has("active") => \E S \in SUBSET Executions : active = Cardinality(S) /\ RecentlyActive(S)

CountsInv ==
  Has("counts") =>
    \E q \in Snapshots :
      Recent(q) /\ \A s \in Statuses : counts[s] = Cardinality(With(q, s))

HourlyInv ==
  Has("hourly") =>
    \E q \in Snapshots, t \in [Executions -> Nat] :
      Recent(q) /\ HoursOf(q, t) /\ Tells(q, t)

\* Nothing is asked, or nothing has been answered.
FreshInv ==
  /\ asked = None => waiting = {}
  /\ ~Has("hourly") => /\ DOMAIN hourly = {} /\ left = {} /\ chart = Bars
                       /\ totalSuccess = 0 /\ totalFailed = 0

\* The loop goes from hour to hour and leaves the latest of each key.
Read == DOMAIN hourly \ left

ChartInv ==
  /\ \A h \in Read, g \in left : h < g
  /\ \A k \in Keys :
       \/ chart[k] = NoBucket /\ \A h \in Read : Key(h) # k
       \/ \E h \in Read : /\ Key(h) = k
                          /\ chart[k] = Bucket(hourly[h])
                          /\ \A g \in Read : Key(g) = k => g <= h

MetricsInv ==
  /\ MetricsTypeOK /\ FreshInv /\ ActiveInv /\ CountsInv /\ HourlyInv /\ ChartInv

-----------------------------------------------------------------------------
(* What a step does while a request is under way.                           *)

\* Rows that have not moved are as they were, ids do not come back, and an
\* execution has been created when it has been created.
Moving ==
  /\ asked' = asked /\ moved \subseteq moved' /\ time <= time' /\ time' \in Nat
  /\ DOMAIN rows \cup gone \subseteq DOMAIN rows' \cup gone'
  /\ \A e \in Executions \ moved' :
       /\ e \in DOMAIN rows' <=> e \in DOMAIN rows
       /\ e \in DOMAIN rows => rows'[e] = rows[e]
  /\ \A e \in DOMAIN rows' :
       e \in DOMAIN rows \cup gone => e \in DOMAIN rows /\ rows'[e].at = rows[e].at

LEMMA TableStands ==
  ASSUME MetricsTypeOK, UNCHANGED <<table, asked, moved>>
  PROVE  Moving
  BY DEF MetricsTypeOK, Moving, table

LEMMA SetMoves ==
  ASSUME MetricsTypeOK, asked # None, NEW e \in DOMAIN rows, NEW s, NEW ms, Set(e, s, ms)
  PROVE  Moving
  BY DEF MetricsTypeOK, Set, Moves, Moving

LEMMA WritersMove ==
  ASSUME MetricsTypeOK, asked # None,
         \/ Tick
         \/ \E e \in Executions : Create(e)
         \/ \E e \in DOMAIN rows : Writer(e)
  PROVE  Moving /\ UNCHANGED <<waiting, answers, loop>>
<1>1. CASE Tick
  BY <1>1 DEF MetricsTypeOK, Tick, Moving
<1>2. ASSUME NEW e \in Executions, Create(e) PROVE Moving /\ UNCHANGED <<waiting, answers, loop>>
  BY <1>2 DEF MetricsTypeOK, Create, Moves, Moving
<1>3. ASSUME NEW e \in DOMAIN rows, Delete(e) PROVE Moving /\ UNCHANGED <<waiting, answers, loop>>
  BY <1>3 DEF MetricsTypeOK, Delete, Moves, Moving
<1>4. ASSUME NEW e \in DOMAIN rows, Begin(e) \/ Settle(e) \/ Cancel(e)
      PROVE  Moving /\ UNCHANGED <<waiting, answers, loop>>
  <2>1. PICK s, ms : Set(e, s, ms)
    BY <1>4 DEF Begin, Settle, Cancel
  <2>2. UNCHANGED <<waiting, answers, loop>>
    BY <2>1 DEF Set, Moves
  <2> QED
    BY <2>1, <2>2, SetMoves
<1> QED
  BY <1>1, <1>2, <1>3, <1>4 DEF Writer

\* An answer that is there after a step was there before it, or came with it.
LEMMA AnswerStep ==
  ASSUME MetricsTypeOK, FreshInv, [MetricsNext]_metricsVars, asked' # None
  PROVE  /\ Has("active")' => Moving /\ (QueryActive \/ (Has("active") /\ UNCHANGED active))
         /\ Has("counts")' => Moving /\ (QueryCounts \/ (Has("counts") /\ UNCHANGED counts))
         /\ Has("hourly")' => /\ Moving
                             /\ \/ QueryHourly
                                \/ Has("hourly") /\ UNCHANGED <<hourly, loop>>
                                \/ Has("hourly") /\ \E h \in left : ReadRow(h)
<1>1. CASE Tick \/ (\E e \in Executions : Create(e)) \/ (\E e \in DOMAIN rows : Writer(e))
  <2>1. UNCHANGED asked
    BY <1>1 DEF Tick, Create, Moves, Writer, Begin, Settle, Cancel, Delete, Set
  <2> QED
    BY <1>1, <2>1, WritersMove DEF Has, answers
<1>2. CASE Ask
  BY <1>2 DEF Ask, Has, Queries
<1>3. CASE QueryActive \/ QueryCounts \/ QueryHourly
  <2>1. UNCHANGED <<table, asked, moved>> /\ asked # None
    BY <1>3 DEF QueryActive, QueryCounts, QueryHourly, Answer, FreshInv
  <2>2. Moving
    BY <2>1, TableStands
  <2>3. CASE QueryActive
    <3>1. waiting' = waiting \ {"active"} /\ UNCHANGED <<asked, hourly, counts, loop>>
      BY <2>3 DEF QueryActive, Answer
    <3> QED
      BY <2>1, <2>2, <2>3, <3>1 DEF Has, loop
  <2>4. CASE QueryCounts
    <3>1. waiting' = waiting \ {"counts"} /\ UNCHANGED <<asked, active, hourly, loop>>
      BY <2>4 DEF QueryCounts, Answer
    <3> QED
      BY <2>1, <2>2, <2>4, <3>1 DEF Has, loop
  <2>5. CASE QueryHourly
    <3>1. waiting' = waiting \ {"hourly"} /\ UNCHANGED <<asked, active, counts>>
      BY <2>5 DEF QueryHourly, Answer
    <3> QED
      BY <2>1, <2>2, <2>5, <3>1 DEF Has
  <2> QED
    BY <1>3, <2>3, <2>4, <2>5
<1>4. ASSUME NEW h \in left, ReadRow(h) PROVE Moving /\ UNCHANGED <<asked, waiting, answers>>
  <2>1. UNCHANGED <<table, asked, moved>>
    BY <1>4 DEF ReadRow
  <2> QED
    BY <1>4, <2>1, TableStands DEF ReadRow
<1>5. CASE \E h \in left : ReadRow(h)
  BY <1>4, <1>5 DEF Has, answers
<1>6. CASE Reply
  BY <1>6 DEF Reply
<1>7. CASE UNCHANGED metricsVars
  <2>1. UNCHANGED <<table, asked, moved>> /\ UNCHANGED <<waiting, answers, loop>>
    BY <1>7 DEF metricsVars
  <2> QED
    BY <2>1, TableStands DEF Has, answers
<1> QED
  BY <1>1, <1>2, <1>3, <1>5, <1>6, <1>7 DEF MetricsNext

LEMMA SnapshotStays ==
  ASSUME MetricsTypeOK, Moving, NEW q \in Snapshots, Recent(q)
  PROVE  Recent(q)'
<1> SUFFICES ASSUME NEW e \in Executions
             PROVE  /\ e \notin moved' => q[e] = Present(e)'
                    /\ q[e] # "none" => /\ e \in DOMAIN rows' \cup gone'
                                        /\ e \in DOMAIN rows' => rows'[e].at >= since'
  BY DEF Recent
<1>0. since' = since
  BY DEF Moving, since
<1>1. ASSUME e \notin moved' PROVE q[e] = Present(e)'
  <2>1. e \notin moved /\ (e \in DOMAIN rows' <=> e \in DOMAIN rows)
        /\ (e \in DOMAIN rows => rows'[e] = rows[e])
    BY <1>1 DEF Moving
  <2>2. (e \in InWindow)' <=> e \in InWindow
    BY <1>0, <2>1 DEF InWindow
  <2>3. Present(e)' = Present(e)
    BY <2>1, <2>2 DEF Present, InWindow, Status
  <2> QED
    BY <2>1, <2>3 DEF Recent
<1>2. ASSUME q[e] # "none", e \in DOMAIN rows' PROVE rows'[e].at >= since'
  BY <1>0, <1>2 DEF Moving, Recent
<1> QED
  BY <1>1, <1>2 DEF Moving, Recent

LEMMA HoursStay ==
  ASSUME MetricsTypeOK, Moving, NEW q \in Snapshots, Recent(q),
         NEW t \in [Executions -> Nat], HoursOf(q, t)
  PROVE  HoursOf(q, t)'
<1>1. HourOf(time) <= HourOf(time') /\ HourOf(time) \in Nat /\ HourOf(time') \in Nat
  BY HoursGrow, HourIsNat DEF MetricsTypeOK, Moving
<1> SUFFICES ASSUME NEW e \in Executions, q[e] # "none"
             PROVE  /\ t[e] <= HourOf(time')
                    /\ e \in DOMAIN rows' => t[e] = HourOf(rows'[e].at)
  BY DEF HoursOf, Hour
<1>2. t[e] <= HourOf(time')
  BY <1>1 DEF HoursOf
<1>3. ASSUME e \in DOMAIN rows' PROVE t[e] = HourOf(rows'[e].at)
  BY <1>3 DEF HoursOf, Hour, Moving, Recent
<1> QED
  BY <1>2, <1>3

-----------------------------------------------------------------------------
(* The invariant is inductive.                                              *)

LEMMA ActiveStep ==
  ASSUME MetricsTypeOK, FreshInv, ActiveInv, [MetricsNext]_metricsVars
  PROVE  ActiveInv'
<1> SUFFICES ASSUME Has("active")'
             PROVE  \E S \in SUBSET Executions :
                      active' = Cardinality(S) /\ RecentlyActive(S)'
  BY DEF ActiveInv
<1>1. Moving /\ (QueryActive \/ (Has("active") /\ UNCHANGED active))
  BY AnswerStep DEF Has
<1>2. CASE QueryActive
  <2>1. PICK S \in SUBSET Executions : S = {e \in DOMAIN rows : Status(e) \in Active}
    BY DEF MetricsTypeOK
  <2>2. active' = Cardinality(S)
    BY <1>2, <2>1 DEF QueryActive, ActiveNow, CountActive
  <2>3. rows' = rows
    BY <1>2 DEF QueryActive, Answer, table
  <2>4. RecentlyActive(S)'
    BY <2>1, <2>3 DEF RecentlyActive, Status
  <2> QED
    BY <2>2, <2>4
<1>3. CASE Has("active") /\ UNCHANGED active
  <2>1. PICK S \in SUBSET Executions : active = Cardinality(S) /\ RecentlyActive(S)
    BY <1>3 DEF ActiveInv
  <2>2. RecentlyActive(S)'
    BY <1>1, <2>1 DEF RecentlyActive, Moving, Status
  <2> QED
    BY <1>3, <2>1, <2>2
<1> QED
  BY <1>1, <1>2, <1>3

\* The present table as a snapshot.
Photo == [e \in Executions |-> Present(e)]

LEMMA PhotoShows ==
  ASSUME MetricsTypeOK
  PROVE  /\ Photo \in Snapshots
         /\ Recent(Photo)
         /\ \A e \in Executions : Photo[e] # "none" <=> e \in InWindow
         /\ \A s \in Statuses : With(Photo, s) = {e \in InWindow : Status(e) = s}
<1>1. ASSUME NEW e \in Executions
      PROVE  /\ Photo[e] = IF e \in InWindow THEN Status(e) ELSE "none"
             /\ e \in InWindow => Status(e) \in Statuses
  BY DEF MetricsTypeOK, RowType, Photo, Present, InWindow, Status
<1>2. "none" \notin Statuses
  BY DEF Statuses
<1>3. InWindow \subseteq Executions
  BY DEF MetricsTypeOK, InWindow
<1>4. Photo \in Snapshots
  BY <1>1 DEF Photo, Snapshots, Present
<1>5. Recent(Photo)
  BY <1>1 DEF Recent, Present, InWindow
<1> QED
  BY <1>1, <1>2, <1>3, <1>4, <1>5 DEF With

LEMMA CountsStep ==
  ASSUME MetricsTypeOK, FreshInv, CountsInv, [MetricsNext]_metricsVars
  PROVE  CountsInv'
<1> SUFFICES ASSUME Has("counts")'
             PROVE  \E q \in Snapshots :
                      Recent(q)' /\ \A s \in Statuses : counts'[s] = Cardinality(With(q, s))
  BY DEF CountsInv, With
<1>1. Moving /\ (QueryCounts \/ (Has("counts") /\ UNCHANGED counts))
  BY AnswerStep DEF Has
<1>2. CASE QueryCounts
  <2>1. \A s \in Statuses : counts'[s] = Cardinality(With(Photo, s))
    BY <1>2, PhotoShows DEF QueryCounts, StatusCounts, Count
  <2>2. PICK q \in Snapshots : q = Photo
    BY PhotoShows
  <2>3. Recent(q)'
    BY <1>1, <2>2, PhotoShows, SnapshotStays
  <2> QED
    BY <2>1, <2>2, <2>3 DEF With
<1>3. CASE Has("counts") /\ UNCHANGED counts
  BY <1>1, <1>3, SnapshotStays DEF CountsInv
<1> QED
  BY <1>1, <1>2, <1>3

LEMMA HourlyStep ==
  ASSUME MetricsTypeOK, FreshInv, HourlyInv, [MetricsNext]_metricsVars
  PROVE  HourlyInv'
<1> SUFFICES ASSUME Has("hourly")'
             PROVE  \E q \in Snapshots, t \in [Executions -> Nat] :
                      Recent(q)' /\ HoursOf(q, t)' /\ Tells(q, t)'
  BY DEF HourlyInv
<1>1. /\ Moving
      /\ \/ QueryHourly
         \/ Has("hourly") /\ UNCHANGED <<hourly, loop>>
         \/ Has("hourly") /\ \E h \in left : ReadRow(h)
  BY AnswerStep DEF Has
<1>2. CASE QueryHourly
  <2>1. PICK q \in Snapshots : q = Photo
    BY PhotoShows
  <2>2. InWindow \subseteq DOMAIN rows /\ InWindow \subseteq Executions
        /\ \A e \in DOMAIN rows : rows[e].at \in Nat /\ rows[e].at <= time /\ Hour(e) \in Nat
    BY HourIsNat DEF MetricsTypeOK, RowType, InWindow, Hour
  <2>3. PICK t \in [Executions -> Nat] : t = [e \in Executions |-> IF e \in InWindow THEN Hour(e) ELSE 0]
    BY <2>2
  <2>4. HoursOf(q, t)
    BY <2>1, <2>2, <2>3, PhotoShows, HoursGrow DEF HoursOf, Hour, MetricsTypeOK
  <2>5. Recent(q)' /\ HoursOf(q, t)'
    BY <1>1, <2>1, <2>4, PhotoShows, SnapshotStays, HoursStay
  <2>6. hourly' = ByHour(InWindow) /\ left' = DOMAIN hourly' /\ totalSuccess' = 0 /\ totalFailed' = 0
    BY <1>2 DEF QueryHourly, Answer, HourlyRows, FreshInv, Has
  <2>7. DOMAIN hourly' = {t[e] : e \in {f \in Executions : q[f] # "none"}}
    <3>1. {f \in Executions : q[f] # "none"} = InWindow
      BY <2>1, <2>2, PhotoShows
    <3>2. DOMAIN hourly' = {Hour(e) : e \in InWindow}
      BY <2>2, <2>6, RowsByHour
    <3>3. \A e \in InWindow : t[e] = Hour(e)
      BY <2>2, <2>3
    <3> HIDE <2>3
    <3> QED
      BY <3>1, <3>2, <3>3
  <2>8. ASSUME NEW h \in DOMAIN hourly'
        PROVE  /\ hourly'[h].success = Cardinality({e \in With(q, "SUCCESS") : t[e] = h})
               /\ hourly'[h].failed = Cardinality({e \in With(q, "FAILED") : t[e] = h})
    <3>1. ASSUME NEW s \in Statuses
          PROVE  Count({e \in InWindow : Hour(e) = h}, s) = Cardinality({e \in With(q, s) : t[e] = h})
      <4>1. With(q, s) = {e \in InWindow : Status(e) = s}
        BY <2>1, PhotoShows
      <4>2. {e \in {f \in InWindow : Hour(f) = h} : Status(e) = s} = {e \in With(q, s) : t[e] = h}
        BY <2>2, <2>3, <4>1
      <4> QED
        BY <4>2 DEF Count
    <3>2. /\ hourly'[h].success = Count({e \in InWindow : Hour(e) = h}, "SUCCESS")
          /\ hourly'[h].failed = Count({e \in InWindow : Hour(e) = h}, "FAILED")
      BY <2>2, <2>6, <2>8, RowsByHour
    <3>3. "SUCCESS" \in Statuses /\ "FAILED" \in Statuses
      BY DEF Statuses
    <3> QED
      BY <3>1, <3>2, <3>3
  <2>9. \A s \in {"SUCCESS", "FAILED"} : {e \in With(q, s) : t[e] \notin left'} = {}
    BY <2>6, <2>7 DEF With
  <2>10. Tells(q, t)'
    BY <2>6, <2>7, <2>8, <2>9, FS_EmptySet DEF Tells, With
  <2> QED
    BY <2>5, <2>10
<1>3. ASSUME Has("hourly")
      PROVE  \E q \in Snapshots, t \in [Executions -> Nat] :
               Recent(q)' /\ HoursOf(q, t)' /\ Tells(q, t)
  BY <1>1, <1>3, SnapshotStays, HoursStay DEF HourlyInv
<1>4. CASE Has("hourly") /\ UNCHANGED <<hourly, loop>>
  <2>1. ASSUME NEW q, NEW t, Tells(q, t) PROVE Tells(q, t)'
    BY <1>4, <2>1 DEF Tells, With, loop
  <2> QED
    BY <1>3, <1>4, <2>1
<1>5. ASSUME Has("hourly"), NEW h \in left, ReadRow(h)
      PROVE  \E q \in Snapshots, t \in [Executions -> Nat] :
               Recent(q)' /\ HoursOf(q, t)' /\ Tells(q, t)'
  <2>1. PICK q \in Snapshots, t \in [Executions -> Nat] :
          Recent(q)' /\ HoursOf(q, t)' /\ Tells(q, t)
    BY <1>3, <1>5
  <2>2. /\ hourly' = hourly /\ left' = left \ {h} /\ h \in DOMAIN hourly
        /\ totalSuccess' = totalSuccess + hourly[h].success
        /\ totalFailed' = totalFailed + hourly[h].failed
    BY <1>5 DEF ReadRow, answers, MetricsTypeOK
  <2>3. ASSUME NEW s
        PROVE  Cardinality({e \in With(q, s) : t[e] \notin left'})
                 = Cardinality({e \in With(q, s) : t[e] \notin left})
                     + Cardinality({e \in With(q, s) : t[e] = h})
    <3> DEFINE A == {e \in With(q, s) : t[e] \notin left}
               B == {e \in With(q, s) : t[e] = h}
    <3>1. IsFiniteSet(A) /\ IsFiniteSet(B)
      <4>1. A \subseteq Executions /\ B \subseteq Executions
        BY DEF With
      <4> QED
        BY <4>1, FS_Subset, MetricsAssumption DEF MetricsAssumption
    <3>2. A \cap B = {} /\ {e \in With(q, s) : t[e] \notin left'} = A \cup B
      BY <1>5, <2>2
    <3> QED
      BY <3>1, <3>2, DisjointSizes
  <2>4. /\ totalSuccess' = Cardinality({e \in With(q, "SUCCESS") : t[e] \notin left'})
        /\ totalFailed' = Cardinality({e \in With(q, "FAILED") : t[e] \notin left'})
    BY <2>1, <2>2, <2>3 DEF Tells
  <2>5. /\ DOMAIN hourly' = {t[e] : e \in {f \in Executions : q[f] # "none"}}
        /\ \A g \in DOMAIN hourly' :
             /\ hourly'[g].success = Cardinality({e \in With(q, "SUCCESS") : t[e] = g})
             /\ hourly'[g].failed = Cardinality({e \in With(q, "FAILED") : t[e] = g})
    BY <2>1, <2>2 DEF Tells
  <2>6. Tells(q, t)'
    BY <2>4, <2>5 DEF Tells, With
  <2> QED
    BY <2>1, <2>6
<1> QED
  BY <1>1, <1>2, <1>4, <1>5

LEMMA FreshStep ==
  ASSUME MetricsTypeOK, FreshInv, [MetricsNext]_metricsVars
  PROVE  FreshInv'
<1>1. CASE Tick \/ (\E e \in Executions : Create(e)) \/ (\E e \in DOMAIN rows : Writer(e))
  <2>1. UNCHANGED <<asked, waiting, answers, loop>>
    BY <1>1 DEF Tick, Create, Moves, Writer, Begin, Settle, Cancel, Delete, Set
  <2> QED
    BY <2>1 DEF FreshInv, Has, answers, loop
<1>2. CASE Ask
  BY <1>2 DEF Ask, FreshInv, Has, Queries, answers, loop, MetricsTypeOK, None
<1>3. CASE QueryActive \/ QueryCounts
  BY <1>3 DEF QueryActive, QueryCounts, Answer, FreshInv, Has, loop
<1>4. CASE QueryHourly
  BY <1>4 DEF QueryHourly, Answer, FreshInv, Has
<1>5. CASE \E h \in left : ReadRow(h)
  BY <1>5 DEF ReadRow, Answered, FreshInv, Has
<1>6. CASE Reply
  BY <1>6 DEF Reply, Computed, Answered, FreshInv, NoHours
<1>7. CASE UNCHANGED metricsVars
  BY <1>7 DEF metricsVars, FreshInv, Has, answers, loop
<1> QED
  BY <1>1, <1>2, <1>3, <1>4, <1>5, <1>6, <1>7 DEF MetricsNext

LEMMA ChartStep ==
  ASSUME MetricsTypeOK, FreshInv, ChartInv, [MetricsNext]_metricsVars
  PROVE  ChartInv'
<1>1. CASE UNCHANGED <<hourly, loop>>
  BY <1>1 DEF ChartInv, Read, loop
<1>2. CASE chart' = Bars /\ Read' = {}
  BY <1>2 DEF ChartInv, Bars
<1>3. ASSUME NEW h \in left, ReadRow(h) PROVE ChartInv'
  <2>1. /\ hourly' = hourly /\ left' = left \ {h}
        /\ chart' = [chart EXCEPT ![Key(h)] = Bucket(hourly[h])]
        /\ \A g \in left : h <= g
    BY <1>3 DEF ReadRow, Fill, answers
  <2>2. left \subseteq DOMAIN hourly /\ DOMAIN hourly \subseteq Nat /\ DOMAIN chart = Keys
    BY DEF MetricsTypeOK
  <2>3. Read' = Read \cup {h} /\ h \notin Read
    BY <1>3, <2>1, <2>2 DEF Read
  <2>4. \A g \in Read : g < h
    BY <1>3 DEF ChartInv
  <2>5. ASSUME NEW f \in Read', NEW g \in left' PROVE f < g
    BY <2>1, <2>2, <2>3, <2>4, <2>5 DEF ChartInv
  <2>6. ASSUME NEW k \in Keys
        PROVE  \/ chart'[k] = NoBucket /\ \A g \in Read' : Key(g) # k
               \/ \E f \in Read' : /\ Key(f) = k
                                   /\ chart'[k] = Bucket(hourly'[f])
                                   /\ \A g \in Read' : Key(g) = k => g <= f
    <3>1. CASE Key(h) = k
      <4>1. chart'[k] = Bucket(hourly'[h])
        BY <2>1, <2>2, <3>1
      <4>2. \A g \in Read' : g <= h
        BY <1>3, <2>2, <2>3, <2>4 DEF Read
      <4> QED
        BY <2>3, <3>1, <4>1, <4>2
    <3>2. CASE Key(h) # k
      <4>1. chart'[k] = chart[k]
        BY <2>1, <2>2, <3>2
      <4> QED
        BY <2>1, <2>3, <3>2, <4>1 DEF ChartInv
    <3> QED
      BY <3>1, <3>2
  <2> QED
    BY <2>5, <2>6 DEF ChartInv
<1>4. CASE QueryHourly
  BY <1>2, <1>4 DEF QueryHourly, Answer, HourlyRows, ByHour, FreshInv, Has, Read
<1>5. CASE Reply
  BY <1>2, <1>5 DEF Reply, Read, NoHours
<1>6. CASE \/ Tick \/ Ask \/ QueryActive \/ QueryCounts \/ UNCHANGED metricsVars
           \/ (\E e \in Executions : Create(e)) \/ (\E e \in DOMAIN rows : Writer(e))
  <2>1. UNCHANGED <<hourly, loop>>
    BY <1>6 DEF Tick, Ask, QueryActive, QueryCounts, metricsVars, Create, Writer, Begin, Settle,
                Cancel, Delete, Set, Moves, answers, loop
  <2> QED
    BY <1>1, <2>1
<1> QED
  BY <1>3, <1>4, <1>5, <1>6 DEF MetricsNext

LEMMA MetricsInvInit == MetricsInit => MetricsInv
<1> SUFFICES ASSUME MetricsInit PROVE MetricsInv
  OBVIOUS
<1>1. MetricsTypeOK
  BY MetricsTypeInit
<1>2. asked = None /\ waiting = {} /\ DOMAIN hourly = {} /\ left = {} /\ chart = Bars
      /\ totalSuccess = 0 /\ totalFailed = 0
  BY DEF MetricsInit, NoHours
<1>3. FreshInv /\ ActiveInv /\ CountsInv /\ HourlyInv
  BY <1>2 DEF FreshInv, ActiveInv, CountsInv, HourlyInv, Has
<1>4. ChartInv
  BY <1>2 DEF ChartInv, Read, Bars
<1> QED
  BY <1>1, <1>3, <1>4 DEF MetricsInv

LEMMA MetricsInvCorrect == MetricsSpec => []MetricsInv
<1>1. MetricsInv /\ [MetricsNext]_metricsVars => MetricsInv'
  BY MetricsTypeStep, FreshStep, ActiveStep, CountsStep, HourlyStep, ChartStep DEF MetricsInv
<1> QED
  BY <1>1, MetricsInvInit, PTL DEF MetricsSpec

-----------------------------------------------------------------------------
(* What the answer is worth.                                                *)

\* Of the hours with one key the latest has the bar (the loop over hourlyRows
\* writes the buckets in the order of the hours).
THEOREM BarsAreTheLatest == MetricsSpec => []BarsShowLatestHour
<1>1. MetricsInv => BarsShowLatestHour
  BY DEF MetricsInv, ChartInv, Read, BarsShowLatestHour, Computed
<1> QED
  BY <1>1, MetricsInvCorrect, PTL

LEMMA FiniteParts ==
  ASSUME NEW T \in SUBSET Executions
  PROVE  IsFiniteSet(T) /\ Cardinality(T) \in Nat
  BY FS_Subset, FS_CardinalityType, MetricsAssumption DEF MetricsAssumption

\* Two sets of executions that are the same but for what has moved.
LEMMA NearSizes ==
  ASSUME NEW A \in SUBSET Executions, NEW B \in SUBSET Executions, moved \subseteq Executions,
         \A e \in Executions \ moved : e \in A <=> e \in B
  PROVE  Near(Cardinality(A), Cardinality(B))
<1>1. A \subseteq B \cup moved /\ B \subseteq A \cup moved
  OBVIOUS
<1>2. /\ Cardinality(A) <= Cardinality(B) + Cardinality(moved)
      /\ Cardinality(B) <= Cardinality(A) + Cardinality(moved)
  BY <1>1, SizesAreNear, FiniteParts
<1>3. Cardinality(A) \in Nat /\ Cardinality(B) \in Nat /\ Cardinality(moved) \in Nat
  BY FiniteParts
<1> QED
  BY <1>2, <1>3 DEF Near

LEMMA CountsAgree == MetricsInv => CountsDifferByMoves
<1> SUFFICES ASSUME MetricsInv, Computed
             PROVE  /\ Near(active, counts["PENDING"] + counts["RUNNING"]
                                     + CountActive(DOMAIN rows \ InWindow))
                    /\ Near(totalSuccess, counts["SUCCESS"])
                    /\ Near(totalFailed, counts["FAILED"])
  BY DEF CountsDifferByMoves
<1>1. Has("active") /\ Has("counts") /\ Has("hourly") /\ left = {}
  BY DEF Computed, Answered, Has
<1>2. MetricsTypeOK /\ moved \subseteq Executions /\ DOMAIN rows \subseteq Executions
  BY DEF MetricsInv, MetricsTypeOK
<1>3. PICK S \in SUBSET Executions : active = Cardinality(S) /\ RecentlyActive(S)
  BY <1>1 DEF MetricsInv, ActiveInv
<1>4. PICK q \in Snapshots :
        Recent(q) /\ \A s \in Statuses : counts[s] = Cardinality(With(q, s))
  BY <1>1 DEF MetricsInv, CountsInv
<1>5. PICK r \in Snapshots, t \in [Executions -> Nat] :
        Recent(r) /\ HoursOf(r, t) /\ Tells(r, t)
  BY <1>1 DEF MetricsInv, HourlyInv
<1>6. Near(active, counts["PENDING"] + counts["RUNNING"] + CountActive(DOMAIN rows \ InWindow))
  <2> DEFINE O == {e \in DOMAIN rows \ InWindow : Status(e) \in Active}
             P == With(q, "PENDING")
             R == With(q, "RUNNING")
  <2>1. P \subseteq Executions /\ R \subseteq Executions /\ O \subseteq Executions
    BY <1>2 DEF With
  <2>2. P \cap R = {} /\ (P \cup R) \cap O = {}
    <3>1. ASSUME NEW e \in P \cup R PROVE e \notin O
      BY <1>2, <1>4 DEF With, Recent, InWindow
    <3> QED
      BY <3>1 DEF With
  <2>3. Cardinality(P \cup R \cup O) = Cardinality(P) + Cardinality(R) + Cardinality(O)
    <3>1. IsFiniteSet(P) /\ IsFiniteSet(R) /\ IsFiniteSet(O)
      BY <2>1, FiniteParts
    <3> HIDE DEF P, R, O
    <3>2. IsFiniteSet(P \cup R) /\ Cardinality(P \cup R) = Cardinality(P) + Cardinality(R)
      BY <2>2, <3>1, DisjointSizes
    <3> QED
      BY <2>2, <3>1, <3>2, DisjointSizes
  <2>4. ASSUME NEW e \in Executions \ moved PROVE e \in S <=> e \in P \cup R \cup O
    <3>1. q[e] = Present(e)
      BY <1>4 DEF Recent
    <3> QED
      BY <1>3, <3>1 DEF RecentlyActive, Present, Active, With, InWindow
  <2>5. Near(Cardinality(S), Cardinality(P \cup R \cup O))
    <3> HIDE DEF P, R, O
    <3> QED
      BY <1>2, <2>1, <2>4, NearSizes
  <2> QED
    BY <1>3, <1>4, <2>3, <2>5 DEF CountActive, Statuses
<1>7. ASSUME NEW s \in Statuses PROVE Near(Cardinality(With(r, s)), Cardinality(With(q, s)))
  <2>1. With(r, s) \subseteq Executions /\ With(q, s) \subseteq Executions
    BY DEF With
  <2>2. \A e \in Executions \ moved : e \in With(r, s) <=> e \in With(q, s)
    BY <1>4, <1>5 DEF Recent, With
  <2> QED
    BY <1>2, <2>1, <2>2, NearSizes
<1>8. /\ totalSuccess = Cardinality(With(r, "SUCCESS"))
      /\ totalFailed = Cardinality(With(r, "FAILED"))
  <2>1. \A s : {e \in With(r, s) : t[e] \notin left} = With(r, s)
    BY <1>1 DEF With
  <2> QED
    BY <1>5, <2>1 DEF Tells
<1> QED
  BY <1>4, <1>6, <1>7, <1>8 DEF Statuses

\* The counts of active executions, of those by status and of the hours differ
\* by no more than the executions that moved between the three queries.
THEOREM CountsAreNear == MetricsSpec => []CountsDifferByMoves
  BY CountsAgree, MetricsInvCorrect, PTL

LEMMA ChartIsNear == MetricsInv => ChartAddsUp
<1> SUFFICES ASSUME MetricsInv, Computed
             PROVE  LET units == UNION {{k} \X (1 .. chart[k].success) : k \in Keys}
                        late  == {e \in InWindow : Hour(e) <= HourOf(time) - Day}
                    IN /\ Cardinality(units) <= totalSuccess
                       /\ totalSuccess - Cardinality(units) <= Cardinality(late \cup moved)
  BY DEF ChartAddsUp
<1> DEFINE late == {e \in InWindow : Hour(e) <= HourOf(time) - Day}
<1>1. Has("hourly") /\ left = {} /\ MetricsTypeOK
  BY DEF Computed, Answered, Has, MetricsInv
<1>2. PICK q \in Snapshots, t \in [Executions -> Nat] : Recent(q) /\ HoursOf(q, t) /\ Tells(q, t)
  BY <1>1 DEF MetricsInv, HourlyInv
<1> DEFINE W     == With(q, "SUCCESS")
           Shown == {e \in W : \A g \in DOMAIN hourly : Key(g) = Key(t[e]) => g <= t[e]}
           n     == [k \in Keys |-> chart[k].success]
           f     == [e \in Shown |-> Key(t[e])]
<1>3. totalSuccess = Cardinality(W)
  <2>1. {e \in W : t[e] \notin left} = W
    BY <1>1
  <2> QED
    BY <1>2, <2>1 DEF Tells
<1>4. \A e \in W : e \in Executions /\ q[e] = "SUCCESS" /\ t[e] \in Nat /\ t[e] \in DOMAIN hourly
  BY <1>2 DEF With, Tells
<1>5. W \subseteq Executions /\ Shown \subseteq Executions /\ late \cup moved \subseteq Executions
  BY <1>1, <1>4 DEF InWindow, MetricsTypeOK
<1>6. f \in [Shown -> Keys]
  BY <1>4, KeyType
<1>7. ASSUME NEW k \in Keys
      PROVE  chart[k].success \in Nat /\ chart[k].success = Cardinality({e \in Shown : Key(t[e]) = k})
  <2>1. CASE chart[k] = NoBucket /\ \A h \in DOMAIN hourly : Key(h) # k
    <3>1. {e \in Shown : Key(t[e]) = k} = {}
      BY <1>4, <2>1
    <3> QED
      BY <2>1, <3>1, FS_EmptySet DEF NoBucket
  <2>2. ASSUME NEW h \in DOMAIN hourly, Key(h) = k, chart[k] = Bucket(hourly[h]),
               \A g \in DOMAIN hourly : Key(g) = k => g <= h
        PROVE  chart[k].success \in Nat /\ chart[k].success = Cardinality({e \in Shown : Key(t[e]) = k})
    <3>1. chart[k].success = hourly[h].success /\ hourly[h].success \in Nat /\ h \in Nat
      BY <1>1, <2>2 DEF Bucket, MetricsTypeOK
    <3>2. {e \in Shown : Key(t[e]) = k} = {e \in W : t[e] = h}
      BY <1>4, <2>2, <3>1
    <3>3. hourly[h].success = Cardinality({e \in W : t[e] = h})
      BY <1>2 DEF Tells
    <3> QED
      BY <3>1, <3>2, <3>3
  <2>3. DOMAIN hourly = Read
    BY <1>1 DEF Read
  <2> QED
    BY <2>1, <2>2, <2>3 DEF MetricsInv, ChartInv
<1>8. Cardinality(Units(Keys, n)) = Cardinality(Shown)
  <2>1. n \in [Keys -> Nat]
    BY <1>7
  <2>2. ASSUME NEW k \in Keys PROVE n[k] = Cardinality(Part(Shown, f, k))
    <3>1. Part(Shown, f, k) = {e \in Shown : Key(t[e]) = k}
      BY DEF Part
    <3> QED
      BY <1>7, <3>1
  <2>3. IsFiniteSet(Shown)
    BY <1>5, FiniteParts
  <2> HIDE DEF n, f, Shown
  <2> QED
    BY <1>6, <2>1, <2>2, <2>3, PartsAddUp
<1>9. Cardinality(UNION {{k} \X (1 .. chart[k].success) : k \in Keys}) = Cardinality(Shown)
  <2>1. \A k \in Keys : n[k] = chart[k].success
    OBVIOUS
  <2> HIDE DEF n, Shown
  <2>2. Units(Keys, n) = UNION {{k} \X (1 .. chart[k].success) : k \in Keys}
    BY <2>1 DEF Units
  <2> QED
    BY <1>8, <2>2
<1>10. W \ Shown \subseteq late \cup moved
  <2> SUFFICES ASSUME NEW e \in W, e \notin Shown, e \notin moved
               PROVE  e \in late
    OBVIOUS
  <2>1. PICK g \in DOMAIN hourly : Key(g) = Key(t[e]) /\ ~(g <= t[e])
    OBVIOUS
  <2>2. g \in Nat /\ t[e] \in Nat /\ t[e] < g
    BY <1>1, <1>4, <2>1 DEF MetricsTypeOK
  <2>3. t[e] + Day <= g
    BY <2>1, <2>2, KeysRepeat
  <2>4. g <= HourOf(time) /\ HourOf(time) \in Nat
    BY <1>1, <1>2, HourIsNat DEF Tells, HoursOf, MetricsTypeOK
  <2>5. e \in InWindow
    BY <1>2, <1>4 DEF Recent, Present
  <2>6. t[e] = Hour(e)
    BY <1>2, <1>4, <2>5 DEF HoursOf, InWindow
  <2>7. Day \in Nat
    BY MetricsAssumption DEF MetricsAssumption
  <2> QED
    BY <2>2, <2>3, <2>4, <2>5, <2>6, <2>7
<1>11. Cardinality(Shown) <= Cardinality(W)
  BY <1>5, FiniteParts, FS_Subset
<1>12. Cardinality(W) <= Cardinality(Shown) + Cardinality(late \cup moved)
  <2>1. W \subseteq Shown \cup (late \cup moved)
    BY <1>10
  <2>2. IsFiniteSet(W) /\ IsFiniteSet(Shown) /\ IsFiniteSet(late \cup moved)
    BY <1>5, FiniteParts
  <2> HIDE DEF W, Shown, late
  <2> QED
    BY <2>1, <2>2, SizesAreNear
<1>13. /\ Cardinality(Shown) \in Nat /\ Cardinality(W) \in Nat
       /\ Cardinality(late \cup moved) \in Nat
  BY <1>5, FiniteParts
<1> HIDE DEF W, Shown, late
<1> QED
  BY <1>3, <1>9, <1>11, <1>12, <1>13 DEF late

\* The bars of the chart add up to the total of successes but for those of the
\* hour the window starts in, later hours of the clock that have taken its key,
\* and what has moved (the totals count every row, a bar shows one).
THEOREM ChartIsNearTotals == MetricsSpec => []ChartAddsUp
  BY ChartIsNear, MetricsInvCorrect, PTL

=============================================================================
