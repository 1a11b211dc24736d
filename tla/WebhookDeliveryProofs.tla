----------------------- MODULE WebhookDeliveryProofs -----------------------
(***************************************************************************)
(* Proofs about WebhookDelivery, for any finite set of deliveries.         *)
(*                                                                         *)
(* A nonce is a token: storing it takes it, the purge gives it back.  Each *)
(* delivery that has made an execution, or is about to, stands for a time  *)
(* its nonce was taken: CountInv.  The row that is there was stored by one *)
(* of them, or by one that has failed since: RowInv.                       *)
(***************************************************************************)
EXTENDS WebhookDelivery, FiniteSetTheorems, TLAPS

Taken(n) == IF nonce[n] = "none" THEN 0 ELSE 1

\* The deliveries a nonce was spent on.
Spenders(n) == {d \in Deliveries : NonceOf[d] = n /\ d \in made \cup Starting}

CountInv == \A n \in Nonces : Cardinality(Spenders(n)) <= purges[n] + Taken(n)

\* What has been stored, and what became of it.
Spent == made \cup burnt \cup Starting

\* Who has stored the row of a nonce.
RowInv ==
  \A n \in Nonces :
    nonce[n] # "none" =>
      \E c \in Signed : keeper[n] = {c} /\ NonceOf[c] = n /\ c \in Spent

\* Those that have not come to the check have stored nothing, and only those
\* with the right signature get there.
WaitInv ==
  \A d \in Deliveries :
    /\ pc[d] \in {"check", "store"} => d \in Signed /\ d \notin Spent
    /\ pc[d] \in {"idle", "verify"} => d \notin Spent

IInv == TypeOK /\ CountInv /\ RowInv /\ WaitInv

-----------------------------------------------------------------------------
\* Every variable stays in its type; in particular a nonce is purged at most
\* MaxPurges times and a delivery is always at a known place.
THEOREM TypeCorrect == Spec => []TypeOK
<1>1. Init => TypeOK
  BY WebhookAssumption DEF WebhookAssumption, Init, TypeOK, Pcs
<1>2. TypeOK /\ [Next]_vars => TypeOK'
  <2> SUFFICES ASSUME TypeOK, [Next]_vars PROVE TypeOK'
    OBVIOUS
  <2> USE WebhookAssumption DEF WebhookAssumption, TypeOK, Pcs, Goto, history
  <2>1. ASSUME NEW d \in Deliveries, Handle(d) PROVE TypeOK'
    <3>1. CASE Find(d) BY <3>1 DEF Find
    <3>2. CASE Verify(d) BY <3>2 DEF Verify
    <3>3. CASE CheckNonce(d) BY <3>3 DEF CheckNonce
    <3>4. CASE StoreNonce(d) BY <3>4 DEF StoreNonce, Insert
    <3>5. CASE TriggerRead(d) BY <3>5 DEF TriggerRead, Burn
    <3>6. CASE CreateExecution(d) BY <3>6 DEF CreateExecution, Burn, Make
    <3>7. CASE Enqueue(d) BY <3>7 DEF Enqueue
    <3> QED BY <2>1, <3>1, <3>2, <3>3, <3>4, <3>5, <3>6, <3>7 DEF Handle
  <2>2. ASSUME NEW d \in Deliveries, Fail(d) PROVE TypeOK'
    BY <2>2 DEF Fail, Burn
  <2>3. ASSUME NEW n \in Nonces, Expire(n) PROVE TypeOK'
    BY <2>3 DEF Expire
  <2>4. CASE Purge
    BY <2>4 DEF Purge
  <2>5. ASSUME NEW t \in Triggers, Toggle(t) \/ Remove(t) PROVE TypeOK'
    BY <2>5 DEF Toggle, Remove
  <2>6. CASE UNCHANGED vars
    BY <2>6 DEF vars
  <2> QED BY <2>1, <2>2, <2>3, <2>4, <2>5, <2>6 DEF Next
<1> QED BY <1>1, <1>2, PTL DEF Spec

-----------------------------------------------------------------------------
\* Deliveries are finitely many, so those a nonce was spent on are too.
LEMMA SpendersFinite ==
  ASSUME NEW n \in Nonces
  PROVE  /\ IsFiniteSet(Spenders(n)) /\ Cardinality(Spenders(n)) \in Nat
         /\ IsFiniteSet(Spenders(n)') /\ Cardinality(Spenders(n)') \in Nat
<1>1. Spenders(n) \subseteq Deliveries /\ Spenders(n)' \subseteq Deliveries
  BY DEF Spenders
<1>2. IsFiniteSet(Deliveries)
  BY WebhookAssumption DEF WebhookAssumption
<1> QED BY <1>1, <1>2, FS_Subset, FS_CardinalityType

\* Who spends no nonce leaves the count as it is, or lowers it.
LEMMA CountKept ==
  ASSUME IInv, NEW n \in Nonces, Spenders(n)' \subseteq Spenders(n),
         purges'[n] \in Nat, purges[n] + Taken(n) <= purges'[n] + Taken(n)'
  PROVE  Cardinality(Spenders(n)') <= purges'[n] + Taken(n)'
<1>1. Cardinality(Spenders(n)') <= Cardinality(Spenders(n))
  BY SpendersFinite, FS_Subset
<1>2. purges[n] \in Nat /\ Taken(n) \in Nat /\ Taken(n)' \in Nat
  BY DEF IInv, TypeOK, Taken
<1>3. Cardinality(Spenders(n)) <= purges[n] + Taken(n)
  BY DEF IInv, CountInv
<1> QED BY <1>1, <1>2, <1>3, SpendersFinite

\* A delivery that moves without storing its nonce.  One that has stored it
\* before makes its execution, is about to or has failed.
LEMMA Moves ==
  ASSUME IInv, NEW d \in Deliveries, NEW l \in Pcs, Goto(d, l),
         UNCHANGED <<nonce, purges, keeper>>,
         \/ /\ d \in Starting /\ l \notin {"idle", "verify", "check", "store"}
            /\ made' \in {made, made \cup {d}} /\ burnt' \in {burnt, burnt \cup {d}}
            /\ d \in made' \cup burnt' \/ l \in {"trigger", "create"}
         \/ /\ d \notin Starting /\ l \notin {"idle", "trigger", "create"}
            /\ UNCHANGED <<made, burnt>>
            /\ l \in {"verify", "check", "store"} =>
                 pc[d] \in {"idle", "verify", "check"} /\ (l = "verify" \/ d \in Signed)
  PROVE  CountInv' /\ RowInv' /\ WaitInv'
<1>1. pc' = [pc EXCEPT ![d] = l] /\ pc \in [Deliveries -> Pcs]
  BY DEF IInv, TypeOK, Goto
<1>2. /\ Starting' \subseteq Starting /\ Starting \subseteq Starting' \cup {d}
      /\ d \in Starting' <=> l \in {"trigger", "create"}
  BY <1>1 DEF Starting
<1>3. Spent' = Spent
  BY <1>2 DEF Spent
<1>4. CountInv'
  <2> SUFFICES ASSUME NEW n \in Nonces
               PROVE  Cardinality(Spenders(n)') <= purges'[n] + Taken(n)'
    BY DEF CountInv
  <2>1. Spenders(n)' \subseteq Spenders(n)
    BY <1>2 DEF Spenders
  <2>2. purges'[n] \in Nat /\ purges[n] + Taken(n) <= purges'[n] + Taken(n)'
    BY WebhookAssumption DEF WebhookAssumption, IInv, TypeOK, Taken
  <2> QED BY <2>1, <2>2, CountKept
<1>5. RowInv'
  BY <1>3 DEF IInv, RowInv
<1>6. WaitInv'
  BY <1>1, <1>3 DEF IInv, WaitInv
<1> QED BY <1>4, <1>5, <1>6

\* The delivery that stores the nonce takes it.
LEMMA StepIn ==
  ASSUME IInv, NEW d \in Deliveries, StoreNonce(d), nonce[NonceOf[d]] = "none"
  PROVE  CountInv' /\ RowInv' /\ WaitInv'
<1>1. /\ pc' = [pc EXCEPT ![d] = "trigger"] /\ pc[d] = "store" /\ UNCHANGED <<purges, made, burnt>>
      /\ nonce' = [nonce EXCEPT ![NonceOf[d]] = "fresh"]
      /\ keeper' = [keeper EXCEPT ![NonceOf[d]] = {d}]
  BY DEF StoreNonce, Goto, Insert
<1>2. /\ pc \in [Deliveries -> Pcs] /\ nonce \in [Nonces -> {"none", "fresh", "expired"}]
      /\ keeper \in [Nonces -> SUBSET Deliveries] /\ NonceOf[d] \in Nonces
  BY WebhookAssumption DEF WebhookAssumption, IInv, TypeOK
<1>3. Starting' = Starting \cup {d} /\ Spent' = Spent \cup {d}
  BY <1>1, <1>2 DEF Starting, Spent
<1>4. ASSUME NEW n \in Nonces
      PROVE  Cardinality(Spenders(n)') <= purges'[n] + Taken(n)'
  <2>1. Cardinality(Spenders(n)) <= purges[n] + Taken(n) /\ purges[n] \in Nat /\ purges'[n] = purges[n]
    BY <1>1, WebhookAssumption DEF WebhookAssumption, IInv, TypeOK, CountInv
  <2>2. CASE NonceOf[d] = n
    <3>1. Taken(n) = 0 /\ Taken(n)' = 1
      BY <1>1, <1>2, <2>2 DEF Taken
    <3>2. d \notin Spenders(n)
      BY <1>1 DEF IInv, WaitInv, Spenders, Spent
    <3>3. Spenders(n)' = Spenders(n) \cup {d}
      BY <1>1, <1>3, <2>2 DEF Spenders
    <3>4. Cardinality(Spenders(n)') = Cardinality(Spenders(n)) + 1
      BY <3>2, <3>3, SpendersFinite, FS_AddElement
    <3> QED BY <2>1, <3>1, <3>4, SpendersFinite
  <2>3. CASE NonceOf[d] # n
    <3>1. Taken(n)' = Taken(n) /\ Taken(n) \in Nat
      BY <1>1, <1>2, <2>3 DEF Taken
    <3>2. Spenders(n)' = Spenders(n)
      BY <1>1, <1>3, <2>3 DEF Spenders
    <3> QED BY <2>1, <3>1, <3>2
  <2> QED BY <2>2, <2>3
<1>5. RowInv'
  <2> SUFFICES ASSUME NEW n \in Nonces, nonce'[n] # "none"
               PROVE  \E c \in Signed : keeper'[n] = {c} /\ NonceOf[c] = n /\ c \in Spent'
    BY DEF RowInv
  <2>1. CASE NonceOf[d] = n
    <3>1. d \in Signed
      BY <1>1 DEF IInv, WaitInv
    <3> QED BY <1>1, <1>2, <1>3, <2>1, <3>1
  <2>2. CASE NonceOf[d] # n
    BY <1>1, <1>2, <1>3, <2>2 DEF IInv, RowInv
  <2> QED BY <2>1, <2>2
<1>6. WaitInv'
  BY <1>1, <1>2, <1>3 DEF IInv, WaitInv
<1> QED BY <1>4, <1>5, <1>6 DEF CountInv

\* A step of the clock, of the purge or of a trigger moves no delivery.
LEMMA StepAround ==
  ASSUME IInv, UNCHANGED <<pc, made, burnt>>,
         \A n \in Nonces :
           /\ purges'[n] \in Nat /\ purges[n] + Taken(n) <= purges'[n] + Taken(n)'
           /\ nonce'[n] # "none" => nonce[n] # "none" /\ keeper'[n] = keeper[n]
  PROVE  CountInv' /\ RowInv' /\ WaitInv'
<1>1. Starting' = Starting /\ Spent' = Spent
  BY DEF Starting, Spent
<1>2. \A n \in Nonces : Spenders(n)' \subseteq Spenders(n)
  BY <1>1 DEF Spenders
<1>3. CountInv'
  BY <1>2, CountKept DEF CountInv
<1>4. RowInv'
  BY <1>1 DEF IInv, RowInv
<1>5. WaitInv'
  BY <1>1 DEF IInv, WaitInv
<1> QED BY <1>3, <1>4, <1>5

\* Every step keeps the invariant.
LEMMA Step ==
  ASSUME IInv, TypeOK', [Next]_vars PROVE IInv'
<1> SUFFICES CountInv' /\ RowInv' /\ WaitInv'
  BY DEF IInv
<1>0. pc \in [Deliveries -> Pcs]
  BY DEF IInv, TypeOK
<1>1. ASSUME NEW d \in Deliveries, Handle(d)
      PROVE  CountInv' /\ RowInv' /\ WaitInv'
  <2>1. CASE Find(d) \/ Verify(d) \/ CheckNonce(d) \/ Enqueue(d)
    <3>1. PICK l \in {"verify", "404", "check", "401", "409", "store", "202"} :
            /\ Goto(d, l)
            /\ l \in {"verify", "check", "store"} =>
                 pc[d] \in {"idle", "verify", "check"} /\ (l = "verify" \/ d \in Signed)
      BY <2>1 DEF Find, Verify, CheckNonce, Enqueue, IInv, WaitInv
    <3>2. d \notin Starting /\ UNCHANGED <<nonce, purges, keeper, made, burnt>>
      BY <2>1 DEF Find, Verify, CheckNonce, Enqueue, Starting, history
    <3> QED BY <3>1, <3>2, Moves DEF Pcs
  <2>2. CASE StoreNonce(d)
    <3>1. CASE nonce[NonceOf[d]] = "none"
      BY <2>2, <3>1, StepIn
    <3>2. CASE nonce[NonceOf[d]] # "none"
      <4>1. Goto(d, "500") /\ d \notin Starting /\ UNCHANGED <<nonce, purges, keeper, made, burnt>>
        BY <2>2, <3>2 DEF StoreNonce, Starting, history
      <4> QED BY <4>1, Moves DEF Pcs
    <3> QED BY <3>1, <3>2
  <2>3. CASE TriggerRead(d) \/ CreateExecution(d)
    <3>1. d \in Starting /\ UNCHANGED <<nonce, purges, keeper>>
      BY <2>3 DEF TriggerRead, CreateExecution, Burn, Make, Starting, history
    <3>2. PICK l \in {"404", "create", "500", "enqueue"} :
            /\ Goto(d, l)
            /\ made' \in {made, made \cup {d}} /\ burnt' \in {burnt, burnt \cup {d}}
            /\ d \in made' \cup burnt' \/ l \in {"trigger", "create"}
      BY <2>3 DEF TriggerRead, CreateExecution, Burn, Make, history
    <3> QED BY <3>1, <3>2, Moves DEF Pcs
  <2> QED BY <1>1, <2>1, <2>2, <2>3 DEF Handle
<1>2. ASSUME NEW d \in Deliveries, Fail(d)
      PROVE  CountInv' /\ RowInv' /\ WaitInv'
  <2>1. Goto(d, "500") /\ UNCHANGED <<nonce, purges, keeper>>
    BY <1>2 DEF Fail, Burn, history
  <2>2. CASE d \in Starting
    BY <1>2, <2>1, <2>2, Moves DEF Fail, Burn, Pcs
  <2>3. CASE d \notin Starting
    BY <1>2, <2>1, <2>3, Moves DEF Fail, history, Pcs
  <2> QED BY <2>2, <2>3
<1>3. ASSUME NEW n \in Nonces, Expire(n)
      PROVE  CountInv' /\ RowInv' /\ WaitInv'
  <2>1. \A m \in Nonces : purges'[m] \in Nat /\ purges'[m] = purges[m] /\ keeper'[m] = keeper[m]
    BY <1>3, WebhookAssumption DEF WebhookAssumption, Expire, IInv, TypeOK, history
  <2>2. \A m \in Nonces :
          /\ Taken(m)' = Taken(m) /\ Taken(m) \in Nat
          /\ nonce'[m] # "none" => nonce[m] # "none"
    BY <1>3 DEF Expire, IInv, TypeOK, Taken
  <2>3. UNCHANGED <<pc, made, burnt>>
    BY <1>3 DEF Expire, history
  <2> QED BY <2>1, <2>2, <2>3, StepAround
<1>4. CASE Purge
  <2>1. \A m \in Nonces :
          /\ purges[m] \in Nat /\ purges'[m] \in Nat
          /\ purges'[m] = IF m \in Expired THEN purges[m] + 1 ELSE purges[m]
    BY <1>4, WebhookAssumption DEF WebhookAssumption, Purge, IInv, TypeOK
  <2>2. \A m \in Nonces :
          /\ Taken(m)' = (IF m \in Expired THEN 0 ELSE Taken(m)) /\ Taken(m) \in {0, 1}
          /\ nonce'[m] # "none" => nonce[m] # "none" /\ keeper'[m] = keeper[m]
    BY <1>4 DEF Purge, IInv, TypeOK, Taken
  <2>3. \A m \in Nonces : purges[m] + Taken(m) <= purges'[m] + Taken(m)'
    BY <2>1, <2>2
  <2>4. UNCHANGED <<pc, made, burnt>>
    BY <1>4 DEF Purge
  <2> QED BY <2>1, <2>2, <2>3, <2>4, StepAround
<1>5. CASE (\E t \in Triggers : Toggle(t) \/ Remove(t)) \/ UNCHANGED vars
  <2>1. UNCHANGED <<nonce, purges, pc, keeper, made, burnt>>
    BY <1>5 DEF Toggle, Remove, vars, history
  <2>2. \A m \in Nonces : purges'[m] \in Nat /\ purges'[m] = purges[m]
    BY <2>1, WebhookAssumption DEF WebhookAssumption, IInv, TypeOK
  <2>3. \A m \in Nonces : Taken(m)' = Taken(m) /\ Taken(m) \in Nat
    BY <2>1 DEF Taken
  <2> QED BY <2>1, <2>2, <2>3, StepAround
<1> QED BY <1>1, <1>2, <1>3, <1>4, <1>5 DEF Next

LEMMA Invariant == Spec => []IInv
<1>1. Init => IInv
  <2> SUFFICES ASSUME Init PROVE IInv
    OBVIOUS
  <2>1. TypeOK
    BY WebhookAssumption DEF WebhookAssumption, Init, TypeOK, Pcs
  <2>2. Starting = {} /\ Spent = {} /\ \A n \in Nonces : Spenders(n) = {}
    BY DEF Init, Starting, Spent, Spenders
  <2>3. CountInv
    BY <2>2, FS_EmptySet DEF Init, CountInv, Taken
  <2> QED BY <2>1, <2>2, <2>3 DEF Init, IInv, RowInv, WaitInv
<1>2. IInv /\ TypeOK' /\ [Next]_vars => IInv'
  BY Step
<1> QED BY <1>1, <1>2, TypeCorrect, PTL DEF Spec

\* A nonce starts one execution until its row is purged, whatever the number of
\* deliveries and triggers, their order and their failures.
THEOREM NoncesAreSpentOnce == Spec => []OneExecutionPerNonce
<1>1. IInv => OneExecutionPerNonce
  <2> SUFFICES ASSUME IInv, NEW n \in Nonces
               PROVE  Cardinality({d \in made : NonceOf[d] = n}) <= purges[n] + 1
    BY DEF OneExecutionPerNonce
  <2> DEFINE E == {d \in made : NonceOf[d] = n}
  <2>1. purges[n] \in Nat /\ Taken(n) \in {0, 1}
    BY WebhookAssumption DEF WebhookAssumption, IInv, TypeOK, Taken
  <2>2. E \subseteq Spenders(n)
    BY DEF IInv, TypeOK, Spenders
  <2>3. Cardinality(E) <= Cardinality(Spenders(n)) /\ Cardinality(E) \in Nat
    <3> HIDE DEF E
    <3> QED BY <2>2, SpendersFinite, FS_Subset, FS_CardinalityType
  <2>4. Cardinality(Spenders(n)) <= purges[n] + Taken(n)
    BY DEF IInv, CountInv
  <2> QED BY <2>1, <2>3, <2>4, SpendersFinite
<1> QED BY <1>1, Invariant, PTL

\* A delivery is refused as a duplicate only for another one, with the right
\* signature and the same nonce, that has stored it since the last purge and
\* has made an execution, is about to, or has failed; for any deliveries to any
\* triggers (trigger.service.ts:187-197).
THEOREM RefusalsHaveACause == Spec => RefusedForAnother
<1>1. ASSUME IInv, [Next]_vars, NEW d \in Deliveries, pc[d] = "check", pc'[d] = "409"
      PROVE  \E c \in Signed \ {d} :
               /\ keeper[NonceOf[d]] = {c} /\ NonceOf[c] = NonceOf[d]
               /\ c \in made \cup burnt \cup Starting
  <2>1. pc \in [Deliveries -> Pcs] /\ NonceOf[d] \in Nonces
    BY <1>1, WebhookAssumption DEF WebhookAssumption, IInv, TypeOK
  <2>2. CASE CheckNonce(d)
    <3>1. nonce[NonceOf[d]] # "none"
      BY <1>1, <2>1, <2>2 DEF CheckNonce, Goto
    <3>2. PICK c \in Signed :
            keeper[NonceOf[d]] = {c} /\ NonceOf[c] = NonceOf[d] /\ c \in Spent
      BY <1>1, <2>1, <3>1 DEF IInv, RowInv
    <3>3. d \notin Spent
      BY <1>1 DEF IInv, WaitInv
    <3> QED BY <3>2, <3>3 DEF Spent
  <2>3. ASSUME NEW e \in Deliveries, Handle(e) \/ Fail(e), ~CheckNonce(d) PROVE FALSE
    <3>1. CASE e # d
      BY <1>1, <2>1, <2>3, <3>1
      DEF Handle, Find, Verify, CheckNonce, StoreNonce, TriggerRead, CreateExecution, Enqueue, Fail, Goto
    <3>2. CASE e = d
      BY <1>1, <2>1, <2>3, <3>2
      DEF Handle, Find, Verify, StoreNonce, TriggerRead, CreateExecution, Enqueue, Fail, Goto
    <3> QED BY <3>1, <3>2
  <2>4. ASSUME UNCHANGED pc PROVE FALSE
    BY <1>1, <2>4
  <2> QED
    BY <1>1, <2>2, <2>3, <2>4 DEF Next, Expire, Purge, Toggle, Remove, vars
<1>2. IInv /\ [Next]_vars =>
        [\A d \in Deliveries :
           pc[d] = "check" /\ pc'[d] = "409" =>
             \E c \in Signed \ {d} :
               /\ keeper[NonceOf[d]] = {c} /\ NonceOf[c] = NonceOf[d]
               /\ c \in made \cup burnt \cup Starting]_vars
  BY <1>1
<1> QED BY <1>2, Invariant, PTL DEF Spec, RefusedForAnother

=============================================================================
