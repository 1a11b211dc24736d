--------------------------- MODULE WebhookDelivery ---------------------------
(***************************************************************************)
(* Webhook triggers: verifyAndHandleWebhook (trigger.service.ts) with the  *)
(* nonces it stores against replays, the purge of expired nonces, and      *)
(* triggerManual (execution.service.ts), which it ends with.               *)
(*                                                                         *)
(* A sender may deliver the same nonce again, while the first delivery is  *)
(* still being handled or much later.  The table of nonces is that of all  *)
(* triggers and tenants, each with senders of its own.  The headers are    *)
(* there; whether the signature fits the body is given.  Each trigger is   *)
(* the only one of its workflow.                                           *)
(***************************************************************************)
EXTENDS Naturals, FiniteSets

CONSTANTS
  Triggers,
  Deliveries,   \* HTTP requests to the paths of the triggers
  TriggerOf,    \* the trigger each is for
  Nonces,
  NonceOf,      \* the nonce of each delivery
  Signed,       \* deliveries with the right signature
  MaxPurges,    \* bound on purges of a nonce
  MaxFaults     \* bound on failed calls and crashes

ASSUME WebhookAssumption ==
  /\ IsFiniteSet(Deliveries)
  /\ TriggerOf \in [Deliveries -> Triggers]
  /\ NonceOf \in [Deliveries -> Nonces]
  /\ Signed \subseteq Deliveries
  /\ MaxPurges \in Nat /\ MaxFaults \in Nat

VARIABLES
  trigger,   \* each is "active", "inactive" or deleted, "gone" with its workflow
  nonce,     \* the row of each nonce: "none", "fresh", "expired"
  purges,    \* how often its row was deleted
  pc,        \* where each delivery is, or its HTTP status
  keeper,    \* history: the delivery that has stored the row that is there, if any
  made,      \* history: deliveries that have made an execution
  burnt,     \* history: deliveries that have stored their nonce and then failed
  faults

history == <<keeper, made, burnt>>
vars    == <<trigger, nonce, purges, pc, history, faults>>

Pcs == {"idle", "verify", "check", "store", "trigger", "create", "enqueue",
        "202", "401", "404", "409", "500"}

\* Deliveries that have stored their nonce and are still to make the execution.
Starting == {d \in Deliveries : pc[d] \in {"trigger", "create"}}

Init ==
  /\ trigger = [t \in Triggers |-> "active"]
  /\ nonce = [n \in Nonces |-> "none"]
  /\ purges = [n \in Nonces |-> 0]
  /\ pc = [d \in Deliveries |-> "idle"]
  /\ keeper = [n \in Nonces |-> {}] /\ made = {} /\ burnt = {}
  /\ faults = 0

Goto(d, l) == pc' = [pc EXCEPT ![d] = l]

Insert(d) ==
  /\ nonce' = [nonce EXCEPT ![NonceOf[d]] = "fresh"]
  /\ keeper' = [keeper EXCEPT ![NonceOf[d]] = {d}]
  /\ UNCHANGED <<made, burnt>>

\* What comes of a delivery that has stored its nonce.
Make(d) == made' = made \cup {d} /\ UNCHANGED <<keeper, burnt>>
Burn(d) == burnt' = burnt \cup {d} /\ UNCHANGED <<keeper, made>>

-----------------------------------------------------------------------------
(* verifyAndHandleWebhook.                                                  *)

Find(d) ==
  /\ pc[d] = "idle"
  /\ Goto(d, IF trigger[TriggerOf[d]] = "active" THEN "verify" ELSE "404")
  /\ UNCHANGED <<trigger, nonce, purges, history, faults>>

\* Seeded bug: a delivery with a wrong signature uses its nonce up as well.
VerifySpendsNonce(d) ==
  /\ pc[d] = "verify"
  /\ IF d \in Signed
       THEN Goto(d, "check") /\ UNCHANGED <<nonce, history>>
       ELSE Goto(d, "401") /\ Insert(d)
  /\ UNCHANGED <<trigger, purges, faults>>

Verify(d) ==
  /\ pc[d] = "verify"
  /\ Goto(d, IF d \in Signed THEN "check" ELSE "401")
  /\ UNCHANGED <<trigger, nonce, purges, history, faults>>

\* A row is a duplicate, expired or not, whichever trigger it was stored for.
CheckNonce(d) ==
  /\ pc[d] = "check"
  /\ Goto(d, IF nonce[NonceOf[d]] # "none" THEN "409" ELSE "store")
  /\ UNCHANGED <<trigger, nonce, purges, history, faults>>

\* Seeded bug: upsert instead of create.
StoreUpserts(d) ==
  /\ pc[d] = "store"
  /\ Goto(d, "trigger") /\ Insert(d)
  /\ UNCHANGED <<trigger, purges, faults>>

\* The nonce is unique: of two deliveries that have both passed the check one
\* fails, with an error that nothing maps to 409.
StoreNonce(d) ==
  /\ pc[d] = "store"
  /\ IF nonce[NonceOf[d]] = "none"
       THEN Goto(d, "trigger") /\ Insert(d)
       ELSE Goto(d, "500") /\ UNCHANGED <<nonce, history>>
  /\ UNCHANGED <<trigger, purges, faults>>

\* triggerManual: the workflow and its version, the execution, the job.
TriggerRead(d) ==
  /\ pc[d] = "trigger"
  /\ IF trigger[TriggerOf[d]] = "gone"
       THEN Goto(d, "404") /\ Burn(d)
       ELSE Goto(d, "create") /\ UNCHANGED history
  /\ UNCHANGED <<trigger, nonce, purges, faults>>

CreateExecution(d) ==
  /\ pc[d] = "create"
  /\ IF trigger[TriggerOf[d]] = "gone"
       THEN Goto(d, "500") /\ Burn(d)
       ELSE Goto(d, "enqueue") /\ Make(d)
  /\ UNCHANGED <<trigger, nonce, purges, faults>>

Enqueue(d) ==
  /\ pc[d] = "enqueue"
  /\ Goto(d, "202")
  /\ UNCHANGED <<trigger, nonce, purges, history, faults>>

\* A call rejects, or the process dies.
Fail(d) ==
  /\ pc[d] \in {"verify", "check", "store", "trigger", "create", "enqueue"}
  /\ faults < MaxFaults /\ faults' = faults + 1
  /\ Goto(d, "500")
  /\ IF d \in Starting THEN Burn(d) ELSE UNCHANGED history
  /\ UNCHANGED <<trigger, nonce, purges>>

-----------------------------------------------------------------------------
(* Five minutes, the hourly purge, and what happens to a trigger.           *)

Expire(n) ==
  /\ nonce[n] = "fresh"
  /\ nonce' = [nonce EXCEPT ![n] = "expired"]
  /\ UNCHANGED <<trigger, purges, pc, history, faults>>

Expired == {n \in Nonces : nonce[n] = "expired"}

Purge ==
  /\ \A n \in Nonces : purges[n] < MaxPurges
  /\ Expired # {}
  /\ nonce' = [n \in Nonces |-> IF n \in Expired THEN "none" ELSE nonce[n]]
  /\ keeper' = [n \in Nonces |-> IF n \in Expired THEN {} ELSE keeper[n]]
  /\ purges' = [n \in Nonces |-> IF n \in Expired THEN purges[n] + 1 ELSE purges[n]]
  /\ UNCHANGED <<trigger, pc, made, burnt, faults>>

Toggle(t) ==
  /\ trigger[t] # "gone"
  /\ trigger' = [trigger EXCEPT ![t] = IF @ = "active" THEN "inactive" ELSE "active"]
  /\ UNCHANGED <<nonce, purges, pc, history, faults>>

\* The workflow is deleted, its trigger with it.
Remove(t) ==
  /\ trigger[t] # "gone"
  /\ trigger' = [trigger EXCEPT ![t] = "gone"]
  /\ UNCHANGED <<nonce, purges, pc, history, faults>>

-----------------------------------------------------------------------------
Handle(d) ==
  \/ Find(d) \/ Verify(d) \/ CheckNonce(d) \/ StoreNonce(d) \/ TriggerRead(d)
  \/ CreateExecution(d) \/ Enqueue(d)

Next ==
  \/ \E d \in Deliveries : Handle(d) \/ Fail(d)
  \/ \E n \in Nonces : Expire(n)
  \/ Purge
  \/ \E t \in Triggers : Toggle(t) \/ Remove(t)

Spec == Init /\ [][Next]_vars

-----------------------------------------------------------------------------
TypeOK ==
  /\ trigger \in [Triggers -> {"active", "inactive", "gone"}]
  /\ nonce \in [Nonces -> {"none", "fresh", "expired"}]
  /\ purges \in [Nonces -> 0 .. MaxPurges]
  /\ pc \in [Deliveries -> Pcs]
  /\ keeper \in [Nonces -> SUBSET Deliveries]
  /\ made \subseteq Deliveries /\ burnt \subseteq Deliveries
  /\ faults \in 0 .. MaxFaults

\* A nonce starts one execution, however many deliveries of it are handled at
\* once, for one trigger or for several, and however they fail; another one only
\* after its row had expired and was purged.
OneExecutionPerNonce ==
  \A n \in Nonces : Cardinality({d \in made : NonceOf[d] = n}) <= purges[n] + 1

\* A delivery is refused as a duplicate on account of another one: a delivery
\* with the right signature has stored that nonce since the last purge and has
\* made an execution, is about to, or has failed after it.  That one may have
\* been for another trigger: the refused message need not have been received.
\* But nobody who cannot sign makes a trigger refuse messages, and a nonce that
\* no other delivery has is never refused.
RefusedForAnother ==
  [][\A d \in Deliveries :
       pc[d] = "check" /\ pc'[d] = "409" =>
         \E c \in Signed \ {d} :
           /\ keeper[NonceOf[d]] = {c} /\ NonceOf[c] = NonceOf[d]
           /\ c \in made \cup burnt \cup Starting]_vars

=============================================================================
