-------------------------- MODULE MCWebhookDelivery --------------------------
(***************************************************************************)
(* Four deliveries of one nonce and one of another, to two triggers: d3, of*)
(* the first nonce, is for the other trigger, d4 has the wrong signature.  *)
(* d1 and d2 are alike.                                                    *)
(***************************************************************************)
EXTENDS WebhookDelivery, TLC

CONSTANTS d1, d2, d3, d4, d5, n1, n2, t1, t2

TwoTriggers    == {t1, t2}
FiveDeliveries == {d1, d2, d3, d4, d5}
TwoNonces      == {n1, n2}
OneElsewhere   == [d \in FiveDeliveries |-> IF d = d3 THEN t2 ELSE t1]
SameNonce      == [d \in FiveDeliveries |-> IF d = d5 THEN n2 ELSE n1]
AllButOne      == {d1, d2, d3, d5}
Swaps          == Permutations({d1, d2})

=============================================================================
