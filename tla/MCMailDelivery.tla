--------------------------- MODULE MCMailDelivery ---------------------------
(* Instances of MailDelivery for TLC.                                      *)
EXTENDS MailDelivery, TLC

CONSTANTS m1, m2, r1, r2, a1, a2

(* Two messages and the bounce of one address; the other is only ever      *)
(* reported by somebody who is not the provider.                           *)
Addresses == m1 :> a1 @@ m2 :> a1 @@ r1 :> a1 @@ r2 :> a2

(* Deliveries are interchangeable. *)
Symmetry == Permutations(Callback)
=============================================================================
