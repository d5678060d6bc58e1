----------------------------- MODULE MCDelivery -----------------------------
(* Instances of Delivery. *)
EXTENDS Delivery, TLC

ConnSymmetry == Permutations(Conn)
=============================================================================
