----------------------------- MODULE MCDelivery -----------------------------
(* Small instances of Delivery for TLC. *)
EXTENDS Delivery, MCPublishing

DeliveryFaults == Faults([crash |-> 1, ttl |-> 1])

=============================================================================
