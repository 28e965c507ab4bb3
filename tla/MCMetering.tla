------------------------------ MODULE MCMetering ------------------------------
(* Metering, with model values for the resources and the pods. *)
EXTENDS Metering

CONSTANTS vm, other, p1, p2

=============================================================================
