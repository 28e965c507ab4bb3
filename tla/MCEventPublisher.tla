-------------------------- MODULE MCEventPublisher --------------------------
(* TLC instances of EventPublisher. *)
EXTENDS EventPublisher, TLC

CONSTANTS o1, o2, r1, r2, t1

(* All objects belong to one tenant: order is only promised in a topic. *)
OneTenant == [o \in Objects |-> t1]

PublisherSymmetry ==
  Permutations(Requests) \cup Permutations(Objects \ Unpublishable)
=============================================================================
