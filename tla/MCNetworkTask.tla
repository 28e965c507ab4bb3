---------------------------- MODULE MCNetworkTask ----------------------------
(* NetworkTask, for a VirtualNetwork with two Subnets and one manager, and *)
(* another with one Subnet and two managers.                               *)
EXTENDS NetworkTask, TLC

CONSTANTS s1, s2, s3

Siblings == {s1, s2}
Networks == [s \in Subnets |-> IF s \in Siblings THEN "shared" ELSE "own"]
ManagersOfNetworks == [shared |-> <<"fabric">>, own |-> <<"fabric", "kubernetes">>]

Start(ss, n) == [subnets |-> ss, faults |-> n]

(* Both Subnets and a fault, one of them and two faults, two managers and  *)
(* a fault.                                                                *)
Faulty == {Start(Siblings, 1), Start({s1}, 2), Start({s2}, 2), Start({s3}, 1)}

(* Both Subnets, one of them and a fault, two managers. *)
Waiting == {Start(Siblings, 0), Start({s1}, 1), Start({s3}, 0)}

SubnetSymmetry == Permutations(Siblings)

=============================================================================
