----------------------------- MODULE MCReconciler -----------------------------
(* Instances of Reconciler for TLC: how often each kind of event happens. *)
EXTENDS Reconciler, TLC

NoFaults == [k \in Kinds |-> 0]

(* One event of each kind, and two retries. *)
EveryFault == [k \in Kinds |-> IF k = "retryable" THEN 2 ELSE 1]

(* A behaviour that starts without the events of ks. *)
Without(ks) == [k \in Kinds |-> IF k \in ks THEN 1 ELSE 0]

(* No restart and one retry, or two retries, a restart and a failed        *)
(* re-read.                                                                *)
Mixes == {Without({"retryable", "restart"}), Without({"fatal", "list", "break"})}

(* An event lost, a retry and a restart; no list and no re-read fails. *)
LostEvents == ("change" :> 1 @@ "retryable" :> 1 @@ "break" :> 1 @@ "restart" :> 1) @@ NoFaults

Unspent == {NoFaults}
=============================================================================
