------------------------ MODULE MCClusterProvisioning ------------------------
(* Instances of ClusterProvisioning for TLC: how often each kind of event   *)
(* happens.                                                                *)
EXTENDS ClusterProvisioning, TLC

Never == [k \in Kinds |-> 0]

(* Two changes of the spec, a deletion, a stale copy and any two faults.   *)
EveryKind == "edit" :> 2 @@ "delete" :> 1 @@ "stale" :> 1 @@ "fault" :> 2

(* Nothing fails; copies may be stale. *)
StaleCopies == ("stale" :> 2 @@ "delete" :> 1) @@ Never
=============================================================================
