--------------------------- MODULE MCObjectStore ---------------------------
(* TLC instances of ObjectStore: two or three calls on one or two objects. *)
EXTENDS ObjectStore, TLC

(* Requests that do not differ in their lock flag are interchangeable, and *)
(* so are objects and finalizers: no property names one of them.           *)
StoreSymmetry ==
  Permutations(LockedRequests) \cup Permutations(Requests \ LockedRequests)
    \cup Permutations(Objects) \cup Permutations(Finalizers)
=============================================================================
