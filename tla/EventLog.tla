------------------------------ MODULE EventLog ------------------------------
(***************************************************************************)
(* What the event publisher promises: an at-least-once log of the          *)
(* committed changes, one sequence per tenant.  Transactions, locks, the   *)
(* horizon, batches, retries and crashes are not part of the promise;      *)
(* EventPublisher is shown to implement it.                                *)
(***************************************************************************)
EXTENDS Naturals, Sequences

CONSTANTS
  Tenants,
  TenantOf,        \* the tenant of an object
  Unpublishable    \* objects of which no event can be made

VARIABLES
  outbox,   \* the committed changes that may still be written to the log
  log       \* log[t]: the events of t

Logged(c) ==
  LET events == log[TenantOf[c.obj]] IN \E i \in 1 .. Len(events) : events[i] = c

Init ==
  /\ outbox = {}
  /\ log = [t \in Tenants |-> <<>>]

(* A call commits: none of its changes was published before. *)
Commit ==
  /\ outbox \subseteq outbox'
  /\ \A c \in outbox' \ outbox : ~Logged(c)
  /\ UNCHANGED log

(* The event of a committed change is written, possibly once more. *)
Publish ==
  \E c \in outbox :
    /\ c.obj \notin Unpublishable
    /\ log' = [log EXCEPT ![TenantOf[c.obj]] = Append(@, c)]
    /\ UNCHANGED outbox

(* Changes that are in the log, or never will be, are forgotten.  They are *)
(* not published again.                                                    *)
Forget ==
  /\ outbox' \subseteq outbox
  /\ \A c \in outbox \ outbox' : c.obj \in Unpublishable \/ Logged(c)
  /\ UNCHANGED log

Next == Commit \/ Publish \/ Forget

Spec == Init /\ [][Next]_<<outbox, log>>
=============================================================================
