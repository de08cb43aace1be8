--------------------------- MODULE ExternalSignals ---------------------------
(***************************************************************************)
(* What external semaphore signalling promises to the rest of the virtual  *)
(* machine, whatever threads and signal handlers do: each accepted request *)
(* for a semaphore becomes exactly one signal of that semaphore, no signal *)
(* is made without a request, and a semaphore the image has registered     *)
(* never keeps a request waiting for ever.                                 *)
(***************************************************************************)
EXTENDS Naturals

CONSTANTS Index,        \* the entries of the table of external semaphores
          Registered    \* the entries the image already knows at start-up

VARIABLES requested,    \* requested[i]: how often semaphore i was asked for
          delivered     \* delivered[i]: how often the VM signalled it

vars == <<requested, delivered>>

Init == /\ requested = [i \in Index |-> 0]
        /\ delivered = [i \in Index |-> 0]

Request(i) == /\ requested' = [requested EXCEPT ![i] = @ + 1]
              /\ UNCHANGED delivered

Deliver(i) == /\ delivered[i] < requested[i]
              /\ delivered' = [delivered EXCEPT ![i] = @ + 1]
              /\ UNCHANGED requested

Next == \E i \in Index : Request(i) \/ Deliver(i)

SafeSpec == Init /\ [][Next]_vars

Spec == SafeSpec /\ \A i \in Registered : WF_vars(Deliver(i))
=============================================================================
