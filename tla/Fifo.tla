--------------------------------- MODULE Fifo ---------------------------------
(***************************************************************************)
(* What a queue shared by threads promises: elements leave it in the order *)
(* in which they entered, each of them once.                               *)
(***************************************************************************)
EXTENDS Sequences

CONSTANT Elements

VARIABLE items

Init == items = <<>>

Put(e) == items' = Append(items, e)

Take == items # <<>> /\ items' = Tail(items)

Next == (\E e \in Elements : Put(e)) \/ Take

Spec == Init /\ [][Next]_items
=============================================================================
