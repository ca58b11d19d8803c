-------------------------------- MODULE Fifo --------------------------------
(***************************************************************************)
(* What a ring between two threads promises: a bounded queue.  Items come  *)
(* out once, unchanged, in the order they went in.                         *)
(***************************************************************************)
EXTENDS Sequences, Naturals

CONSTANTS Items, NoItem, Capacity

VARIABLES
  queue,   \* items put and not yet taken
  taken    \* the item taken last

Init == queue = <<>> /\ taken = NoItem

Put(x) ==
  /\ Len(queue) < Capacity
  /\ queue' = Append(queue, x)
  /\ UNCHANGED taken

Get ==
  /\ queue # <<>>
  /\ taken' = Head(queue)
  /\ queue' = Tail(queue)

Next == Get \/ \E x \in Items : Put(x)

Spec == Init /\ [][Next]_<<queue, taken>>

=============================================================================
