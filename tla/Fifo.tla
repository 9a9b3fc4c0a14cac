-------------------------------- MODULE Fifo --------------------------------
(***************************************************************************)
(* What a queue of the control manager promises its callers, whatever its  *)
(* layout: a bounded first-in first-out list whose operations report what  *)
(* they did.  `call` and `result` are the last call and what it returned.  *)
(***************************************************************************)
EXTENDS Naturals, Sequences

CONSTANTS
  Item,      \* what may be queued
  Capacity,  \* how many items the queue holds at most
  None,      \* the result of picking from an empty queue
  Done,      \* the result of a call that succeeded (0)
  Failed     \* the result of a call that was refused (-1)

VARIABLES items, call, result
vars == <<items, call, result>>

Init == items = <<>> /\ call = <<"clear">> /\ result = Done

Put(i) == /\ call' = <<"put", i>>
          /\ Len(items) < Capacity
          /\ items' = Append(items, i)
          /\ result' = Done

Refuse(i) == /\ call' = <<"put", i>>
             /\ Len(items) = Capacity
             /\ result' = Failed
             /\ UNCHANGED items

Pick == /\ call' = <<"pick">>
        /\ items # <<>>
        /\ result' = Head(items)
        /\ items' = Tail(items)

PickEmpty == /\ call' = <<"pick">>
             /\ items = <<>>
             /\ result' = None
             /\ UNCHANGED items

Clear == call' = <<"clear">> /\ items' = <<>> /\ result' = Done

Next == (\E i \in Item : Put(i) \/ Refuse(i)) \/ Pick \/ PickEmpty \/ Clear

Spec == Init /\ [][Next]_vars
=============================================================================
