------------------------------ MODULE TaskRing ------------------------------
(***************************************************************************)
(* The ring buffers of the control manager (tr069_control.c): the task     *)
(* queue and the request queue have the same layout and the same code, an  *)
(* array with a head where items are picked and a tail where they are put. *)
(* One slot is always left free, so that head = tail means empty.          *)
(***************************************************************************)
EXTENDS Integers, Sequences

CONSTANTS
  Task,      \* the values that pass the validity check of put_task
  Zero,      \* the task whose code is 0, which memset leaves in every slot
  Size,      \* TR069_MAX_TASK_NUM / TR069_MAX_REQUEST_NUM
  None,      \* TR069_TASK_NONE, -1
  Done,      \* 0
  Failed     \* -1

ASSUME RingAssumption == /\ Size \in Nat \ {0}
                         /\ Zero \in Task

VARIABLES
  queue,     \* task_queue.queue
  head,      \* task_queue.head
  tail,      \* task_queue.tail
  call,      \* history: the last call, with the task it put
  result     \* what it returned

ringVars == <<queue, head, tail, call, result>>

Slot == 0 .. Size - 1

Succ(i) == (i + 1) % Size

RingTypeOK == /\ queue \in [Slot -> Task]
              /\ head \in Slot
              /\ tail \in Slot
              /\ call \in {<<"put", t>> : t \in Task} \union {<<"pick">>, <<"clear">>}
              /\ result \in Task \union {None, Done, Failed}

RingInit == /\ queue = [s \in Slot |-> Zero]
            /\ head = 0
            /\ tail = 0
            /\ call = <<"clear">>
            /\ result = Done

(* Mutant of PutTask: the full queue is not noticed.                        *)
PutTaskUnchecked(t) ==
  /\ call' = <<"put", t>>
  /\ queue' = [queue EXCEPT ![tail] = t]
  /\ tail' = Succ(tail)
  /\ result' = Done
  /\ UNCHANGED head

PutTask(t) ==
  /\ call' = <<"put", t>>
  /\ Succ(tail) # head
  /\ queue' = [queue EXCEPT ![tail] = t]
  /\ tail' = Succ(tail)
  /\ result' = Done
  /\ UNCHANGED head

PutTaskFull(t) ==
  /\ call' = <<"put", t>>
  /\ Succ(tail) = head
  /\ result' = Failed
  /\ UNCHANGED <<queue, head, tail>>

PickTask ==
  /\ call' = <<"pick">>
  /\ tail # head
  /\ result' = queue[head]
  /\ head' = Succ(head)
  /\ UNCHANGED <<queue, tail>>

PickTaskEmpty ==
  /\ call' = <<"pick">>
  /\ tail = head
  /\ result' = None
  /\ UNCHANGED <<queue, head, tail>>

ClearTask ==
  /\ call' = <<"clear">>
  /\ queue' = [s \in Slot |-> Zero]
  /\ head' = 0
  /\ tail' = 0
  /\ result' = Done

RingNext == \/ \E t \in Task : PutTask(t) \/ PutTaskFull(t)
            \/ PickTask
            \/ PickTaskEmpty
            \/ ClearTask

RingSpec == RingInit /\ [][RingNext]_ringVars
-----------------------------------------------------------------------------
(***************************************************************************)
(* The abstract queue: the occupied slots, read from head up to tail.      *)
(***************************************************************************)
Count == IF head <= tail THEN tail - head ELSE tail - head + Size

Nth(i) == IF head + i - 1 < Size THEN head + i - 1 ELSE head + i - 1 - Size

Contents == [i \in 1 .. Count |-> queue[Nth(i)]]

Abs == INSTANCE Fifo WITH Item <- Task, Capacity <- Size - 1, items <- Contents

(* The ring behaves as a first-in first-out queue of Size - 1 places: no    *)
(* wrap of head or tail overwrites, reorders, repeats or forgets a task,    *)
(* and every call returns what the queue's contents demand.                 *)
ImplementsFifo == Abs!Spec
=============================================================================
