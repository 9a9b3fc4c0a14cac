------------------------------ MODULE ParamIds ------------------------------
(***************************************************************************)
(* How the parameter manager gives ids to the nodes of the parameter tree  *)
(* (tr069_parameter.c): a stack of ids whose bottom is the first id never  *)
(* given out and whose other entries are ids that were given back.  Its    *)
(* companions are param_table, from id to node, of which only the ids with *)
(* an entry matter here ("table", without the root and its id 0), and      *)
(* param_number ("count", the root included).                              *)
(***************************************************************************)
EXTENDS Integers, Sequences, FiniteSets

CONSTANTS
  MaxParam,    \* TR069_MAX_PARAM_NUM
  StackSize    \* TR069_PARAM_IDSTACK_SIZE

ASSUME IdsAssumption == /\ MaxParam \in Nat \ {0}
                        /\ StackSize \in Nat \ {0}

(* idstack[0 .. idstack_top - 1] is a list; its top is the last item.       *)
Top(s) == s[Len(s)]
Popped(s) == SubSeq(s, 1, Len(s) - 1)

(* idstack_pop: the stack never stays empty; the id that follows the one    *)
(* never given out before takes its place.                                  *)
IdstackPop(s) == IF Len(s) < 2 THEN <<Top(s) + 1>> ELSE Popped(s)

(* idstack_push refuses when the stack is full.                             *)
Pushable(s) == Len(s) < StackSize

(* uninit frees the entries 1 .. param_number + idstack_top - 2.            *)
UninitBound(s, count) == count + Len(s) - 2

-----------------------------------------------------------------------------

IdsTypeOK(s, count) == /\ s \in Seq(Nat)
                       /\ Len(s) \in 1 .. StackSize
                       /\ count \in 1 .. MaxParam

(* Every entry of the table has an id that exists in the array: a write to  *)
(* param_table[param_id] (tr069_parameter.c:1385, 1436) is inside it.       *)
IdsInTable(table) == table \subseteq 1 .. MaxParam - 1

(* param_number counts the entries and the root, also when nodes leaked:    *)
(* the limit that add_param checks is the limit of the table.               *)
NumberCounts(table, count) == IsFiniteSet(table) /\ count = Cardinality(table) + 1

(* The bottom of the stack is the id that uninit's bound computes from the  *)
(* two counters; the other ids of the stack are below it, once each, and    *)
(* none of them has a node.                                                 *)
BottomIsNext(table, s, count) == /\ s[1] = count + Len(s) - 1
                                 /\ s[1] <= MaxParam
                                 /\ table \subseteq 1 .. s[1] - 1
FreedIdsOnce(table, s) ==
  \A i \in 2 .. Len(s) :
    /\ s[i] \in (1 .. s[1] - 1) \ table
    /\ \A j \in 2 .. Len(s) : s[i] = s[j] => i = j

IdsRight(table, s, count) ==
  /\ IdsTypeOK(s, count)
  /\ IdsInTable(table)
  /\ NumberCounts(table, count)
  /\ BottomIsNext(table, s, count)
  /\ FreedIdsOnce(table, s)
=============================================================================
