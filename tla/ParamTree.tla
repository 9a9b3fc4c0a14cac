----------------------------- MODULE ParamTree -----------------------------
(***************************************************************************)
(* The parameter tree of tr069_parameter.c: tr069_parameter_init adds the  *)
(* parameters of the standard one by one; add_param, remove_param,         *)
(* find_node, get_param and the lookup inside set_value / set_attribute    *)
(* walk down the tree, each comparing names in its own way; uninit frees   *)
(* it.                                                                     *)
(*                                                                         *)
(* A name is the sequence of its components below "Device."; the text of   *)
(* an object ends with a dot, the text of a parameter does not.  Two       *)
(* components are either unrelated texts or one is the beginning of the    *)
(* other (Longer).  Ids are given as ParamIds says.                        *)
(***************************************************************************)
EXTENDS ParamIds, SequencesExt

CONSTANTS
  Comp,         \* components of names
  Longer,       \* the pairs <<c, d>> such that the text of c begins with d
  Index,        \* the parameters: TR069_PARAM_...
  NameOf,       \* tr069_parameter_name_table
  MaxDepth,     \* the components of the longest name
  CommonCalls, CtcCalls, CuCalls, LastCalls,
                \* the add_param calls of init_params in their order: for
                \* every standard, for CTC, for CU, and for every standard
                \* again; a call is a name and an index
  Stand,        \* the values of g_tr069_stand
  MaxLate       \* bound: calls of add_param, remove_param and uninit after init

Names == {NameOf[x] : x \in Index}
Objects == UNION {{SubSeq(p, 1, k) : k \in 1 .. Len(p) - 1} : p \in Names}

Calls == [name : Names, index : Index]

ASSUME TreeAssumption ==
  /\ NameOf \in [Index -> Seq(Comp)]
  /\ MaxDepth \in Nat
  /\ MaxLate \in Nat
  /\ \A x \in Index : Len(NameOf[x]) \in 1 .. MaxDepth
  /\ {CommonCalls, CtcCalls, CuCalls, LastCalls} \subseteq Seq(Calls)

VARIABLES
  stand,        \* g_tr069_stand
  nodes,        \* param_table: from id to node; 0 is the root
  idstack, number,
  calls,        \* the calls init_params has still to make
  late          \* calls made after that
vars == <<stand, nodes, idstack, number, calls, late>>

InitCalls(s) == CommonCalls \o (IF s = "CTC" THEN CtcCalls ELSE <<>>)
                \o (IF s = "CU" THEN CuCalls ELSE <<>>) \o LastCalls

Node(path, leaf, index) == [path |-> path, leaf |-> leaf, index |-> index, child |-> <<>>]
Root == Node(<<>>, FALSE, 0)

Init == /\ nodes = [i \in {0} |-> Root]
        /\ idstack = <<1>>
        /\ number = 1
        /\ stand \in Stand
        /\ calls = InitCalls(stand)
        /\ late = 0

-----------------------------------------------------------------------------
(* Tables of nodes: what hangs below a node, the node included, is the      *)
(* least set that has the children of each of its members.                  *)
Closed(t, S) == \A j \in S : ToSet(t[j].child) \subseteq S
Under(t, i) ==
  LET closed == {S \in SUBSET DOMAIN t : i \in S /\ Closed(t, S)}
  IN {k \in DOMAIN t : \A S \in closed : k \in S}

(* The nodes and the parameters that are in the tree.                       *)
Linked(t) == Under(t, 0)
Leaves(t) == {i \in Linked(t) : t[i].leaf}

(* Comparisons of names.                                                    *)

(* memcmp over the text of p without a dot behind it: the node may go on    *)
(* in the middle of its last component.                                     *)
Begins(n, p) ==
  /\ Len(n.path) >= Len(p)
  /\ \A k \in 1 .. Len(p) - 1 : n.path[k] = p[k]
  /\ \/ n.path[Len(p)] = p[Len(p)]
     \/ <<n.path[Len(p)], p[Len(p)]>> \in Longer

(* memcmp over the text of p and the dot behind it.                         *)
BeginsDot(n, p) == /\ IsPrefix(p, n.path)
                   /\ n.leaf => Len(n.path) > Len(p)

Is(n, p, leaf) == n.path = p /\ n.leaf = leaf

(* The first node of a level that is in S, or Nowhere.                      *)
Nowhere == -1
FirstOf(level, S) ==
  LET K == {k \in 1 .. Len(level) : level[k] \in S}
  IN IF K = {} THEN Nowhere ELSE level[Min(K)]

(* A lookup takes the first node of each level that is among those it wants *)
(* there; one that lost its way stays lost.                                 *)
Lookup(wanted) ==
  LET level(i) == IF i = Nowhere THEN <<>> ELSE nodes[i].child
      at[k \in 0 .. Len(wanted)] ==
        IF k = 0 THEN 0 ELSE FirstOf(level(at[k - 1]), wanted[k])
  IN at[Len(wanted)]

(* tr069_parameter_find_node: all components but the last of a parameter's  *)
(* name are compared with their dot; the first node that begins with the    *)
(* last one is taken, and is the result only when it goes no further.       *)
FindNode(p, leaf) ==
  LET Dots == IF leaf THEN Len(p) - 1 ELSE Len(p)
      last == Lookup([k \in 1 .. Len(p) |-> {i \in DOMAIN nodes :
                IF k <= Dots THEN BeginsDot(nodes[i], SubSeq(p, 1, k))
                ELSE Begins(nodes[i], p)}])
  IN IF last # Nowhere /\ Is(nodes[last], p, leaf) THEN last ELSE Nowhere

(* Mutant of SetLookup: the end of the node's name is not looked at.        *)
SetLookupLoose(p) ==
  Lookup([k \in 1 .. Len(p) |-> {i \in DOMAIN nodes : Begins(nodes[i], SubSeq(p, 1, k))}])

(* The lookup of set_value and set_attribute: the whole text on each level. *)
SetLookup(p) ==
  Lookup([k \in 1 .. Len(p) |->
            {i \in DOMAIN nodes : Is(nodes[i], SubSeq(p, 1, k), k = Len(p))}])

(* The lists f[c] of the nodes c of a list, one after the other.            *)
Concat(f, list) ==
  LET s[k \in 0 .. Len(list)] == IF k = 0 THEN <<>> ELSE s[k - 1] \o f[list[k]]
  IN s[Len(list)]

(* The node itself, when get_param wants it.                                *)
Self(i, objects) == IF objects \/ nodes[i].leaf THEN <<i>> ELSE <<>>

(* Mutant of GetAll: siblings are got by the child only, as in the code     *)
(* that is commented out (tr069_parameter.c:1610).                          *)
GetAllFlat(i, objects) ==
  Self(i, objects)
  \o IF nodes[i].child = <<>> THEN <<>> ELSE Self(nodes[i].child[1], objects)

(* tr069_parameter_recursive_get: a node, then everything below it.  A name *)
(* has MaxDepth components at most, so that the recursion ends.             *)
GetAll(i, objects) ==
  LET L == Linked(nodes)
      got[h \in 0 .. MaxDepth] ==
        [k \in L |->
           Self(k, objects) \o IF h = 0 THEN <<>> ELSE Concat(got[h - 1], nodes[k].child)]
  IN got[MaxDepth][i]

(* tr069_parameter_get_param; the empty name is not modelled apart: it is   *)
(* the root (or, on the next level, the root alone).                        *)
GetParam(p, leaf, nextLevel, objects) ==
  LET i == FindNode(p, leaf) IN
  CASE i = Nowhere -> <<>>
    [] i # Nowhere /\ ~nextLevel -> GetAll(i, objects)
    [] OTHER -> Concat([c \in DOMAIN nodes |-> Self(c, objects)], nodes[i].child)

-----------------------------------------------------------------------------
(* Changes.  A change is a state of the manager with the node at hand ("at")*)
(* and whether it still goes well.                                          *)

Current == [nodes |-> nodes, idstack |-> idstack, number |-> number,
            at |-> 0, ok |-> TRUE]

Becomes(c) == /\ nodes' = c.nodes
              /\ idstack' = c.idstack
              /\ number' = c.number

(* The table t with one node more: it is the last child of the node at.     *)
Hung(t, at, id, n) ==
  [j \in DOMAIN t \cup {id} |->
     IF j = id THEN n ELSE IF j = at THEN [t[j] EXCEPT !.child = Append(@, id)] ELSE t[j]]

(* Mutant of NewNode: the id stays on the stack.                            *)
NewNodeKept(c, n) ==
  IF c.number >= MaxParam THEN [c EXCEPT !.ok = FALSE]
  ELSE [c EXCEPT !.nodes = Hung(@, c.at, Top(c.idstack), n),
                 !.number = @ + 1,
                 !.at = Top(c.idstack)]

(* A node appended to the children of the node at hand, or no room for it.  *)
NewNode(c, n) ==
  IF c.number >= MaxParam THEN [c EXCEPT !.ok = FALSE]
  ELSE [c EXCEPT !.nodes = Hung(@, c.at, Top(c.idstack), n),
                 !.idstack = IdstackPop(@),
                 !.number = @ + 1,
                 !.at = Top(c.idstack)]

(* One dot of add_param's loop: the first node that begins with the prefix, *)
(* compared without its dot, or a new object.                               *)
Middle(c, p) ==
  LET i == FirstOf(c.nodes[c.at].child, {k \in DOMAIN c.nodes : Begins(c.nodes[k], p)}) IN
  CASE ~c.ok -> c
    [] c.ok /\ i # Nowhere -> [c EXCEPT !.at = i]
    [] OTHER -> NewNode(c, Node(p, FALSE, 0))

(* tr069_parameter_add_param: what the loop created stays also when the     *)
(* parameter itself finds no room or is there already.                      *)
Added(p, index) ==
  LET c[k \in 0 .. Len(p) - 1] ==
        IF k = 0 THEN Current ELSE Middle(c[k - 1], SubSeq(p, 1, k))
      parent == c[Len(p) - 1]
      twin == \E i \in ToSet(parent.nodes[parent.at].child) : Is(parent.nodes[i], p, TRUE)
  IN IF ~parent.ok \/ twin THEN parent ELSE NewNode(parent, Node(p, TRUE, index))

(* recursive_remove's order: for a list of siblings all that is below them, *)
(* and then the siblings, the last one first.                               *)
FreeOrder(i) ==
  LET L == Linked(nodes)
      below[h \in 0 .. MaxDepth] ==
        [k \in L |->
           IF h = 0 THEN <<>>
           ELSE Concat(below[h - 1], nodes[k].child) \o Reverse(nodes[k].child)]
  IN Append(below[MaxDepth][i], i)

(* One node of recursive_remove: it keeps its entry when the stack is full. *)
Free(c, i) ==
  IF c.number <= 1 \/ ~Pushable(c.idstack) THEN c
  ELSE [c EXCEPT !.nodes = [j \in DOMAIN @ \ {i} |-> @[j]],
                 !.idstack = Append(@, i),
                 !.number = @ - 1]

(* Mutant of Unlinked: everything behind the node in its list goes too.     *)
UnlinkedRest(i) ==
  [j \in DOMAIN nodes |->
    [nodes[j] EXCEPT !.child =
      IF i \in ToSet(@) THEN SubSeq(@, 1, SelectInSeq(@, LAMBDA k : k = i) - 1) ELSE @]]

(* "*(ref_pointer) = source_param->next": the node leaves its list.         *)
Without(list, i) ==
  IF i \notin ToSet(list) THEN list
  ELSE RemoveAt(list, CHOOSE k \in 1 .. Len(list) : list[k] = i)
Unlinked(i) == [j \in DOMAIN nodes |-> [nodes[j] EXCEPT !.child = Without(@, i)]]

Removed(i) ==
  LET order == FreeOrder(i)
      c[k \in 0 .. Len(order)] ==
        IF k = 0 THEN [Current EXCEPT !.nodes = Unlinked(i)] ELSE Free(c[k - 1], order[k])
  IN c[Len(order)]

-----------------------------------------------------------------------------

(* The next add_param call of tr069_parameter_init_params.                  *)
InitParam == /\ calls # <<>>
             /\ Becomes(Added(Head(calls).name, Head(calls).index))
             /\ calls' = Tail(calls)
             /\ UNCHANGED <<stand, late>>

(* The interface of tr069_parameter.h after init.                           *)
Ready == calls = <<>> /\ late < MaxLate

AddParam(x) == /\ Ready
               /\ Becomes(Added(NameOf[x], x))
               /\ late' = late + 1
               /\ UNCHANGED <<stand, calls>>

RemoveParam(p, leaf) ==
  /\ Ready
  /\ FindNode(p, leaf) # Nowhere
  /\ Becomes(Removed(FindNode(p, leaf)))
  /\ late' = late + 1
  /\ UNCHANGED <<stand, calls>>

(* The manager starts again with what its table still holds.                *)
Restart(kept) ==
  /\ nodes' = [i \in {0} \cup kept |-> IF i = 0 THEN Root ELSE nodes[i]]
  /\ idstack' = <<1>>
  /\ number' = 1
  /\ calls' = InitCalls(stand)
  /\ late' = late + 1
  /\ UNCHANGED stand

(* Mutant of Uninit: the loop forgets the ids that were given back.         *)
UninitShort == /\ Ready
               /\ Restart(DOMAIN nodes \ (0 .. number - 1))

(* tr069_parameter_uninit, and tr069_parameter_init again.                  *)
Uninit == /\ Ready
          /\ Restart(DOMAIN nodes \ (0 .. UninitBound(idstack, number)))

Next == \/ InitParam
        \/ \E x \in Index : AddParam(x)
        \/ \E p \in Names : RemoveParam(p, TRUE)
        \/ \E p \in Objects : RemoveParam(p, FALSE)
        \/ Uninit

Spec == Init /\ [][Next]_vars

-----------------------------------------------------------------------------

NodeType == [path : Seq(Comp), leaf : BOOLEAN, index : Index \cup {0},
             child : Seq(1 .. MaxParam - 1)]

TypeOK == /\ nodes \in [DOMAIN nodes -> NodeType] /\ 0 \in DOMAIN nodes
          /\ calls \in Seq(Calls)
          /\ stand \in Stand
          /\ late \in 0 .. MaxLate

(* The ids of the nodes besides the root, the stack and the counters agree, *)
(* when one call takes or gives back several ids, fails half-way, or leaves *)
(* a node in the table because the stack is full.                           *)
IdsInv == IdsRight(DOMAIN nodes \ {0}, idstack, number)

(* The pointers form a tree whatever was added and removed: a linked node   *)
(* is in the table, and hangs in one place of one list.                     *)
OneTree(t) ==
  LET L == Linked(t) IN
  /\ \A i \in L : ToSet(t[i].child) \subseteq DOMAIN t \ {0}
  /\ \A i, j \in L : \A k \in 1 .. Len(t[i].child), m \in 1 .. Len(t[j].child) :
       t[i].child[k] = t[j].child[m] => i = j /\ k = m

(* Every name is one component longer than its parent's.                    *)
Levels(t) ==
  /\ Is(t[0], <<>>, FALSE)
  /\ \A i \in Linked(t) : \A j \in ToSet(t[i].child) :
       Len(t[j].path) = Len(t[i].path) + 1 /\ Len(t[j].path) <= MaxDepth

(* Siblings differ in their text.                                           *)
Twinless(t) ==
  \A g \in Linked(t) : \A i, j \in ToSet(t[g].child) :
    Is(t[i], t[j].path, t[j].leaf) => i = j

(* A node hangs below the first node of the level above that begins with    *)
(* its name up to there.                                                    *)
Before(p) == SubSeq(p, 1, Len(p) - 1)
Routed(t) ==
  \A g \in Linked(t) : \A i \in ToSet(t[g].child) : \A j \in ToSet(t[i].child) :
    i = FirstOf(t[g].child, {k \in DOMAIN t : Begins(t[k], Before(t[j].path))})

(* The parameters of the tree are those that have an index.                 *)
LeavesNamed(t) == \A i \in Leaves(t) : t[i].path \in Names

(* No two parameters of the tree have the same name, even when the table    *)
(* was full or a parameter took the place of an object.                     *)
NamesOnce(t) == \A i, j \in Leaves(t) : t[i].path = t[j].path => i = j

Shape(t) == OneTree(t) /\ Levels(t) /\ Twinless(t) /\ Routed(t) /\ LeavesNamed(t)

(* The pointers, the ids and the names of the tree, whatever was added and  *)
(* removed.                                                                 *)
TreeInv == TypeOK /\ IdsInv /\ Shape(nodes) /\ NamesOnce(nodes)

(* A sibling before the parameter begins with its name and goes on.         *)
Shadowed(i) ==
  \E j \in Linked(nodes) : \E m, k \in 1 .. Len(nodes[j].child) :
    /\ m < k /\ nodes[j].child[k] = i
    /\ Begins(nodes[nodes[j].child[m]], nodes[i].path)

(* The parent is not the object the name says.                              *)
Displaced(i) ==
  \E j \in Linked(nodes) :
    i \in ToSet(nodes[j].child) /\ ~Is(nodes[j], Before(nodes[i].path), FALSE)
InPlace == \A i \in Linked(nodes) : ~Displaced(i)

(* A parameter that is in the tree is found by the RPCs that read it and by *)
(* those that set it, and they find the same one: except, for reading, one  *)
(* that stands behind a longer name, and for both, one below a wrong node.  *)
LookupsAgree ==
  InPlace => \A i \in Leaves(nodes) :
               /\ SetLookup(nodes[i].path) = i
               /\ FindNode(nodes[i].path, TRUE) = i \/ Shadowed(i)

(* GetParameterValues and GetParameterNames of an object answer exactly the *)
(* parameters whose names begin with it, once each.                         *)
ListsComplete ==
  InPlace => \A p \in Objects :
    FindNode(p, FALSE) # Nowhere =>
      LET got == GetParam(p, FALSE, FALSE, FALSE) IN
      /\ ToSet(got) = {i \in Leaves(nodes) : IsStrictPrefix(p, nodes[i].path)}
      /\ IsInjective(got)

(* remove_param takes the parameters below the name out of the tree, all of *)
(* them and no other one.                                                   *)
Below(p, leaf) == IF leaf THEN {p} ELSE {q \in Names : IsStrictPrefix(p, q)}
Paths == {nodes[i].path : i \in Leaves(nodes)}
RemovesBelow ==
  [][\A p \in Names \cup Objects : \A leaf \in BOOLEAN :
       RemoveParam(p, leaf) /\ InPlace => Paths' = Paths \ Below(p, leaf)]_vars

(* No id is given to a second node while the table still has a first one,   *)
(* leaked ones included, and when the manager goes nothing is left behind   *)
(* (tr069_parameter.c:1279 "free all allocated parameters excluding root"). *)
GivenAndFreed ==
  /\ [][\A id \in Linked(nodes)' \ Linked(nodes) : id \notin DOMAIN nodes]_vars
  /\ [][Uninit => DOMAIN nodes' = {0}]_vars
=============================================================================
