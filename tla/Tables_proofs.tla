--------------------------- MODULE Tables_proofs ---------------------------
(***************************************************************************)
(* Theorems about the two tables of fixed size that the process keeps for  *)
(* years, for every size of them and every list of parameters.             *)
(*                                                                         *)
(* The parameter tree: TreeOK is inductive.  From it follow that the ids,  *)
(* the pointers and the names stay right (TreeCorrect), that no id is      *)
(* given twice and uninit frees every node (GivenAndFreedCorrect), that    *)
(* reading and setting find the same parameter (LookupsCorrect), that      *)
(* lists are complete (ListsCorrect), and that a removal takes out what is *)
(* below the name and nothing else (RemovesCorrect).                       *)
(*                                                                         *)
(* The ring of tasks keeps its types and implements Fifo.                  *)
(***************************************************************************)
EXTENDS TaskRing, ParamTree, FiniteSetTheorems, SequenceTheorems,
        WellFoundedInduction, TLAPS
-----------------------------------------------------------------------------
(* Natural numbers and recursion over them.                                *)

(* A set of natural numbers that is not empty has a least element.          *)
LEMMA Least ==
  ASSUME NEW S \in SUBSET Nat, S # {}
  PROVE  \E m \in S : \A n \in S : m <= n
<1> DEFINE R == OpToRel(<, Nat)
<1>1. IsWellFoundedOn(R, Nat)
  BY NatLessThanWellFounded
<1>2. \A x, y \in Nat : x < y <=> <<x, y>> \in R
  BY DEF OpToRel
<1> HIDE DEF R
<1>3. PICK x \in S : \A y \in S : ~ (<<y, x>> \in R)
  BY <1>1, WFMin
<1>4. ASSUME NEW y \in S PROVE x <= y
  <2>1. ~ (y < x)
    BY <1>2, <1>3
  <2> QED BY <2>1
<1> QED BY <1>4

(* What holds for 0 and for the successor of each n holds for all.          *)
LEMMA Induction ==
  ASSUME NEW S, 0 \in S, \A n \in Nat : n \in S => n + 1 \in S
  PROVE  Nat \subseteq S
<1> SUFFICES ASSUME Nat \ S # {} PROVE FALSE
  OBVIOUS
<1>1. PICK m \in Nat \ S : \A n \in Nat \ S : m <= n
  BY Least
<1>2. m - 1 \in Nat \ S
  BY <1>1
<1> QED BY <1>1, <1>2

(* The minimum of a set of numbers is its least member.                     *)
LEMMA MinIs ==
  ASSUME NEW S \in SUBSET Nat, S # {}
  PROVE  Min(S) \in S /\ \A n \in S : Min(S) <= n
<1>1. PICK m \in S : \A n \in S : m <= n
  BY Least
<1> QED BY <1>1 DEF Min

(* A recursion through n steps within S: what a recursive function that is  *)
(* declared over 0 .. n goes through.                                       *)
Goes(f, n, S, base, step) ==
  /\ f \in [0 .. n -> S]
  /\ f[0] = base
  /\ \A k \in 1 .. n : f[k] = step[<<f[k - 1], k>>]

(* A walk of n steps, each from the result of the one before, exists: a     *)
(* recursive function on 0 .. n satisfies its own equation.                 *)
LEMMA Recursion ==
  ASSUME NEW n \in Nat, NEW S, NEW base \in S, NEW step \in [S \X (1 .. n) -> S]
  PROVE  \E f : Goes(f, n, S, base, step)
<1> DEFINE T == {m \in Nat : m <= n => \E f : Goes(f, m, S, base, step)}
<1>1. 0 \in T
  <2> DEFINE f == [k \in 0 .. 0 |-> base]
  <2>1. Goes(f, 0, S, base, step)
    BY DEF Goes
  <2> QED BY <2>1
<1>2. ASSUME NEW m \in Nat, m \in T PROVE m + 1 \in T
  <2> SUFFICES ASSUME m + 1 <= n PROVE \E f : Goes(f, m + 1, S, base, step)
    OBVIOUS
  <2>1. PICK f : Goes(f, m, S, base, step)
    BY <1>2
  <2> DEFINE g == [k \in 0 .. m + 1 |-> IF k <= m THEN f[k] ELSE step[<<f[m], m + 1>>]]
  <2>2. f[m] \in S /\ m + 1 \in 1 .. n
    BY <2>1 DEF Goes
  <2>3. step[<<f[m], m + 1>>] \in S
    BY <2>2
  <2>4. g \in [0 .. m + 1 -> S]
    BY <2>1, <2>3 DEF Goes
  <2>5. g[0] = base
    BY <2>1 DEF Goes
  <2>6. ASSUME NEW k \in 1 .. m + 1 PROVE g[k] = step[<<g[k - 1], k>>]
    <3>1. CASE k = m + 1
      BY <3>1
    <3>2. CASE k \in 1 .. m
      <4>1. g[k] = f[k] /\ g[k - 1] = f[k - 1]
        BY <3>2
      <4> QED BY <4>1, <3>2, <2>1 DEF Goes
    <3> QED BY <3>1, <3>2
  <2>7. Goes(g, m + 1, S, base, step)
    BY <2>4, <2>5, <2>6 DEF Goes
  <2> QED BY <2>7
<1>3. n \in T
  <2> HIDE DEF T
  <2> QED BY <1>1, <1>2, Induction
<1> QED BY <1>3
-----------------------------------------------------------------------------
(* The ids of parameters.                                                  *)

(* What IdstackPop leaves: the items below the top, or the next fresh id.   *)
LEMMA PopResult ==
  ASSUME NEW s \in Seq(Nat), Len(s) \in Nat \ {0}
  PROVE  /\ IdstackPop(s) \in Seq(Nat)
         /\ Len(s) < 2 => /\ Len(IdstackPop(s)) \in Nat \ {0}
                          /\ Len(IdstackPop(s)) < 2
                          /\ IdstackPop(s)[1] = s[1] + 1
         /\ Len(s) > 1 => /\ Len(IdstackPop(s)) = Len(s) - 1
                          /\ \A i \in 1 .. Len(s) - 1 : IdstackPop(s)[i] = s[i]
<1>0. Len(s) \in Nat /\ 0 # Len(s)
  OBVIOUS
<1>1. CASE Len(s) < 2
  BY <1>1 DEF IdstackPop, Top
<1>2. CASE Len(s) > 1
  <2>1. Popped(s) \in Seq(Nat) /\ Len(Popped(s)) = Len(s) - 1
    BY <1>2 DEF Popped
  <2>2. \A i \in 1 .. Len(s) - 1 : Popped(s)[i] = s[i]
    BY <1>2 DEF Popped
  <2>3. ~ (Len(s) < 2)
    BY <1>0, <1>2
  <2>4. IdstackPop(s) = Popped(s)
    BY <2>3 DEF IdstackPop
  <2> QED BY <1>2, <2>1, <2>2, <2>3, <2>4
<1>3. Len(s) < 2 \/ Len(s) > 1
  BY <1>0
<1> QED BY <1>1, <1>2, <1>3

(* A manager with the root alone.                                          *)
LEMMA FreshIds == IdsRight({}, <<1>>, 1)
<1>1. IsFiniteSet({}) /\ Cardinality({}) = 0
  BY FS_EmptySet
<1>2. NumberCounts({}, 1)
  BY <1>1 DEF NumberCounts
<1>3. /\ IdsTypeOK(<<1>>, 1) /\ IdsInTable({}) /\ BottomIsNext({}, <<1>>, 1)
      /\ FreedIdsOnce({}, <<1>>)
  BY IdsAssumption DEF IdsTypeOK, IdsInTable, BottomIsNext, FreedIdsOnce, IdsAssumption
<1> QED BY <1>2, <1>3 DEF IdsRight

(* The top of the stack is an id below the limit that has no node.          *)
LEMMA TopIsFree ==
  ASSUME NEW table, NEW s, NEW count, IdsRight(table, s, count), count < MaxParam
  PROVE  Top(s) \in (1 .. MaxParam - 1) \ table
<1> USE DEF IdsRight
<1>0. s \in Seq(Nat) /\ Len(s) \in 1 .. StackSize /\ StackSize \in Nat
      /\ count \in 1 .. MaxParam /\ MaxParam \in Nat
  BY IdsAssumption DEF IdsTypeOK, IdsAssumption
<1>1. CASE Len(s) < 2
  <2>1. Top(s) = count
    BY <1>0, <1>1 DEF BottomIsNext, Top
  <2> QED BY <1>0, <1>1, <2>1 DEF BottomIsNext
<1>2. CASE Len(s) > 1
  <2>1. Top(s) \in (1 .. s[1] - 1) \ table
    BY <1>0, <1>2 DEF FreedIdsOnce, Top
  <2>2. s[1] \in Nat
    BY <1>0, <1>2
  <2> QED BY <1>0, <2>1, <2>2 DEF BottomIsNext
<1> QED BY <1>0, <1>1, <1>2

(* Taking an id keeps the ids right: it was not in the table.               *)
LEMMA TakenRight ==
  ASSUME NEW table, NEW s, NEW count, IdsRight(table, s, count), count < MaxParam
  PROVE  IdsRight(table \cup {Top(s)}, IdstackPop(s), count + 1)
<1> DEFINE id == Top(s)
<1> USE DEF IdsRight
<1>0. /\ s \in Seq(Nat) /\ Len(s) \in Nat \ {0} /\ Len(s) <= StackSize
      /\ StackSize \in Nat \ {0} /\ MaxParam \in Nat
      /\ count \in Nat /\ count + 1 \in 1 .. MaxParam
  BY IdsAssumption DEF IdsTypeOK, IdsAssumption
<1>1. id \in (1 .. MaxParam - 1) \ table
  BY TopIsFree
<1>2. PICK p : p = IdstackPop(s)
  OBVIOUS
<1>3. /\ p \in Seq(Nat)
      /\ Len(s) < 2 => /\ Len(p) \in Nat \ {0}
                       /\ Len(p) < 2
                       /\ p[1] = s[1] + 1
      /\ Len(s) > 1 => /\ Len(p) = Len(s) - 1
                       /\ \A i \in 1 .. Len(s) - 1 : p[i] = s[i]
  BY <1>0, <1>2, PopResult
<1>4. IdsTypeOK(p, count + 1)
  BY <1>0, <1>3 DEF IdsTypeOK
<1>5. IdsInTable(table \cup {id})
  BY <1>1 DEF IdsInTable
<1>6. NumberCounts(table \cup {id}, count + 1)
  <2>1. IsFiniteSet(table \cup {id})
        /\ Cardinality(table \cup {id}) = Cardinality(table) + 1
    BY <1>1, FS_AddElement DEF NumberCounts
  <2> QED BY <2>1 DEF NumberCounts
<1>7. BottomIsNext(table \cup {id}, p, count + 1) /\ FreedIdsOnce(table \cup {id}, p)
  <2>1. CASE Len(s) < 2
    <3>1. id = s[1] /\ s[1] = count /\ table \subseteq 1 .. count - 1
      BY <2>1, <1>0 DEF Top, BottomIsNext
    <3>2. p[1] = count + 1 /\ Len(p) = 1
      <4>1. p[1] = s[1] + 1 /\ Len(p) \in Nat \ {0} /\ Len(p) < 2
        BY ONLY <2>1, <1>3
      <4>2. Len(p) = 1
        BY <4>1
      <4>3. s[1] \in Nat /\ p[1] = s[1] + 1
        BY <4>1, <3>1, <1>0
      <4> QED BY <4>2, <4>3, <3>1
    <3>3. table \cup {id} \subseteq 1 .. count
      <4>1. id = count /\ count >= 1
        BY <3>1, <1>0, <1>1
      <4> HIDE DEF id
      <4> QED BY <4>1, <3>1, <1>0
    <3>4. BottomIsNext(table \cup {id}, p, count + 1)
      BY <3>2, <3>3, <1>0 DEF BottomIsNext
    <3> QED BY <3>2, <3>4 DEF FreedIdsOnce
  <2>2. CASE Len(s) > 1
    <3>1. /\ p[1] = s[1] /\ Len(p) = Len(s) - 1
          /\ \A i \in 1 .. Len(s) - 1 : p[i] = s[i]
      BY <2>2, <1>0, <1>3
    <3>2. id = s[Len(s)] /\ id \in 1 .. s[1] - 1
      BY <2>2, <1>0 DEF FreedIdsOnce, Top
    <3>3. BottomIsNext(table \cup {id}, p, count + 1)
      <4>1. s[1] = count + Len(s) - 1 /\ s[1] <= MaxParam /\ table \subseteq 1 .. s[1] - 1
        BY DEF BottomIsNext
      <4>2. p[1] = count + 1 + Len(p) - 1
        BY <4>1, <3>1, <1>0
      <4> QED BY <4>1, <4>2, <3>1, <3>2 DEF BottomIsNext
    <3>4. FreedIdsOnce(table \cup {id}, p)
      <4> SUFFICES ASSUME NEW i \in 2 .. Len(p)
                   PROVE  /\ p[i] \in (1 .. p[1] - 1) \ (table \cup {id})
                          /\ \A j \in 2 .. Len(p) : p[i] = p[j] => i = j
        BY DEF FreedIdsOnce
      <4>1. /\ i \in 2 .. Len(s) - 1 /\ i # Len(s)
            /\ i \in 2 .. Len(s) /\ p[i] = s[i] /\ Len(s) \in 2 .. Len(s)
        BY <3>1, <1>0
      <4>2. /\ s[i] \in (1 .. s[1] - 1) \ table
            /\ \A j \in 2 .. Len(s) : s[i] = s[j] => i = j
        BY <4>1 DEF FreedIdsOnce
      <4>3. s[i] # id
        BY <4>1, <4>2, <3>2
      <4>4. ASSUME NEW j \in 2 .. Len(p), p[i] = p[j]
            PROVE  i = j
        <5>1. j \in 2 .. Len(s) /\ p[j] = s[j]
          BY <3>1, <1>0
        <5> QED BY <5>1, <4>1, <4>2, <4>4
      <4> HIDE DEF id
      <4> QED BY <4>1, <4>2, <4>3, <4>4, <3>1
    <3> QED BY <3>3, <3>4
  <2> QED BY <2>1, <2>2, <1>0
<1> QED BY <1>2, <1>4, <1>5, <1>6, <1>7

(* Giving an id back keeps the ids right: no id is freed twice.             *)
LEMMA GivenBackRight ==
  ASSUME NEW table, NEW s, NEW count, IdsRight(table, s, count),
         count > 1, Pushable(s), NEW id \in table
  PROVE  IdsRight(table \ {id}, Append(s, id), count - 1)
<1> USE DEF IdsRight
<1>0. /\ s \in Seq(Nat) /\ Len(s) \in Nat \ {0} /\ Len(s) < StackSize
      /\ StackSize \in Nat /\ MaxParam \in Nat /\ count \in 2 .. MaxParam
  BY IdsAssumption DEF IdsTypeOK, Pushable, IdsAssumption
<1>1. id \in 1 .. s[1] - 1 /\ id \in Nat
  BY <1>0 DEF BottomIsNext
<1>2. PICK p : p = Append(s, id)
  OBVIOUS
<1>3. /\ p \in Seq(Nat) /\ Len(p) = Len(s) + 1
      /\ \A i \in 1 .. Len(s) : p[i] = s[i]
      /\ p[Len(s) + 1] = id
      /\ p[1] = s[1]
  BY <1>0, <1>1, <1>2
<1>4. IdsTypeOK(p, count - 1)
  BY <1>0, <1>3 DEF IdsTypeOK
<1>5. IdsInTable(table \ {id})
  BY DEF IdsInTable
<1>6. NumberCounts(table \ {id}, count - 1)
  <2>1. IsFiniteSet(table \ {id})
        /\ Cardinality(table \ {id}) = Cardinality(table) - 1
    BY FS_RemoveElement DEF NumberCounts
  <2>2. IsFiniteSet(table) => Cardinality(table) \in Nat
    BY FS_CardinalityType
  <2> QED BY <2>1, <2>2 DEF NumberCounts
<1>7. BottomIsNext(table \ {id}, p, count - 1)
  <2>1. s[1] = count + Len(s) - 1 /\ s[1] <= MaxParam /\ table \subseteq 1 .. s[1] - 1
    BY DEF BottomIsNext
  <2>2. s[1] = count - 1 + Len(p) - 1
    BY <2>1, <1>0, <1>3
  <2> QED BY <2>1, <2>2, <1>3 DEF BottomIsNext
<1>8. FreedIdsOnce(table \ {id}, p)
  <2> SUFFICES ASSUME NEW i \in 2 .. Len(p)
               PROVE  /\ p[i] \in (1 .. p[1] - 1) \ (table \ {id})
                      /\ \A j \in 2 .. Len(p) : p[i] = p[j] => i = j
    BY DEF FreedIdsOnce
  <2>0. \A k \in 2 .. Len(p) : k \in 2 .. Len(s) \/ k = Len(s) + 1
    <3>1. Len(p) = Len(s) + 1 /\ Len(s) \in Nat
      BY <1>0, <1>3
    <3> QED BY ONLY <3>1
  <2>1. ASSUME NEW k \in 2 .. Len(s)
        PROVE  /\ p[k] = s[k]
               /\ s[k] \in (1 .. s[1] - 1) \ table
               /\ s[k] # id
               /\ \A j \in 2 .. Len(s) : s[k] = s[j] => k = j
    BY <1>0, <1>1, <1>3 DEF FreedIdsOnce
  <2>2. p[i] \in (1 .. p[1] - 1) \ (table \ {id})
    <3>1. CASE i = Len(s) + 1
      BY <3>1, <1>1, <1>3
    <3>2. CASE i \in 2 .. Len(s)
      BY <3>2, <2>1, <1>3
    <3> QED BY <3>1, <3>2, <2>0
  <2>3. ASSUME NEW j \in 2 .. Len(p), p[i] = p[j]
        PROVE  i = j
    <3>1. i \in 2 .. Len(s) \/ i = Len(s) + 1
      BY <2>0
    <3>2. j \in 2 .. Len(s) \/ j = Len(s) + 1
      BY <2>0
    <3> QED BY <3>1, <3>2, <2>1, <2>3, <1>3
  <2> QED BY <2>2, <2>3
<1> QED BY <1>2, <1>4, <1>5, <1>6, <1>7, <1>8

(* The bound of uninit's loop takes in every id of the table.               *)
LEMMA UninitTakesAll ==
  ASSUME NEW table, NEW s, NEW count, IdsRight(table, s, count)
  PROVE  table \subseteq 0 .. UninitBound(s, count)
<1>1. count \in Nat /\ Len(s) \in Nat /\ count >= 1 /\ Len(s) >= 1
  BY IdsAssumption DEF IdsRight, IdsTypeOK, IdsAssumption
<1>2. s[1] = count + Len(s) - 1 /\ table \subseteq 1 .. s[1] - 1
  BY DEF IdsRight, BottomIsNext
<1>3. s[1] - 1 = count + Len(s) - 2
  BY <1>1, <1>2
<1> QED BY <1>1, <1>2, <1>3 DEF UninitBound
-----------------------------------------------------------------------------
(* Sequences.                                                               *)

(* A list of members of a set is a list of members of a wider one.          *)
LEMMA SeqWider ==
  ASSUME NEW X, NEW Y, X \subseteq Y, NEW s \in Seq(X)
  PROVE  s \in Seq(Y)
OBVIOUS

(* A list of ids is a list of numbers.                                      *)
LEMMA SeqOfIds ==
  ASSUME NEW s \in Seq(1 .. MaxParam - 1)
  PROVE  s \in Seq(Nat)
<1>1. 1 .. MaxParam - 1 \subseteq Nat
  BY IdsAssumption DEF IdsAssumption
<1> QED BY <1>1, SeqWider

(* The members of a list are what stands at its places.                     *)
LEMMA Members ==
  ASSUME NEW X, NEW s \in Seq(X)
  PROVE  /\ ToSet(s) \subseteq X
         /\ \A x : x \in ToSet(s) <=> \E k \in 1 .. Len(s) : s[k] = x
<1>1. DOMAIN s = 1 .. Len(s)
  OBVIOUS
<1> QED BY <1>1 DEF ToSet

(* Appending adds one member.                                               *)
LEMMA AppendSet ==
  ASSUME NEW X, NEW s \in Seq(X), NEW e \in X
  PROVE  Append(s, e) \in Seq(X) /\ ToSet(Append(s, e)) = ToSet(s) \cup {e}
<1>1. PICK a : a = Append(s, e)
  OBVIOUS
<1>2. /\ a \in Seq(X) /\ Len(a) = Len(s) + 1 /\ Len(s) \in Nat
      /\ a[Len(s) + 1] = e
      /\ \A k \in 1 .. Len(s) : a[k] = s[k]
  BY <1>1
<1>3. ASSUME NEW x \in ToSet(a) PROVE x \in ToSet(s) \cup {e}
  <2>1. PICK k \in 1 .. Len(s) + 1 : a[k] = x
    BY <1>2, Members
  <2>2. k \in 1 .. Len(s) \/ k = Len(s) + 1
    BY <1>2
  <2> QED BY <2>1, <2>2, <1>2, Members
<1>4. ASSUME NEW x \in ToSet(s) PROVE x \in ToSet(a)
  <2>1. PICK k \in 1 .. Len(s) : s[k] = x
    BY Members
  <2>2. k \in 1 .. Len(a) /\ a[k] = x
    BY <2>1, <1>2
  <2> QED BY <2>2, <1>2, Members
<1>5. e \in ToSet(a)
  <2>1. Len(s) + 1 \in 1 .. Len(a)
    BY <1>2
  <2> QED BY <2>1, <1>2, Members
<1>6. ToSet(a) = ToSet(s) \cup {e}
  BY <1>3, <1>4, <1>5
<1> QED BY <1>1, <1>2, <1>6

-----------------------------------------------------------------------------
(* What hangs below a node.                                                 *)

(* A set of nodes of the table that holds i and the children of its members.*)
ClosedAt(t, i, C) == C \in SUBSET DOMAIN t /\ i \in C /\ Closed(t, C)

(* What hangs below a node is the least closed set with the node.           *)
LEMMA UnderIs ==
  ASSUME NEW t, NEW i, NEW C, ClosedAt(t, i, C)
  PROVE  Under(t, i) \subseteq C /\ ClosedAt(t, i, Under(t, i))
<1> USE DEF ClosedAt
<1>1. Under(t, i) \subseteq C /\ i \in Under(t, i)
  BY DEF Under
<1>2. ASSUME NEW j \in Under(t, i), NEW c \in ToSet(t[j].child) PROVE c \in Under(t, i)
  <2>1. ASSUME NEW S \in SUBSET DOMAIN t, i \in S, Closed(t, S) PROVE c \in S
    <3>1. j \in S
      BY <2>1 DEF Under
    <3> QED BY <2>1, <3>1, <1>2 DEF Closed
  <2>2. c \in C
    BY <2>1
  <2> QED BY <2>1, <2>2 DEF Under
<1>3. Closed(t, Under(t, i))
  BY <1>2 DEF Closed
<1> QED BY <1>1, <1>3

(* What holds for i and, with a node below it, for the children of that     *)
(* node, holds for all nodes below i.                                       *)
LEMMA UnderInduct ==
  ASSUME NEW t, NEW i, NEW C, ClosedAt(t, i, C),
         NEW S, i \in S, \A j \in Under(t, i) \cap S : ToSet(t[j].child) \subseteq S
  PROVE  Under(t, i) \subseteq S
<1>1. ClosedAt(t, i, Under(t, i))
  BY UnderIs
<1>2. ClosedAt(t, i, Under(t, i) \cap S)
  BY <1>1 DEF ClosedAt, Closed
<1> QED BY <1>2, UnderIs

(* What hangs below a lower node hangs below the upper one.                 *)
LEMMA UnderLower ==
  ASSUME NEW t, NEW i, NEW C, ClosedAt(t, i, C), NEW j \in Under(t, i)
  PROVE  ClosedAt(t, j, C) /\ Under(t, j) \subseteq Under(t, i)
<1>1. ClosedAt(t, i, Under(t, i)) /\ Under(t, i) \subseteq C
  BY UnderIs
<1>2. ClosedAt(t, j, Under(t, i)) /\ ClosedAt(t, j, C)
  BY <1>1 DEF ClosedAt
<1> QED BY <1>2, UnderIs

(* A node below i hangs below i.                                            *)
LEMMA UnderParent ==
  ASSUME NEW t, NEW i, NEW C, ClosedAt(t, i, C), NEW x \in Under(t, i), x # i
  PROVE  \E y \in Under(t, i) : x \in ToSet(t[y].child)
<1> DEFINE U == Under(t, i)
           S == {i} \cup {z \in U : \E y \in U : z \in ToSet(t[y].child)}
<1>1. ClosedAt(t, i, U)
  BY UnderIs
<1>2. ASSUME NEW j \in U \cap S PROVE ToSet(t[j].child) \subseteq S
  BY <1>1, <1>2 DEF ClosedAt, Closed
<1>3. U \subseteq S
  <2> HIDE DEF S
  <2>1. i \in S
    BY DEF S
  <2> QED BY <1>2, <2>1, UnderInduct
<1> QED BY <1>3

(* Below i are i and what is below its children.                            *)
LEMMA UnderUnfolds ==
  ASSUME NEW t, NEW i, NEW C, ClosedAt(t, i, C)
  PROVE  Under(t, i) = {i} \cup UNION {Under(t, c) : c \in ToSet(t[i].child)}
<1> DEFINE U == Under(t, i)
           R == {i} \cup UNION {Under(t, c) : c \in ToSet(t[i].child)}
<1>1. ClosedAt(t, i, U) /\ ToSet(t[i].child) \subseteq U
  BY UnderIs DEF ClosedAt, Closed
<1>2. ASSUME NEW c \in ToSet(t[i].child)
      PROVE  ClosedAt(t, c, Under(t, c)) /\ Under(t, c) \subseteq U
  <2>1. ClosedAt(t, c, C) /\ Under(t, c) \subseteq U
    BY <1>1, UnderLower
  <2> QED BY <2>1, UnderIs
<1>3. R \subseteq U
  BY <1>1, <1>2 DEF ClosedAt
<1>4. ASSUME NEW j \in R PROVE ToSet(t[j].child) \subseteq R
  <2>1. CASE j = i
    BY <2>1, <1>2 DEF ClosedAt
  <2>2. CASE \E c \in ToSet(t[i].child) : j \in Under(t, c)
    BY <2>2, <1>2 DEF ClosedAt, Closed
  <2> QED BY <2>1, <2>2
<1>5. U \subseteq R
  <2>1. i \in R
    OBVIOUS
  <2> HIDE DEF R
  <2> QED BY <1>4, <2>1, UnderInduct
<1> QED BY <1>3, <1>5

(* When the children of linked nodes are in the table, they are linked.     *)
LEMMA LinkedClosed ==
  ASSUME NEW t, 0 \in DOMAIN t,
         \A i \in Linked(t) : ToSet(t[i].child) \subseteq DOMAIN t
  PROVE  ClosedAt(t, 0, Linked(t))
<1>1. CASE \E C : ClosedAt(t, 0, C)
  BY <1>1, UnderIs DEF Linked
<1>2. CASE ~ \E C : ClosedAt(t, 0, C)
  <2>1. Linked(t) = DOMAIN t
    <3>1. \A S \in SUBSET DOMAIN t : ~(0 \in S /\ Closed(t, S))
      BY <1>2 DEF ClosedAt
    <3> QED BY <3>1 DEF Linked, Under
  <2> QED BY <2>1 DEF ClosedAt, Closed
<1> QED BY <1>1, <1>2

(* The linked nodes of a tree of the right shape.                           *)
Tree(t) == /\ t \in [DOMAIN t -> NodeType] /\ 0 \in DOMAIN t
           /\ Shape(t)

(* The root is in the tree, and so are the children of what is in it.       *)
LEMMA TreeLinked ==
  ASSUME NEW t, Tree(t)
  PROVE  /\ 0 \in Linked(t) /\ Linked(t) \subseteq DOMAIN t
         /\ ClosedAt(t, 0, Linked(t))
         /\ \A i \in Linked(t) : /\ ToSet(t[i].child) \subseteq Linked(t) \ {0}
                                 /\ ClosedAt(t, i, Linked(t))
                                 /\ t[i] \in NodeType
<1>1. \A i \in Linked(t) : ToSet(t[i].child) \subseteq DOMAIN t \ {0}
  BY DEF Tree, Shape, OneTree
<1>2. ClosedAt(t, 0, Linked(t))
  BY <1>1, LinkedClosed DEF Tree
<1> QED BY <1>1, <1>2 DEF ClosedAt, Closed, Tree

(* Every linked node besides the root is a child.                           *)
LEMMA TreeParent ==
  ASSUME NEW t, Tree(t), NEW i \in Linked(t), i # 0
  PROVE  \E j \in Linked(t) : i \in ToSet(t[j].child)
BY TreeLinked, UnderParent DEF Linked

(* ... of one node only, at one place.                                      *)
LEMMA TreePlace ==
  ASSUME NEW t, Tree(t), NEW i \in Linked(t), NEW j \in Linked(t)
  PROVE  /\ \A c \in ToSet(t[i].child) : c \in ToSet(t[j].child) => i = j
         /\ IsInjective(t[i].child)
<1>1. \A k \in 1 .. Len(t[i].child), m \in 1 .. Len(t[j].child) :
        t[i].child[k] = t[j].child[m] => i = j /\ k = m
  BY DEF Tree, Shape, OneTree
<1>2. \A k, m \in 1 .. Len(t[i].child) :
        t[i].child[k] = t[i].child[m] => k = m
  BY DEF Tree, Shape, OneTree
<1>3. t[i].child \in Seq(1 .. MaxParam - 1) /\ t[j].child \in Seq(1 .. MaxParam - 1)
  BY TreeLinked DEF NodeType
<1>4. DOMAIN t[i].child = 1 .. Len(t[i].child) /\ DOMAIN t[j].child = 1 .. Len(t[j].child)
  BY <1>3
<1> QED BY <1>1, <1>2, <1>4 DEF ToSet, IsInjective
-----------------------------------------------------------------------------
(* The first of a level.                                                    *)

IsFirst(level, S, k) == /\ k \in 1 .. Len(level) /\ level[k] \in S
                        /\ \A m \in 1 .. k - 1 : level[m] \notin S

(* The first place with a wanted node decides FirstOf.                      *)
LEMMA FirstIs ==
  ASSUME NEW level \in Seq(Nat), NEW S, NEW k, IsFirst(level, S, k)
  PROVE  FirstOf(level, S) = level[k]
<1> DEFINE K == {m \in 1 .. Len(level) : level[m] \in S}
<1>1. K \in SUBSET Nat /\ k \in K
  BY DEF IsFirst
<1>2. Min(K) \in K /\ Min(K) <= k
  BY <1>1, MinIs
<1>3. ~(Min(K) < k)
  <2> SUFFICES ASSUME Min(K) < k PROVE FALSE
    OBVIOUS
  <2>1. Min(K) \in 1 .. k - 1 /\ level[Min(K)] \in S
    BY <1>1, <1>2
  <2> QED BY <2>1 DEF IsFirst
<1>4. Min(K) = k
  BY <1>1, <1>2, <1>3
<1> QED BY <1>1, <1>4 DEF FirstOf

(* A node that FirstOf finds stands at the first wanted place.              *)
LEMMA FirstFound ==
  ASSUME NEW level \in Seq(Nat), NEW S, FirstOf(level, S) # Nowhere
  PROVE  \E k : IsFirst(level, S, k) /\ FirstOf(level, S) = level[k]
<1> DEFINE K == {m \in 1 .. Len(level) : level[m] \in S}
<1>1. K # {} /\ FirstOf(level, S) = level[Min(K)]
  BY DEF FirstOf
<1>2. K \in SUBSET Nat
  OBVIOUS
<1>3. Min(K) \in K /\ \A m \in K : Min(K) <= m
  BY <1>1, <1>2, MinIs
<1>4. ASSUME NEW m \in 1 .. Min(K) - 1 PROVE level[m] \notin S
  <2>1. m \in 1 .. Len(level) /\ ~(Min(K) <= m)
    BY <1>2, <1>3
  <2> QED BY <2>1, <1>3
<1>5. IsFirst(level, S, Min(K))
  BY <1>3, <1>4 DEF IsFirst
<1> QED BY <1>1, <1>5

(* FirstOf finds nothing exactly when the level has no wanted node.         *)
LEMMA FirstMissing ==
  ASSUME NEW level \in Seq(Nat), NEW S
  PROVE  FirstOf(level, S) = Nowhere <=> ToSet(level) \cap S = {}
<1> DEFINE K == {m \in 1 .. Len(level) : level[m] \in S}
<1>1. DOMAIN level = 1 .. Len(level)
  OBVIOUS
<1>2. K = {} <=> ToSet(level) \cap S = {}
  BY <1>1 DEF ToSet
<1>3. CASE K # {}
  <2>1. K \in SUBSET Nat
    OBVIOUS
  <2>2. Min(K) \in K
    BY <1>3, <2>1, MinIs
  <2>3. FirstOf(level, S) \in Nat
    BY <1>3, <2>2 DEF FirstOf
  <2> QED BY <2>3, <1>2, <1>3 DEF Nowhere
<1>4. CASE K = {}
  BY <1>2, <1>4 DEF FirstOf
<1> QED BY <1>3, <1>4

(* The first stays the first in a level that is the same up to it.          *)
LEMMA FirstKept ==
  ASSUME NEW level \in Seq(Nat), NEW S, NEW after \in Seq(Nat), NEW T,
         NEW i, i # Nowhere, FirstOf(level, S) = i,
         Len(level) <= Len(after),
         \A m \in 1 .. Len(level) : /\ after[m] = level[m]
                                    /\ after[m] \in T <=> level[m] \in S
  PROVE  FirstOf(after, T) = i
<1>1. PICK k : IsFirst(level, S, k) /\ i = level[k]
  BY FirstFound
<1>2. IsFirst(after, T, k)
  <2>1. k \in 1 .. Len(level) /\ k \in 1 .. Len(after) /\ after[k] = level[k]
    BY <1>1 DEF IsFirst
  <2>2. \A m \in 1 .. k - 1 : m \in 1 .. Len(level)
    BY <2>1
  <2> QED BY <1>1, <2>1, <2>2 DEF IsFirst
<1>3. after[k] = i
  BY <1>1 DEF IsFirst
<1> QED BY <1>2, <1>3, FirstIs

-----------------------------------------------------------------------------
(* A node more.                                                             *)

Starts(t, p) == {k \in DOMAIN t : Begins(t[k], p)}

(* The node n may become the last child of the node at.                     *)
Fits(t, at, n) ==
  /\ at \in Linked(t) /\ n \in NodeType /\ n.child = <<>>
  /\ Len(n.path) = Len(t[at].path) + 1 /\ Len(n.path) <= MaxDepth
  /\ n.leaf => n.path \in Names
  /\ \A c \in ToSet(t[at].child) : ~Is(t[c], n.path, n.leaf)
  /\ \A g \in Linked(t) :
       at \in ToSet(t[g].child) => at = FirstOf(t[g].child, Starts(t, Before(n.path)))

(* What Hung leaves as it was.                                              *)
HungFrom(h, t, at, id, n) ==
  /\ DOMAIN h = DOMAIN t \cup {id} /\ h[id] = n
  /\ h \in [DOMAIN h -> NodeType]
  /\ \A j \in DOMAIN t : /\ h[j].path = t[j].path /\ h[j].leaf = t[j].leaf
                         /\ j # at => h[j].child = t[j].child
  /\ h[at].child = Append(t[at].child, id)
  /\ ToSet(h[at].child) = ToSet(t[at].child) \cup {id}

(* Hung changes the entries as HungFrom says.                               *)
LEMMA HungIs ==
  ASSUME NEW t, Tree(t), NEW at, NEW n, Fits(t, at, n),
         NEW id \in (1 .. MaxParam - 1) \ DOMAIN t
  PROVE  HungFrom(Hung(t, at, id, n), t, at, id, n)
<1>0. PICK h : h = Hung(t, at, id, n)
  OBVIOUS
<1>1. at \in DOMAIN t /\ at # id /\ t[at] \in NodeType
  BY TreeLinked DEF Fits
<1>2. t[at].child \in Seq(1 .. MaxParam - 1)
  BY <1>1 DEF NodeType
<1>3. PICK s : s = Append(t[at].child, id)
  OBVIOUS
<1>4. s \in Seq(1 .. MaxParam - 1) /\ ToSet(s) = ToSet(t[at].child) \cup {id}
  <2>1. PICK b, X : b = t[at].child /\ X = 1 .. MaxParam - 1
    OBVIOUS
  <2>2. b \in Seq(X) /\ id \in X /\ s = Append(b, id)
    BY <1>2, <1>3, <2>1, Zenon
  <2>3. s \in Seq(X) /\ ToSet(s) = ToSet(b) \cup {id}
    BY ONLY <2>2, AppendSet
  <2> QED BY <2>1, <2>3, Zenon
<1>5. h[at] = [t[at] EXCEPT !.child = s]
  BY <1>1, <1>3, <1>0 DEF Hung
<1>6. h[at] \in NodeType /\ h[at].child = s /\ h[at].path = t[at].path /\ h[at].leaf = t[at].leaf
  BY <1>1, <1>4, <1>5 DEF NodeType
<1>7. DOMAIN h = DOMAIN t \cup {id} /\ h[id] = n
  BY <1>0 DEF Hung
<1>8. \A j \in DOMAIN t : j # at => h[j] = t[j]
  BY <1>0 DEF Hung
<1>9. h \in [DOMAIN h -> NodeType]
  <2>1. h = [j \in DOMAIN h |-> h[j]]
    BY <1>0 DEF Hung
  <2>2. \A j \in DOMAIN h : h[j] \in NodeType
    BY <1>6, <1>7, <1>8 DEF Fits, Tree
  <2> QED BY <2>1, <2>2
<1>10. \A j \in DOMAIN t : /\ h[j].path = t[j].path /\ h[j].leaf = t[j].leaf
                           /\ j # at => h[j].child = t[j].child
  BY <1>6, <1>8
<1>11. h[at].child = Append(t[at].child, id) /\ ToSet(h[at].child) = ToSet(t[at].child) \cup {id}
  BY <1>3, <1>4, <1>6, Zenon
<1>12. HungFrom(h, t, at, id, n)
  BY <1>7, <1>9, <1>10, <1>11 DEF HungFrom
<1> QED BY <1>0, <1>12

(* A node that is hung below a linked one is linked, and no other is.       *)
LEMMA HungLinked ==
  ASSUME NEW t, Tree(t), NEW at, NEW n, Fits(t, at, n),
         NEW id \in (1 .. MaxParam - 1) \ DOMAIN t,
         NEW h, HungFrom(h, t, at, id, n)
  PROVE  Linked(h) = Linked(t) \cup {id}
<1> DEFINE L == Linked(t)
           M == Linked(h)
<1>0. at \in L /\ n.child = <<>> /\ ToSet(<<>>) = {}
  BY DEF Fits, ToSet
<1>1. ClosedAt(t, 0, L) /\ L \subseteq DOMAIN t /\ 0 \in L /\ id \notin L
  BY TreeLinked
<1>2. ClosedAt(h, 0, L \cup {id})
  <2>1. ASSUME NEW j \in L \cup {id} PROVE ToSet(h[j].child) \subseteq L \cup {id}
    <3>1. CASE j = id
      BY <3>1, <1>0 DEF HungFrom
    <3>2. CASE j = at
      BY <3>2, <1>0, <1>1 DEF HungFrom, ClosedAt, Closed
    <3>3. CASE j \in L /\ j # at
      BY <3>3, <1>1 DEF HungFrom, ClosedAt, Closed
    <3> QED BY <3>1, <3>2, <3>3
  <2> QED BY <2>1, <1>1 DEF HungFrom, ClosedAt, Closed
<1>3. M \subseteq L \cup {id} /\ ClosedAt(h, 0, M)
  BY <1>2, UnderIs DEF Linked
<1>4. ClosedAt(t, 0, M \ {id})
  <2>1. M \ {id} \subseteq L /\ 0 \in M \ {id}
    BY <1>1, <1>3 DEF ClosedAt
  <2>2. ASSUME NEW j \in M \ {id}, NEW c \in ToSet(t[j].child) PROVE c \in M \ {id}
    <3>1. j \in L /\ j \in DOMAIN t /\ c \in L
      BY <2>1, <1>1 DEF ClosedAt, Closed
    <3>2. c \in ToSet(h[j].child)
      BY <3>1 DEF HungFrom
    <3> QED BY <3>1, <3>2, <1>1, <1>3 DEF ClosedAt, Closed
  <2> QED BY <2>1, <2>2, <1>1 DEF ClosedAt, Closed
<1>5. L \subseteq M
  BY <1>4, UnderIs DEF Linked
<1>6. id \in M
  BY <1>0, <1>3, <1>5 DEF HungFrom, ClosedAt, Closed
<1> QED BY <1>3, <1>5, <1>6

(* Children of linked nodes before and after.                               *)
HungLists(h, t, at, id) ==
  /\ h[id].child = <<>> /\ ToSet(h[id].child) = {} /\ Len(h[id].child) = 0
  /\ \A j \in Linked(t) :
       /\ j \in DOMAIN t /\ j # id
       /\ t[j].child \in Seq(Nat) /\ h[j].child \in Seq(Nat)
       /\ ToSet(t[j].child) \subseteq Linked(t)
       /\ Len(h[j].child) = IF j = at THEN Len(t[j].child) + 1 ELSE Len(t[j].child)
       /\ \A k \in 1 .. Len(t[j].child) : h[j].child[k] = t[j].child[k]
       /\ ToSet(h[j].child) = ToSet(t[j].child) \cup (IF j = at THEN {id} ELSE {})
  /\ h[at].child[Len(t[at].child) + 1] = id

(* The lists of children after a node was hung: only one grew, at its end.  *)
LEMMA HungChildren ==
  ASSUME NEW t, Tree(t), NEW at, NEW n, Fits(t, at, n),
         NEW id \in (1 .. MaxParam - 1) \ DOMAIN t,
         NEW h, HungFrom(h, t, at, id, n)
  PROVE  HungLists(h, t, at, id)
<1>0. n.child = <<>> /\ ToSet(<<>>) = {} /\ at \in Linked(t)
  BY DEF Fits, ToSet
<1>1. ASSUME NEW j \in Linked(t)
      PROVE  /\ j \in DOMAIN t /\ j # id
             /\ t[j].child \in Seq(1 .. MaxParam - 1) /\ h[j].child \in Seq(1 .. MaxParam - 1)
             /\ ToSet(t[j].child) \subseteq Linked(t)
             /\ h[j].child = IF j = at THEN Append(t[j].child, id) ELSE t[j].child
             /\ ToSet(h[j].child) = ToSet(t[j].child) \cup (IF j = at THEN {id} ELSE {})
  <2>1. j \in DOMAIN t /\ j # id /\ t[j] \in NodeType /\ ToSet(t[j].child) \subseteq Linked(t)
    BY TreeLinked
  <2>2. h[j] \in NodeType
    BY <2>1 DEF HungFrom
  <2>3. t[j].child \in Seq(1 .. MaxParam - 1) /\ h[j].child \in Seq(1 .. MaxParam - 1)
    BY <2>1, <2>2 DEF NodeType
  <2>4. CASE j = at
    BY <2>1, <2>3, <2>4 DEF HungFrom
  <2>5. CASE j # at
    BY <2>1, <2>3, <2>5 DEF HungFrom
  <2> QED BY <2>4, <2>5
<1>2. ASSUME NEW j \in Linked(t)
      PROVE  /\ t[j].child \in Seq(Nat) /\ h[j].child \in Seq(Nat)
             /\ Len(h[j].child) = IF j = at THEN Len(t[j].child) + 1 ELSE Len(t[j].child)
             /\ \A k \in 1 .. Len(t[j].child) : h[j].child[k] = t[j].child[k]
             /\ j = at => h[j].child[Len(t[j].child) + 1] = id
  <2>1. PICK a, b : a = t[j].child /\ b = h[j].child
    OBVIOUS
  <2>2. /\ a \in Seq(1 .. MaxParam - 1) /\ b \in Seq(1 .. MaxParam - 1)
        /\ b = IF j = at THEN Append(a, id) ELSE a
    BY <1>1, <2>1
  <2>4. a \in Seq(Nat) /\ b \in Seq(Nat)
    BY <2>2, SeqOfIds
  <2>5. CASE j = at
    BY <2>1, <2>2, <2>4, <2>5
  <2>6. CASE j # at
    BY <2>1, <2>2, <2>4, <2>6
  <2> QED BY <2>5, <2>6
<1>3. h[id].child = <<>> /\ ToSet(h[id].child) = {} /\ Len(h[id].child) = 0
  BY <1>0 DEF HungFrom
<1> QED BY <1>0, <1>1, <1>2, <1>3 DEF HungLists
-----------------------------------------------------------------------------
(* A node that fits keeps the shape.                                        *)
LEMMA HungTree ==
  ASSUME NEW t, Tree(t), NEW at, NEW n, Fits(t, at, n),
         NEW id \in (1 .. MaxParam - 1) \ DOMAIN t,
         NEW h, HungFrom(h, t, at, id, n)
  PROVE  Tree(h) /\ Linked(h) = Linked(t) \cup {id}
<1> DEFINE L == Linked(t)
<1>1. Linked(h) = L \cup {id} /\ at \in L /\ id # 0
  BY HungLinked DEF Fits
<1>2. /\ ToSet(h[id].child) = {} /\ Len(h[id].child) = 0
      /\ \A j \in L :
           /\ j \in DOMAIN t /\ j # id
           /\ t[j].child \in Seq(Nat) /\ h[j].child \in Seq(Nat)
           /\ ToSet(t[j].child) \subseteq L
           /\ Len(h[j].child) = IF j = at THEN Len(t[j].child) + 1 ELSE Len(t[j].child)
           /\ \A k \in 1 .. Len(t[j].child) : h[j].child[k] = t[j].child[k]
           /\ ToSet(h[j].child) = ToSet(t[j].child) \cup (IF j = at THEN {id} ELSE {})
      /\ h[at].child[Len(t[at].child) + 1] = id
  <2>1. HungLists(h, t, at, id)
    BY HungChildren
  <2> QED BY ONLY <2>1 DEF HungLists
<1>3. \A j \in L : /\ h[j].path = t[j].path /\ h[j].leaf = t[j].leaf
                   /\ ToSet(t[j].child) \subseteq L \ {0}
  <2>1. \A j \in L : j \in DOMAIN t /\ ToSet(t[j].child) \subseteq L \ {0}
    <3>1. L \subseteq DOMAIN t /\ \A j \in L : ToSet(t[j].child) \subseteq L \ {0}
      BY TreeLinked
    <3> QED BY <3>1
  <2>2. \A j \in DOMAIN t : h[j].path = t[j].path /\ h[j].leaf = t[j].leaf
    BY DEF HungFrom
  <2> QED BY <2>1, <2>2
<1>4. h[id] = n /\ id \notin L /\ DOMAIN h = DOMAIN t \cup {id} /\ L \subseteq DOMAIN t
  BY <1>2 DEF HungFrom
(* A child of the new table is one of the old table, or the new node.       *)
<1>5. ASSUME NEW g \in L \cup {id}, NEW c \in ToSet(h[g].child)
      PROVE  g \in L /\ (c \in ToSet(t[g].child) \/ (g = at /\ c = id))
  <2>1. g \in L
    BY <1>2
  <2>2. ToSet(h[g].child) = ToSet(t[g].child) \cup (IF g = at THEN {id} ELSE {})
    BY <2>1, <1>2
  <2> QED BY <2>1, <2>2
<1>6. ASSUME NEW i \in L \cup {id}, NEW k \in 1 .. Len(h[i].child)
      PROVE  /\ i \in L
             /\ \/ k \in 1 .. Len(t[i].child) /\ h[i].child[k] = t[i].child[k]
                   /\ h[i].child[k] # id
                \/ i = at /\ k = Len(t[i].child) + 1 /\ h[i].child[k] = id
  <2>1. i \in L
    BY <1>2
  <2>2. t[i].child \in Seq(Nat) /\ Len(t[i].child) \in Nat
    BY <2>1, <1>2
  <2>3. CASE k \in 1 .. Len(t[i].child)
    <3>1. t[i].child[k] \in ToSet(t[i].child)
      BY <2>2, <2>3, Members
    <3> QED BY <3>1, <2>1, <2>3, <1>2
  <2>4. CASE k \notin 1 .. Len(t[i].child)
    <3>1. k <= Len(h[i].child) /\ k \in Nat /\ k > Len(t[i].child)
      BY <2>2, <2>4
    <3>2. i = at
      BY <3>1, <2>1, <1>2
    <3>3. Len(h[i].child) = Len(t[i].child) + 1
      BY <3>2, <1>1, <1>2
    <3>4. k = Len(t[i].child) + 1
      BY <3>1, <3>3, <2>2
    <3> QED BY <2>1, <3>2, <3>4, <1>2
  <2> QED BY <2>3, <2>4
<1>7. OneTree(h)
  <2>1. ASSUME NEW i \in L \cup {id} PROVE ToSet(h[i].child) \subseteq DOMAIN h \ {0}
    BY <1>1, <1>3, <1>4, <1>5
  <2>2. ASSUME NEW i \in L \cup {id}, NEW j \in L \cup {id},
               NEW k \in 1 .. Len(h[i].child), NEW m \in 1 .. Len(h[j].child),
               h[i].child[k] = h[j].child[m]
        PROVE  i = j /\ k = m
    <3>1. CASE h[i].child[k] = id
      BY <3>1, <2>2, <1>6
    <3>2. CASE h[i].child[k] # id
      <4>1. /\ i \in L /\ j \in L
            /\ k \in 1 .. Len(t[i].child) /\ m \in 1 .. Len(t[j].child)
            /\ t[i].child[k] = t[j].child[m]
        BY <3>2, <2>2, <1>6
      <4> QED BY <4>1 DEF Tree, Shape, OneTree
    <3> QED BY <3>1, <3>2
  <2> QED BY <2>1, <2>2, <1>1 DEF OneTree
<1>8. Levels(h)
  <2>1. Is(h[0], <<>>, FALSE)
    BY <1>3, TreeLinked DEF Tree, Shape, Levels, Is
  <2>2. ASSUME NEW i \in L \cup {id}, NEW j \in ToSet(h[i].child)
        PROVE  Len(h[j].path) = Len(h[i].path) + 1 /\ Len(h[j].path) <= MaxDepth
    <3>1. CASE i \in L /\ j \in ToSet(t[i].child)
      <4>1. j \in L
        BY <3>1, <1>2
      <4> QED BY <3>1, <4>1, <1>3 DEF Tree, Shape, Levels
    <3>2. CASE i = at /\ j = id
      BY <3>2, <1>1, <1>3, <1>4 DEF Fits
    <3> QED BY <3>1, <3>2, <1>5
  <2> QED BY <2>1, <2>2, <1>1 DEF Levels
<1>9. Twinless(h)
  <2> SUFFICES ASSUME NEW g \in L \cup {id}, NEW i \in ToSet(h[g].child),
                      NEW j \in ToSet(h[g].child), Is(h[i], h[j].path, h[j].leaf)
               PROVE  i = j
    BY <1>1 DEF Twinless
  <2>1. g \in L
    BY <1>5
  <2>2. CASE i \in ToSet(t[g].child) /\ j \in ToSet(t[g].child)
    <3>1. i \in L /\ j \in L
      BY <2>1, <2>2, <1>2
    <3> QED BY <2>1, <2>2, <3>1, <1>3 DEF Tree, Shape, Twinless, Is
  <2>3. CASE g = at /\ i = id /\ j \in ToSet(t[g].child)
    <3>1. j \in L
      BY <2>1, <2>3, <1>2
    <3> QED BY <2>3, <3>1, <1>3, <1>4 DEF Fits, Is
  <2>4. CASE g = at /\ j = id /\ i \in ToSet(t[g].child)
    <3>1. i \in L
      BY <2>1, <2>4, <1>2
    <3> QED BY <2>4, <3>1, <1>3, <1>4 DEF Fits, Is
  <2> QED BY <2>2, <2>3, <2>4, <1>5
<1>10. Routed(h)
  <2> SUFFICES ASSUME NEW g \in L \cup {id}, NEW i \in ToSet(h[g].child),
                      NEW j \in ToSet(h[i].child)
               PROVE  i = FirstOf(h[g].child, Starts(h, Before(h[j].path)))
    BY <1>1 DEF Routed, Starts
  <2> DEFINE p == Before(h[j].path)
  <2>1. g \in L /\ i \in L /\ i \in ToSet(t[g].child)
    <3>1. i \in L \cup {id}
      BY <1>2, <1>5
    <3>2. i \in L
      BY <3>1, <1>5
    <3> QED BY <3>2, <1>4, <1>5
  <2>2. i = FirstOf(t[g].child, Starts(t, p))
    <3>1. CASE j \in ToSet(t[i].child)
      <4>1. j \in L /\ h[j].path = t[j].path
        BY <3>1, <2>1, <1>2, <1>3
      <4> QED BY <3>1, <4>1, <2>1 DEF Tree, Shape, Routed, Starts
    <3>2. CASE i = at /\ j = id
      BY <3>2, <2>1, <1>4 DEF Fits
    <3> QED BY <3>1, <3>2, <2>1, <1>5
  <2>3. \A m \in 1 .. Len(t[g].child) :
          /\ h[g].child[m] = t[g].child[m]
          /\ h[g].child[m] \in Starts(h, p) <=> t[g].child[m] \in Starts(t, p)
    <3> SUFFICES ASSUME NEW m \in 1 .. Len(t[g].child)
                 PROVE  /\ h[g].child[m] = t[g].child[m]
                        /\ t[g].child[m] \in Starts(h, p) <=> t[g].child[m] \in Starts(t, p)
      BY <2>1, <1>2
    <3>1. t[g].child[m] \in L
      <4>1. PICK s : s = t[g].child
        OBVIOUS
      <4>2. s \in Seq(Nat) /\ ToSet(s) \subseteq L /\ m \in 1 .. Len(s)
        BY <4>1, <2>1, <1>2
      <4>3. s[m] \in ToSet(s)
        BY ONLY <4>2, Members
      <4> QED BY ONLY <4>1, <4>2, <4>3
    <3>2. PICK x : x = t[g].child[m]
      OBVIOUS
    <3>3. x \in DOMAIN t /\ x \in DOMAIN h /\ h[x].path = t[x].path
      BY <3>1, <3>2, <1>3, <1>4
    <3>4. Begins(h[x], p) <=> Begins(t[x], p)
      BY <3>3 DEF Begins
    <3>5. x \in Starts(h, p) <=> x \in Starts(t, p)
      BY <3>3, <3>4 DEF Starts
    <3>6. h[g].child[m] = t[g].child[m]
      BY <2>1, <1>2
    <3>7. h[g].child[m] = x /\ t[g].child[m] = x
      BY <3>2, <3>6
    <3> QED BY <3>5, <3>7
  <2>4. Len(t[g].child) <= Len(h[g].child)
    BY <2>1, <1>2
  <2>5. t[g].child \in Seq(Nat) /\ h[g].child \in Seq(Nat)
    BY <2>1, <1>2
  <2>6. i # Nowhere
    BY <2>1, <2>5, Members DEF Nowhere
  <2>7. PICK level, after, S, T : /\ level = t[g].child /\ after = h[g].child
                                  /\ S = Starts(t, p) /\ T = Starts(h, p)
    OBVIOUS
  <2>8. /\ level \in Seq(Nat) /\ after \in Seq(Nat) /\ Len(level) <= Len(after)
        /\ FirstOf(level, S) = i /\ i # Nowhere
    <3>1. level \in Seq(Nat) /\ after \in Seq(Nat) /\ i # Nowhere
      BY <2>5, <2>6, <2>7
    <3>2. Len(level) <= Len(after)
      BY <2>4, <2>7
    <3>3. FirstOf(level, S) = i
      BY <2>2, <2>7
    <3> QED BY <3>1, <3>2, <3>3
  <2>9. \A m \in 1 .. Len(level) : /\ after[m] = level[m]
                                   /\ after[m] \in T <=> level[m] \in S
    <3> SUFFICES ASSUME NEW m \in 1 .. Len(level)
                 PROVE  /\ after[m] = level[m]
                        /\ after[m] \in T <=> level[m] \in S
      OBVIOUS
    <3>1. m \in 1 .. Len(t[g].child)
      BY <2>7
    <3>2. /\ h[g].child[m] = t[g].child[m]
          /\ h[g].child[m] \in Starts(h, p) <=> t[g].child[m] \in Starts(t, p)
      BY <2>3, <3>1
    <3> QED BY <2>7, <3>2, Zenon
  <2>10. FirstOf(after, T) = i
    BY ONLY <2>8, <2>9, FirstKept
  <2> QED BY <2>7, <2>10
<1>11. LeavesNamed(h)
  <2> SUFFICES ASSUME NEW i \in L \cup {id}, h[i].leaf PROVE h[i].path \in Names
    BY <1>1 DEF LeavesNamed, Leaves
  <2>1. CASE i = id
    BY <2>1, <1>4 DEF Fits
  <2>2. CASE i \in L
    BY <2>2, <1>3 DEF Tree, Shape, LeavesNamed, Leaves
  <2> QED BY <2>1, <2>2
<1>12. h \in [DOMAIN h -> NodeType] /\ 0 \in DOMAIN h
  BY <1>4 DEF HungFrom, Tree
<1> QED BY <1>1, <1>7, <1>8, <1>9, <1>10, <1>11, <1>12 DEF Tree, Shape
-----------------------------------------------------------------------------
(* add_param.                                                               *)

States == [nodes : UNION {[D -> NodeType] : D \in SUBSET Nat}, idstack : Seq(Nat),
           number : Nat, at : Nat, ok : BOOLEAN]

(* A state of the manager in the midst of a change that is in order.        *)
Sound(c) == /\ c \in States
            /\ Tree(c.nodes)
            /\ IdsRight(DOMAIN c.nodes \ {0}, c.idstack, c.number)
            /\ c.at \in Linked(c.nodes)

(* Nodes were only added to the table t, with ids that were free.           *)
Fresh(t, c) == /\ DOMAIN t \subseteq DOMAIN c.nodes
               /\ \A i \in Linked(c.nodes) : i \in Linked(t) \/ i \notin DOMAIN t

(* What NewNode makes of a sound state where the node fits.                 *)
NewNodeMakes(d, c, n, id) ==
  /\ d.ok = c.ok /\ d.at = id /\ id \in (1 .. MaxParam - 1) \ DOMAIN c.nodes
  /\ HungFrom(d.nodes, c.nodes, c.at, id, n)
  /\ Linked(d.nodes) = Linked(c.nodes) \cup {id}

(* NewNode keeps the manager sound, and either refuses or hangs the node    *)
(* with an id that the table did not have.                                  *)
LEMMA NewNodeSound ==
  ASSUME NEW c, Sound(c), NEW n, Fits(c.nodes, c.at, n)
  PROVE  /\ Sound(NewNode(c, n))
         /\ \/ NewNode(c, n) = [c EXCEPT !.ok = FALSE]
            \/ \E id : NewNodeMakes(NewNode(c, n), c, n, id)
<1> DEFINE t == c.nodes
           table == DOMAIN t \ {0}
<1>0. c \in States /\ t \in [DOMAIN t -> NodeType] /\ DOMAIN t \in SUBSET Nat /\ Tree(t)
      /\ 0 \in DOMAIN t /\ c.number \in Nat /\ MaxParam \in Nat
  BY IdsAssumption DEF Sound, States, Tree, IdsAssumption
<1>1. CASE c.number >= MaxParam
  <2>1. PICK d : d = [c EXCEPT !.ok = FALSE]
    OBVIOUS
  <2>2. d \in States /\ d.nodes = c.nodes /\ d.idstack = c.idstack /\ d.number = c.number
        /\ d.at = c.at
    BY <2>1, <1>0 DEF States
  <2>3. Sound(d)
    BY <2>2 DEF Sound
  <2> QED BY <1>1, <2>1, <2>3 DEF NewNode
<1>2. CASE ~(c.number >= MaxParam)
  <2>1. PICK id : id = Top(c.idstack)
    OBVIOUS
  <2>2. IdsRight(table, c.idstack, c.number) /\ c.number < MaxParam
    BY <1>0, <1>2 DEF Sound
  <2>3. id \in (1 .. MaxParam - 1) \ table /\ id \in Nat /\ id # 0
    BY <2>1, <2>2, TopIsFree
  <2>4. id \in (1 .. MaxParam - 1) \ DOMAIN t
    BY <2>3
  <2>5. PICK h : h = Hung(t, c.at, id, n)
    OBVIOUS
  <2>6. HungFrom(h, t, c.at, id, n)
    BY <2>4, <2>5, <1>0, HungIs
  <2>7. Tree(h) /\ Linked(h) = Linked(t) \cup {id}
    BY <2>4, <2>6, <1>0, HungTree
  <2>8. PICK s, count : s = IdstackPop(c.idstack) /\ count = c.number + 1
    OBVIOUS
  <2>9. IdsRight(table \cup {id}, s, count)
    BY <2>1, <2>2, <2>8, TakenRight
  <2>10. DOMAIN h \ {0} = table \cup {id} /\ DOMAIN h \in SUBSET Nat
         /\ h \in [DOMAIN h -> NodeType]
    BY <2>3, <2>6, <1>0 DEF HungFrom
  <2>11. s \in Seq(Nat) /\ count \in Nat
    BY <2>9, <2>8, <1>0 DEF IdsRight, IdsTypeOK
  <2>12. PICK d : d = NewNode(c, n)
    OBVIOUS
  <2>13. d = [c EXCEPT !.nodes = h, !.idstack = s, !.number = count, !.at = id]
    BY <2>1, <2>5, <2>8, <2>12, <1>2 DEF NewNode
  <2>14. /\ d.nodes = h /\ d.idstack = s /\ d.number = count /\ d.at = id /\ d.ok = c.ok
         /\ d = [nodes |-> h, idstack |-> s, number |-> count, at |-> id, ok |-> c.ok]
         /\ c.ok \in BOOLEAN
    BY <2>13, <1>0 DEF States
  <2>15. h \in UNION {[D -> NodeType] : D \in SUBSET Nat}
    BY <2>10
  <2>16. d \in States
    BY <2>3, <2>11, <2>14, <2>15 DEF States
  <2>17. Sound(d)
    BY <2>7, <2>9, <2>10, <2>14, <2>16 DEF Sound
  <2>18. NewNodeMakes(d, c, n, id)
    BY <2>4, <2>6, <2>7, <2>14 DEF NewNodeMakes
  <2> QED BY <2>12, <2>17, <2>18
<1> QED BY <1>1, <1>2

(* A chain of new nodes keeps what it had before it untouched.              *)
LEMMA NewNodeFresh ==
  ASSUME NEW t, NEW c, NEW d, NEW n, NEW id, NewNodeMakes(d, c, n, id), Fresh(t, c)
  PROVE  Fresh(t, d)
BY DEF NewNodeMakes, Fresh, HungFrom

(* The node at hand is at level k, and the first that begins with p there.  *)
Route(t, at, p) ==
  \A g \in Linked(t) : at \in ToSet(t[g].child) => at = FirstOf(t[g].child, Starts(t, p))

OnWay(t, c, p, k) ==
  /\ Sound(c) /\ Fresh(t, c)
  /\ c.ok => /\ Len(c.nodes[c.at].path) = k
             /\ Route(c.nodes, c.at, SubSeq(p, 1, k))

(* Shorter beginnings of a name.                                            *)
LEMMA Beginnings ==
  ASSUME NEW p \in Seq(Comp), NEW k \in 1 .. Len(p)
  PROVE  /\ SubSeq(p, 1, k) \in Seq(Comp) /\ Len(SubSeq(p, 1, k)) = k
         /\ Before(SubSeq(p, 1, k)) = SubSeq(p, 1, k - 1)
         /\ SubSeq(p, 1, Len(p)) = p
         /\ \A m \in 1 .. k : SubSeq(p, 1, k)[m] = p[m]
<1>1. PICK q : q = SubSeq(p, 1, k)
  OBVIOUS
<1>2. q \in Seq(Comp) /\ Len(q) = k /\ \A m \in 1 .. k : q[m] = p[m]
  BY <1>1
<1>3. SubSeq(q, 1, k - 1) = SubSeq(p, 1, k - 1)
  <2>1. PICK a, b : a = SubSeq(q, 1, k - 1) /\ b = SubSeq(p, 1, k - 1)
    OBVIOUS
  <2>2. /\ a \in Seq(Comp) /\ b \in Seq(Comp) /\ Len(a) = k - 1 /\ Len(b) = k - 1
        /\ \A m \in 1 .. k - 1 : a[m] = q[m] /\ b[m] = p[m]
    BY <2>1, <1>2
  <2>3. \A m \in 1 .. k - 1 : a[m] = b[m]
    BY <2>2, <1>2
  <2> QED BY <2>1, <2>2, <2>3, SeqEqual
<1>4. SubSeq(p, 1, Len(p)) = p
  <2>1. PICK a : a = SubSeq(p, 1, Len(p))
    OBVIOUS
  <2>2. a \in Seq(Comp) /\ Len(a) = Len(p) /\ \A m \in 1 .. Len(p) : a[m] = p[m]
    BY <2>1
  <2> QED BY <2>1, <2>2, SeqEqual
<1> QED BY <1>1, <1>2, <1>3, <1>4 DEF Before
-----------------------------------------------------------------------------
(* A new node is the first that begins with its name, when none did before. *)
LEMMA NewRoute ==
  ASSUME NEW t, Tree(t), NEW at, NEW n, Fits(t, at, n),
         NEW id \in (1 .. MaxParam - 1) \ DOMAIN t,
         NEW h, HungFrom(h, t, at, id, n),
         NEW p, Begins(n, p), ToSet(t[at].child) \cap Starts(t, p) = {}
  PROVE  Route(h, id, p)
<1>1. Tree(h) /\ Linked(h) = Linked(t) \cup {id} /\ HungLists(h, t, at, id) /\ at \in Linked(t)
  BY HungTree, HungChildren DEF Fits
<1> SUFFICES ASSUME NEW g \in Linked(h), id \in ToSet(h[g].child)
             PROVE  id = FirstOf(h[g].child, Starts(h, p))
  BY DEF Route
<1>2. g = at
  <2>1. id \in ToSet(h[at].child) /\ at \in Linked(h)
    BY <1>1 DEF HungLists
  <2> QED BY <2>1, <1>1, TreePlace
<1>3. PICK level, old, k : level = h[at].child /\ old = t[at].child /\ k = Len(t[at].child) + 1
  OBVIOUS
<1>4. /\ level \in Seq(Nat) /\ old \in Seq(Nat) /\ Len(level) = k /\ k = Len(old) + 1
      /\ level[k] = id /\ ToSet(old) \subseteq Linked(t)
      /\ \A m \in 1 .. Len(old) : level[m] = old[m]
  BY <1>1, <1>3 DEF HungLists
<1>5. k \in 1 .. Len(level) /\ \A m \in 1 .. k - 1 : m \in 1 .. Len(old)
  BY <1>4
<1>6. id \in Starts(h, p)
  BY DEF HungFrom, Starts
<1>7. ASSUME NEW m \in 1 .. k - 1 PROVE level[m] \notin Starts(h, p)
  <2>1. PICK x : x = level[m]
    OBVIOUS
  <2>2. x \in ToSet(old)
    BY <2>1, <1>4, <1>5, Members
  <2>3. x \in DOMAIN t /\ h[x].path = t[x].path
    BY <2>2, <1>4, TreeLinked DEF HungFrom
  <2>4. Begins(h[x], p) <=> Begins(t[x], p)
    BY <2>3 DEF Begins
  <2>5. ~ Begins(t[x], p)
    BY <2>2, <2>3, <1>3 DEF Starts
  <2> QED BY <2>1, <2>4, <2>5 DEF Starts
<1>8. IsFirst(level, Starts(h, p), k)
  BY <1>4, <1>5, <1>6, <1>7 DEF IsFirst
<1> QED BY <1>2, <1>3, <1>4, <1>8, FirstIs

(* A middle component of add_param stays on the way.                        *)
LEMMA MiddleOnWay ==
  ASSUME NEW t, NEW c, NEW p \in Seq(Comp), Len(p) <= MaxDepth,
         NEW k \in 1 .. Len(p) - 1, OnWay(t, c, p, k - 1)
  PROVE  OnWay(t, Middle(c, SubSeq(p, 1, k)), p, k)
<1> DEFINE q == SubSeq(p, 1, k)
           u == c.nodes
           level == u[c.at].child
           i == FirstOf(level, Starts(u, q))
<1>0. PICK d : d = Middle(c, q)
  OBVIOUS
<1>1. CASE ~c.ok
  BY <1>0, <1>1 DEF Middle, OnWay
<1>2. CASE c.ok
  <2>1. /\ Sound(c) /\ Tree(u) /\ c.at \in Linked(u) /\ Fresh(t, c) /\ c \in States
        /\ Len(u[c.at].path) = k - 1 /\ Route(u, c.at, SubSeq(p, 1, k - 1))
    BY <1>2 DEF OnWay, Sound
  <2>2. q \in Seq(Comp) /\ Len(q) = k /\ Before(q) = SubSeq(p, 1, k - 1) /\ k \in Nat /\ k >= 1
    <3>1. k \in 1 .. Len(p)
      OBVIOUS
    <3> QED BY <3>1, Beginnings
  <2>3. /\ level \in Seq(Nat) /\ ToSet(level) \subseteq Linked(u) \ {0}
        /\ Linked(u) \subseteq DOMAIN u
    <3>1. u[c.at].child \in Seq(1 .. MaxParam - 1)
      BY <2>1, TreeLinked DEF NodeType
    <3> QED BY <3>1, <2>1, TreeLinked, SeqOfIds
  <2>4. CASE i # Nowhere
    <3>1. d = [c EXCEPT !.at = i]
      BY <1>0, <1>2, <2>4 DEF Middle, Starts
    <3>2. i \in ToSet(level)
      <4>1. PICK m : IsFirst(level, Starts(u, q), m) /\ i = level[m]
        BY <2>3, <2>4, FirstFound
      <4> QED BY <4>1, <2>3, Members DEF IsFirst
    <3>3. i \in Linked(u) /\ i \in Nat
      BY <3>2, <2>3, Members
    <3>4. d \in States /\ d.nodes = u /\ d.idstack = c.idstack /\ d.number = c.number /\ d.at = i
      BY <3>1, <3>3, <2>1 DEF States
    <3>5. Sound(d) /\ Fresh(t, d)
      BY <3>3, <3>4, <2>1 DEF Sound, Fresh
    <3>6. Len(u[i].path) = k
      <4>1. Len(u[i].path) = Len(u[c.at].path) + 1
        BY <3>2, <2>1 DEF Tree, Shape, Levels
      <4> QED BY <4>1, <2>1, <2>2
    <3>7. Route(u, i, q)
      <4> SUFFICES ASSUME NEW g \in Linked(u), i \in ToSet(u[g].child)
                   PROVE  i = FirstOf(u[g].child, Starts(u, q))
        BY DEF Route
      <4>1. g = c.at
        BY <3>2, <2>1, TreePlace
      <4> QED BY <4>1
    <3> QED BY <1>0, <3>4, <3>5, <3>6, <3>7 DEF OnWay
  <2>5. CASE i = Nowhere
    <3>0. PICK n : n = Node(q, FALSE, 0)
      OBVIOUS
    <3>1. d = NewNode(c, n)
      BY <1>0, <1>2, <2>5, <3>0 DEF Middle, Starts
    <3>2. ToSet(level) \cap Starts(u, q) = {}
      BY <2>3, <2>5, FirstMissing
    <3>3. n.path = q /\ n.leaf = FALSE /\ n.child = <<>> /\ n \in NodeType
      BY <2>2, <3>0 DEF Node, NodeType
    <3>4. \A x \in ToSet(level) : ~Is(u[x], q, FALSE)
      <4> SUFFICES ASSUME NEW x \in ToSet(level), Is(u[x], q, FALSE) PROVE FALSE
        OBVIOUS
      <4>1. Begins(u[x], q)
        BY <2>2 DEF Is, Begins
      <4> QED BY <4>1, <3>2, <2>3 DEF Starts
    <3>5. Fits(u, c.at, n)
      <4>1. Len(n.path) = k
        BY <3>3, <2>2
      <4>2. Len(n.path) = Len(u[c.at].path) + 1
        BY <4>1, <2>1, <2>2
      <4>3. Len(n.path) <= MaxDepth
        BY <4>1, TreeAssumption DEF TreeAssumption
      <4>4. \A x \in ToSet(level) : ~Is(u[x], n.path, n.leaf)
        BY <3>3, <3>4, Zenon
      <4>5. \A g \in Linked(u) :
              c.at \in ToSet(u[g].child) => c.at = FirstOf(u[g].child, Starts(u, Before(n.path)))
        BY <3>3, <2>1, <2>2 DEF Route
      <4> QED BY <4>2, <4>3, <4>4, <4>5, <3>3, <2>1 DEF Fits
    <3>6. Sound(d) /\ (d = [c EXCEPT !.ok = FALSE] \/ \E id : NewNodeMakes(d, c, n, id))
      BY <3>1, <3>5, <2>1, NewNodeSound
    <3>7. CASE d = [c EXCEPT !.ok = FALSE]
      <4>1. ~d.ok /\ d.nodes = c.nodes
        BY <3>7, <2>1 DEF States
      <4> QED BY <1>0, <4>1, <3>6, <2>1 DEF OnWay, Fresh
    <3>8. CASE \E id : NewNodeMakes(d, c, n, id)
      <4>1. PICK id : NewNodeMakes(d, c, n, id)
        BY <3>8
      <4>2. Fresh(t, d)
        BY <4>1, <2>1, NewNodeFresh
      <4>3. d.at = id /\ d.nodes[id] = n
        BY <4>1 DEF NewNodeMakes, HungFrom
      <4>4. Begins(n, q)
        <5>1. Len(q) \in Nat
          BY <2>2
        <5> QED BY <5>1, <3>3 DEF Begins
      <4>5. Route(d.nodes, id, q)
        BY <4>1, <4>4, <3>2, <3>5, <2>1, NewRoute DEF NewNodeMakes
      <4> QED BY <1>0, <4>2, <4>3, <4>5, <3>3, <3>6, <2>2 DEF OnWay
    <3> QED BY <3>6, <3>7, <3>8
  <2> QED BY <2>4, <2>5
<1> QED BY <1>1, <1>2

(* The parameter itself.                                                    *)
LEMMA LeafSound ==
  ASSUME NEW t, NEW c, NEW p \in Names, NEW x \in Index, c.ok,
         OnWay(t, c, p, Len(p) - 1),
         ~ \E i \in ToSet(c.nodes[c.at].child) : Is(c.nodes[i], p, TRUE)
  PROVE  Sound(NewNode(c, Node(p, TRUE, x))) /\ Fresh(t, NewNode(c, Node(p, TRUE, x)))
<1> DEFINE u == c.nodes
<1>1. p \in Seq(Comp) /\ Len(p) \in 1 .. MaxDepth /\ MaxDepth \in Nat
  BY TreeAssumption DEF TreeAssumption, Names
<1>2. Before(p) = SubSeq(p, 1, Len(p) - 1)
  BY DEF Before
<1>3. /\ Sound(c) /\ Tree(u) /\ c.at \in Linked(u) /\ Fresh(t, c) /\ c \in States
      /\ Len(u[c.at].path) = Len(p) - 1 /\ Route(u, c.at, Before(p))
  BY <1>2 DEF OnWay, Sound
<1>0. PICK n : n = Node(p, TRUE, x)
  OBVIOUS
<1>4. n.path = p /\ n.leaf = TRUE /\ n.child = <<>> /\ n \in NodeType
  BY <1>0, <1>1 DEF Node, NodeType
<1>5. Fits(u, c.at, n)
  <2>1. Len(n.path) = Len(u[c.at].path) + 1 /\ Len(n.path) <= MaxDepth
    <3>1. Len(n.path) = Len(p)
      BY <1>4
    <3> QED BY <3>1, <1>1, <1>3
  <2>2. \A i \in ToSet(u[c.at].child) : ~Is(u[i], n.path, n.leaf)
    BY <1>4, Zenon
  <2>3. \A g \in Linked(u) :
          c.at \in ToSet(u[g].child) => c.at = FirstOf(u[g].child, Starts(u, Before(n.path)))
    BY <1>3, <1>4 DEF Route
  <2> QED BY <2>1, <2>2, <2>3, <1>3, <1>4 DEF Fits
<1>6. PICK d : d = NewNode(c, n)
  OBVIOUS
<1>7. Sound(d) /\ (d = [c EXCEPT !.ok = FALSE] \/ \E id : NewNodeMakes(d, c, n, id))
  BY <1>3, <1>5, <1>6, NewNodeSound
<1>8. CASE d = [c EXCEPT !.ok = FALSE]
  <2>1. d.nodes = c.nodes
    BY <1>8, <1>3 DEF States
  <2>2. Fresh(t, d)
    BY <2>1, <1>3 DEF Fresh
  <2> QED BY <2>2, <1>0, <1>6, <1>7
<1>9. CASE \E id : NewNodeMakes(d, c, n, id)
  <2>1. Fresh(t, d)
    BY <1>9, <1>3, NewNodeFresh
  <2> QED BY <2>1, <1>0, <1>6, <1>7
<1> QED BY <1>7, <1>8, <1>9

(* add_param's loop over the dots of the name p.                            *)
AddsWay(f, p) ==
  f = [k \in 0 .. Len(p) - 1 |-> IF k = 0 THEN Current ELSE Middle(f[k - 1], SubSeq(p, 1, k))]

(* The loop of add_param over the dots: after k of them the node at hand is *)
(* on the way of the name, or the table was full.                           *)
LEMMA AddWalk ==
  ASSUME Sound(Current), NEW p \in Names, NEW f, f[0] = Current,
         \A k \in 1 .. Len(p) - 1 :
           OnWay(nodes, f[k - 1], p, k - 1) => f[k] = Middle(f[k - 1], SubSeq(p, 1, k))
  PROVE  \A k \in 0 .. Len(p) - 1 : OnWay(nodes, f[k], p, k)
<1>1. p \in Seq(Comp) /\ Len(p) \in 1 .. MaxDepth /\ MaxDepth \in Nat /\ Len(p) \in Nat
  BY TreeAssumption DEF TreeAssumption, Names
<1> DEFINE T == {k \in Nat : k <= Len(p) - 1 => OnWay(nodes, f[k], p, k)}
<1>2. 0 \in T
  <2>1. Current.nodes = nodes /\ Current.at = 0
    BY DEF Current
  <2>2. Tree(nodes)
    BY <2>1 DEF Sound
  <2>3. Len(nodes[0].path) = 0
    BY <2>2 DEF Tree, Shape, Levels, Is
  <2>4. Route(nodes, 0, SubSeq(p, 1, 0))
    BY <2>2, TreeLinked DEF Route
  <2>5. OnWay(nodes, Current, p, 0)
    BY <2>1, <2>3, <2>4 DEF OnWay, Fresh
  <2> QED BY <2>5
<1>3. ASSUME NEW k \in Nat, k \in T PROVE k + 1 \in T
  <2> SUFFICES ASSUME k + 1 <= Len(p) - 1 PROVE OnWay(nodes, f[k + 1], p, k + 1)
    OBVIOUS
  <2>1. OnWay(nodes, f[k], p, k)
    BY <1>1, <1>3
  <2>2. PICK m : m = k + 1
    OBVIOUS
  <2>3. m \in 1 .. Len(p) - 1 /\ m - 1 = k
    BY <1>1, <2>2
  <2>4. f[m] = Middle(f[k], SubSeq(p, 1, m)) /\ OnWay(nodes, f[k], p, m - 1)
    BY <2>1, <2>3
  <2>5. OnWay(nodes, f[m], p, m)
    BY <2>3, <2>4, <1>1, MiddleOnWay
  <2> QED BY <2>2, <2>5
<1>4. Nat \subseteq T
  <2> HIDE DEF T
  <2> QED BY <1>2, <1>3, Induction
<1> QED BY <1>1, <1>4

(* The recursion inside Added has the values its equation gives.            *)
LEMMA AddWay ==
  ASSUME Sound(Current), NEW p \in Names
  PROVE  \E f : AddsWay(f, p)
<1> DEFINE n == Len(p) - 1
           mid(x) == Middle(x[1], SubSeq(p, 1, x[2]))
           step == [x \in States \X (1 .. n) |-> IF mid(x) \in States THEN mid(x) ELSE Current]
<1>1. n \in Nat /\ Current \in States
  BY TreeAssumption DEF TreeAssumption, Names, Sound
<1>2. step \in [States \X (1 .. n) -> States]
  BY <1>1
<1>3. PICK g : Goes(g, n, States, Current, step)
  <2> HIDE DEF step, n
  <2> QED BY <1>1, <1>2, Recursion
<1>4. ASSUME NEW k \in 1 .. n, OnWay(nodes, g[k - 1], p, k - 1)
      PROVE  g[k] = Middle(g[k - 1], SubSeq(p, 1, k))
  <2>1. OnWay(nodes, Middle(g[k - 1], SubSeq(p, 1, k)), p, k)
    <3>1. p \in Seq(Comp) /\ Len(p) <= MaxDepth
      BY TreeAssumption DEF TreeAssumption, Names
    <3> QED BY <1>4, <3>1, MiddleOnWay
  <2>2. Middle(g[k - 1], SubSeq(p, 1, k)) \in States /\ g[k - 1] \in States
    BY <2>1, <1>4 DEF OnWay, Sound
  <2>3. step[<<g[k - 1], k>>] = Middle(g[k - 1], SubSeq(p, 1, k))
    BY <2>2
  <2> QED BY <2>3, <1>3 DEF Goes
<1>5. \A k \in 0 .. n : OnWay(nodes, g[k], p, k)
  <2>1. g[0] = Current
    BY <1>3 DEF Goes
  <2> QED BY <1>4, <2>1, AddWalk
<1>6. \A k \in 1 .. n : g[k] = Middle(g[k - 1], SubSeq(p, 1, k))
  <2> SUFFICES ASSUME NEW k \in 1 .. n PROVE g[k] = Middle(g[k - 1], SubSeq(p, 1, k))
    OBVIOUS
  <2>1. k - 1 \in 0 .. n
    BY <1>1
  <2> QED BY <2>1, <1>4, <1>5
<1>7. AddsWay(g, p)
  <2>1. g = [k \in 0 .. n |-> g[k]] /\ g[0] = Current
    BY <1>3 DEF Goes
  <2>2. \A k \in 0 .. n : g[k] = IF k = 0 THEN Current ELSE Middle(g[k - 1], SubSeq(p, 1, k))
    <3> SUFFICES ASSUME NEW k \in 0 .. n, k # 0
                 PROVE  g[k] = Middle(g[k - 1], SubSeq(p, 1, k))
      BY <2>1
    <3>1. k \in 1 .. n
      BY <1>1
    <3> QED BY <3>1, <1>6
  <2> QED BY <2>1, <2>2 DEF AddsWay
<1> QED BY <1>7

(* add_param keeps the manager in order, whether it adds all nodes, some or *)
(* none.                                                                    *)
LEMMA AddedSound ==
  ASSUME Sound(Current), NEW p \in Names, NEW x \in Index
  PROVE  Sound(Added(p, x)) /\ Fresh(nodes, Added(p, x))
<1> DEFINE F == CHOOSE f : AddsWay(f, p)
<1>1. AddsWay(F, p)
  BY AddWay, Zenon
<1>2. PICK f : f = F
  OBVIOUS
<1>3. AddsWay(f, p)
  BY <1>1, <1>2
<1>4. PICK c : c = f[Len(p) - 1]
  OBVIOUS
<1>5. Added(p, x) = IF ~c.ok \/ (\E i \in ToSet(c.nodes[c.at].child) : Is(c.nodes[i], p, TRUE))
                    THEN c ELSE NewNode(c, Node(p, TRUE, x))
  <2>1. c = F[Len(p) - 1]
    BY <1>2, <1>4
  <2> QED BY <2>1 DEF Added, AddsWay
<1>6. Len(p) - 1 \in Nat
  BY TreeAssumption DEF TreeAssumption, Names
<1>7. f[0] = Current /\ \A k \in 1 .. Len(p) - 1 : f[k] = Middle(f[k - 1], SubSeq(p, 1, k))
  BY <1>3, <1>6 DEF AddsWay
<1>8. OnWay(nodes, c, p, Len(p) - 1)
  BY <1>4, <1>6, <1>7, AddWalk
<1>9. CASE ~c.ok \/ (\E i \in ToSet(c.nodes[c.at].child) : Is(c.nodes[i], p, TRUE))
  BY <1>5, <1>8, <1>9 DEF OnWay
<1>10. CASE ~(~c.ok \/ (\E i \in ToSet(c.nodes[c.at].child) : Is(c.nodes[i], p, TRUE)))
  <2>1. Added(p, x) = NewNode(c, Node(p, TRUE, x))
    BY <1>5, <1>10
  <2> QED BY <1>8, <1>10, <2>1, LeafSound
<1> QED BY <1>9, <1>10
-----------------------------------------------------------------------------
(* Lists of nodes.                                                          *)

(* Two lists without repetitions and without a common member make one       *)
(* without repetitions.                                                     *)
LEMMA JoinLists ==
  ASSUME NEW X, NEW s \in Seq(X), NEW r \in Seq(X)
  PROVE  /\ s \o r \in Seq(X)
         /\ ToSet(s \o r) = ToSet(s) \cup ToSet(r)
         /\ IsInjective(s) /\ IsInjective(r) /\ ToSet(s) \cap ToSet(r) = {}
              => IsInjective(s \o r)
<1>1. PICK q : q = s \o r
  OBVIOUS
<1>2. /\ q \in Seq(X) /\ Len(q) = Len(s) + Len(r) /\ Len(s) \in Nat /\ Len(r) \in Nat
      /\ \A k \in 1 .. Len(s) : q[k] = s[k]
      /\ \A k \in 1 .. Len(r) : q[Len(s) + k] = r[k]
      /\ DOMAIN q = 1 .. Len(q) /\ DOMAIN s = 1 .. Len(s) /\ DOMAIN r = 1 .. Len(r)
  BY <1>1
<1>3. ASSUME NEW k \in 1 .. Len(q)
      PROVE  \/ k \in 1 .. Len(s) /\ q[k] = s[k]
             \/ k - Len(s) \in 1 .. Len(r) /\ q[k] = r[k - Len(s)]
  <2>1. CASE k \in 1 .. Len(s)
    BY <2>1, <1>2
  <2>2. CASE k \notin 1 .. Len(s)
    <3>1. PICK m : m = k - Len(s)
      OBVIOUS
    <3>2. m \in 1 .. Len(r) /\ k = Len(s) + m
      BY <3>1, <2>2, <1>2
    <3> QED BY <3>1, <3>2, <1>2
  <2> QED BY <2>1, <2>2
<1>4. ToSet(q) = ToSet(s) \cup ToSet(r)
  <2>1. ASSUME NEW x \in ToSet(q) PROVE x \in ToSet(s) \cup ToSet(r)
    <3>1. PICK k \in 1 .. Len(q) : q[k] = x
      BY <1>2 DEF ToSet
    <3> QED BY <3>1, <1>2, <1>3 DEF ToSet
  <2>2. ASSUME NEW x \in ToSet(s) PROVE x \in ToSet(q)
    <3>1. PICK k \in 1 .. Len(s) : s[k] = x
      BY <1>2 DEF ToSet
    <3>2. k \in 1 .. Len(q) /\ q[k] = x
      BY <3>1, <1>2
    <3> QED BY <3>2, <1>2 DEF ToSet
  <2>3. ASSUME NEW x \in ToSet(r) PROVE x \in ToSet(q)
    <3>1. PICK k \in 1 .. Len(r) : r[k] = x
      BY <1>2 DEF ToSet
    <3>2. Len(s) + k \in 1 .. Len(q) /\ q[Len(s) + k] = x
      BY <3>1, <1>2
    <3> QED BY <3>2, <1>2 DEF ToSet
  <2> QED BY <2>1, <2>2, <2>3
<1>5. ASSUME IsInjective(s), IsInjective(r), ToSet(s) \cap ToSet(r) = {}
      PROVE  IsInjective(q)
  <2> SUFFICES ASSUME NEW k \in 1 .. Len(q), NEW m \in 1 .. Len(q), q[k] = q[m]
               PROVE  k = m
    BY <1>2 DEF IsInjective
  <2>1. \A a \in 1 .. Len(s) : s[a] \in ToSet(s)
    BY <1>2 DEF ToSet
  <2>2. \A a \in 1 .. Len(r) : r[a] \in ToSet(r)
    BY <1>2 DEF ToSet
  <2>3. CASE k \in 1 .. Len(s) /\ q[k] = s[k]
    <3>1. m \in 1 .. Len(s) /\ q[m] = s[m]
      BY <2>1, <2>2, <2>3, <1>3, <1>5
    <3> QED BY <2>3, <3>1, <1>2, <1>5 DEF IsInjective
  <2>4. CASE k - Len(s) \in 1 .. Len(r) /\ q[k] = r[k - Len(s)]
    <3>1. m - Len(s) \in 1 .. Len(r) /\ q[m] = r[m - Len(s)]
      BY <2>1, <2>2, <2>4, <1>3, <1>5
    <3>2. PICK a, b : a = k - Len(s) /\ b = m - Len(s)
      OBVIOUS
    <3>3. a \in 1 .. Len(r) /\ b \in 1 .. Len(r) /\ r[a] = r[b]
      BY <2>4, <3>1, <3>2
    <3>4. a = b
      BY <3>3, <1>2, <1>5 DEF IsInjective
    <3> QED BY <3>2, <3>4, <1>2
  <2> QED BY <2>3, <2>4, <1>3
<1> QED BY <1>1, <1>2, <1>4, <1>5

(* The parts of a list in which no two meet.                                *)
Apart(f, list) ==
  /\ IsInjective(list)
  /\ \A c \in ToSet(list) : IsInjective(f[c])
  /\ \A c, d \in ToSet(list) : c # d => ToSet(f[c]) \cap ToSet(f[d]) = {}

(* Concat's list after k nodes.                                             *)
Joined(s, X, f, list, k) ==
  /\ s \in Seq(X)
  /\ ToSet(s) = UNION {ToSet(f[list[m]]) : m \in 1 .. k}
  /\ Apart(f, list) => IsInjective(s)

(* One list more of a concatenation.                                        *)
LEMMA JoinedNext ==
  ASSUME NEW X, NEW list \in Seq(Nat), NEW f, \A c \in ToSet(list) : f[c] \in Seq(X),
         NEW k \in 1 .. Len(list), NEW s, Joined(s, X, f, list, k - 1)
  PROVE  Joined(s \o f[list[k]], X, f, list, k)
<1>1. PICK r : r = f[list[k]]
  OBVIOUS
<1>2. DOMAIN list = 1 .. Len(list) /\ Len(list) \in Nat /\ list[k] \in ToSet(list)
      /\ \A m \in 1 .. Len(list) : list[m] \in ToSet(list)
  BY DEF ToSet
<1>3. r \in Seq(X) /\ s \in Seq(X)
  BY <1>1, <1>2 DEF Joined
<1>4. /\ s \o r \in Seq(X) /\ ToSet(s \o r) = ToSet(s) \cup ToSet(r)
      /\ IsInjective(s) /\ IsInjective(r) /\ ToSet(s) \cap ToSet(r) = {} => IsInjective(s \o r)
  BY ONLY <1>3, JoinLists
<1>5. 1 .. k = (1 .. k - 1) \cup {k}
  BY <1>2
<1>6. ToSet(s \o r) = UNION {ToSet(f[list[m]]) : m \in 1 .. k}
  BY <1>1, <1>4, <1>5 DEF Joined
<1>7. ASSUME Apart(f, list) PROVE IsInjective(s \o r)
  <2>1. IsInjective(s) /\ IsInjective(r)
    BY <1>1, <1>2, <1>7 DEF Joined, Apart
  <2>2. ASSUME NEW m \in 1 .. k - 1 PROVE ToSet(f[list[m]]) \cap ToSet(r) = {}
    <3>1. m \in 1 .. Len(list) /\ m # k
      BY <1>2
    <3>2. list[m] # list[k]
      BY <3>1, <1>2, <1>7 DEF Apart, IsInjective
    <3>3. \A c, d \in ToSet(list) : c # d => ToSet(f[c]) \cap ToSet(f[d]) = {}
      BY <1>7 DEF Apart
    <3> QED BY <3>1, <3>2, <3>3, <1>1, <1>2
  <2>3. ToSet(s) \cap ToSet(r) = {}
    BY <2>2 DEF Joined
  <2> QED BY <2>1, <2>3, <1>4
<1> QED BY <1>1, <1>4, <1>6, <1>7 DEF Joined

ConcatWay(s, f, list) ==
  s = [k \in 0 .. Len(list) |-> IF k = 0 THEN <<>> ELSE s[k - 1] \o f[list[k]]]

(* Concat has the members of the lists it joins, and repeats none when the  *)
(* lists neither repeat nor share one.                                      *)
LEMMA ConcatIs ==
  ASSUME NEW X, NEW list \in Seq(Nat), NEW f, \A c \in ToSet(list) : f[c] \in Seq(X)
  PROVE  /\ Concat(f, list) \in Seq(X)
         /\ ToSet(Concat(f, list)) = UNION {ToSet(f[c]) : c \in ToSet(list)}
         /\ Apart(f, list) => IsInjective(Concat(f, list))
<1> DEFINE n == Len(list)
           join(x) == x[1] \o f[list[x[2]]]
           step == [x \in Seq(X) \X (1 .. n) |-> join(x)]
           S == CHOOSE s : ConcatWay(s, f, list)
<1>1. n \in Nat /\ DOMAIN list = 1 .. n /\ \A m \in 1 .. n : f[list[m]] \in Seq(X)
  BY DEF ToSet
<1>2. step \in [Seq(X) \X (1 .. n) -> Seq(X)]
  <2>1. ASSUME NEW x \in Seq(X) \X (1 .. n) PROVE join(x) \in Seq(X)
    <3>1. PICK a, b : a = x[1] /\ b = f[list[x[2]]]
      OBVIOUS
    <3>2. a \in Seq(X) /\ b \in Seq(X)
      BY <3>1, <1>1
    <3>3. a \o b \in Seq(X)
      BY <3>2
    <3> QED BY <3>1, <3>3
  <2> HIDE DEF join
  <2> QED BY <2>1
<1>3. PICK g : Goes(g, n, Seq(X), <<>>, step)
  <2> HIDE DEF step, n
  <2>1. <<>> \in Seq(X)
    OBVIOUS
  <2> QED BY <1>1, <1>2, <2>1, Recursion
<1>4. g \in [0 .. n -> Seq(X)] /\ g[0] = <<>> /\ \A k \in 1 .. n : g[k] = g[k - 1] \o f[list[k]]
  <2>1. g \in [0 .. n -> Seq(X)] /\ g[0] = <<>> /\ \A k \in 1 .. n : g[k] = step[<<g[k - 1], k>>]
    BY <1>3 DEF Goes
  <2>2. ASSUME NEW k \in 1 .. n PROVE step[<<g[k - 1], k>>] = g[k - 1] \o f[list[k]]
    <3>1. k - 1 \in 0 .. n
      BY <1>1
    <3>2. g[k - 1] \in Seq(X)
      BY <3>1, <2>1
    <3> QED BY <3>2
  <2> QED BY <2>1, <2>2
<1>5. ConcatWay(g, f, list)
  <2>1. g = [k \in 0 .. n |-> g[k]]
    BY <1>4
  <2>2. \A k \in 0 .. n : g[k] = IF k = 0 THEN <<>> ELSE g[k - 1] \o f[list[k]]
    <3> SUFFICES ASSUME NEW k \in 0 .. n, k # 0 PROVE g[k] = g[k - 1] \o f[list[k]]
      BY <1>4
    <3>1. k \in 1 .. n
      BY <1>1
    <3> QED BY <3>1, <1>4
  <2> QED BY <2>1, <2>2 DEF ConcatWay
<1>6. ConcatWay(S, f, list)
  BY <1>5, Zenon
<1>7. PICK s : s = S
  OBVIOUS
<1>8. ConcatWay(s, f, list) /\ Concat(f, list) = s[n]
  BY <1>6, <1>7 DEF Concat, ConcatWay
<1>9. s[0] = <<>> /\ \A k \in 1 .. n : s[k] = s[k - 1] \o f[list[k]]
  <2>1. \A k \in 0 .. n : s[k] = IF k = 0 THEN <<>> ELSE s[k - 1] \o f[list[k]]
    BY ONLY <1>8, Zenon DEF ConcatWay
  <2>2. 0 \in 0 .. n /\ \A k \in 1 .. n : k \in 0 .. n /\ k # 0
    BY <1>1
  <2> QED BY ONLY <2>1, <2>2
<1> DEFINE T == {k \in Nat : k <= n => Joined(s[k], X, f, list, k)}
<1>10. 0 \in T
  <2>1. <<>> \in Seq(X) /\ ToSet(<<>>) = {} /\ IsInjective(<<>>) /\ 1 .. 0 = {}
    BY DEF ToSet, IsInjective
  <2>2. Joined(<<>>, X, f, list, 0)
    BY <2>1 DEF Joined
  <2> QED BY <2>2, <1>9
<1>11. ASSUME NEW k \in Nat, k \in T PROVE k + 1 \in T
  <2> SUFFICES ASSUME k + 1 <= n PROVE Joined(s[k + 1], X, f, list, k + 1)
    OBVIOUS
  <2>1. PICK m : m = k + 1
    OBVIOUS
  <2>2. m \in 1 .. n /\ m - 1 = k /\ k <= n
    BY <2>1, <1>1
  <2>3. Joined(s[k], X, f, list, k)
    BY <2>2, <1>11
  <2>4. Joined(s[m - 1], X, f, list, m - 1)
    BY <2>2, <2>3
  <2>5. Joined(s[m - 1] \o f[list[m]], X, f, list, m)
    BY ONLY <2>2, <2>4, JoinedNext, list \in Seq(Nat), \A c \in ToSet(list) : f[c] \in Seq(X)
  <2>6. Joined(s[m], X, f, list, m)
    BY <2>2, <2>5, <1>9
  <2> QED BY <2>1, <2>6
<1>12. Joined(s[n], X, f, list, n)
  <2>1. Nat \subseteq T
    <3> HIDE DEF T
    <3> QED BY <1>10, <1>11, Induction
  <2>2. n \in T /\ n <= n
    BY <2>1, <1>1
  <2> QED BY <2>2
<1>13. UNION {ToSet(f[list[m]]) : m \in 1 .. n} = UNION {ToSet(f[c]) : c \in ToSet(list)}
  <2>1. ToSet(list) = {list[m] : m \in 1 .. n}
    BY <1>1 DEF ToSet
  <2>2. \A x : x \in ToSet(list) <=> \E m \in 1 .. n : x = list[m]
    BY <2>1
  <2> QED BY ONLY <2>2
<1>14. PICK q : q = s[n]
  OBVIOUS
<1>15. Joined(q, X, f, list, n) /\ Concat(f, list) = q
  BY <1>8, <1>12, <1>14
<1>16. /\ q \in Seq(X) /\ ToSet(q) = UNION {ToSet(f[list[m]]) : m \in 1 .. n}
       /\ Apart(f, list) => IsInjective(q)
  BY ONLY <1>15 DEF Joined
<1>17. ToSet(q) = UNION {ToSet(f[c]) : c \in ToSet(list)}
  BY ONLY <1>13, <1>16, Zenon
<1>18. q \in Seq(X) /\ (Apart(f, list) => IsInjective(q))
  BY ONLY <1>16
<1> QED BY ONLY <1>15, <1>17, <1>18, Zenon
-----------------------------------------------------------------------------
(* Reverse keeps the members and their number.                              *)
LEMMA ReverseIs ==
  ASSUME NEW X, NEW s \in Seq(X)
  PROVE  /\ Reverse(s) \in Seq(X) /\ ToSet(Reverse(s)) = ToSet(s)
         /\ IsInjective(s) => IsInjective(Reverse(s))
<1>1. PICK r : r = Reverse(s)
  OBVIOUS
<1>2. Len(s) \in Nat /\ DOMAIN s = 1 .. Len(s) /\ \A k \in 1 .. Len(s) : s[k] \in X
  OBVIOUS
<1>3. r = [k \in 1 .. Len(s) |-> s[Len(s) - k + 1]]
  BY <1>1 DEF Reverse
<1>4. \A k \in 1 .. Len(s) : Len(s) - k + 1 \in 1 .. Len(s)
  BY <1>2
<1>5. r \in [1 .. Len(s) -> X]
  BY <1>2, <1>3, <1>4
<1>6. r \in Seq(X) /\ Len(r) = Len(s) /\ DOMAIN r = 1 .. Len(s)
  BY <1>2, <1>5
<1>7. \A k \in 1 .. Len(s) : r[k] = s[Len(s) - k + 1]
  BY <1>3
<1>8. ASSUME NEW x PROVE x \in ToSet(r) <=> x \in ToSet(s)
  <2>1. ASSUME x \in ToSet(r) PROVE x \in ToSet(s)
    <3>1. PICK k \in 1 .. Len(s) : r[k] = x
      BY <2>1, <1>6 DEF ToSet
    <3> QED BY <3>1, <1>2, <1>4, <1>7 DEF ToSet
  <2>2. ASSUME x \in ToSet(s) PROVE x \in ToSet(r)
    <3>1. PICK k \in 1 .. Len(s) : s[k] = x
      BY <2>2, <1>2 DEF ToSet
    <3>2. PICK m : m = Len(s) - k + 1
      OBVIOUS
    <3>3. m \in 1 .. Len(s) /\ Len(s) - m + 1 = k
      BY <3>2, <1>2
    <3>4. r[m] = x
      BY <3>1, <3>3, <1>7
    <3> QED BY <3>3, <3>4, <1>6 DEF ToSet
  <2> QED BY <2>1, <2>2
<1>9. ASSUME IsInjective(s) PROVE IsInjective(r)
  <2> SUFFICES ASSUME NEW k \in 1 .. Len(s), NEW m \in 1 .. Len(s), r[k] = r[m]
               PROVE  k = m
    BY <1>6 DEF IsInjective
  <2>1. Len(s) - k + 1 = Len(s) - m + 1
    BY <1>2, <1>4, <1>7, <1>9 DEF IsInjective
  <2> QED BY <2>1, <1>2
<1>10. ToSet(r) = ToSet(s)
  BY <1>8
<1> QED BY <1>1, <1>6, <1>9, <1>10

(* A list from which the item at k is taken.                                *)
Skips(w, s, k) ==
  /\ Len(s) \in Nat \ {0} /\ k \in 1 .. Len(s)
  /\ Len(w) = Len(s) - 1
  /\ \A m \in 1 .. k - 1 : w[m] = s[m]
  /\ \A m \in k .. Len(s) - 1 : w[m] = s[m + 1]

(* Without skips one place of the list, or leaves it alone.                 *)
LEMMA WithoutIs ==
  ASSUME NEW X, NEW s \in Seq(X), NEW i
  PROVE  /\ Without(s, i) \in Seq(X)
         /\ i \notin ToSet(s) => Without(s, i) = s
         /\ i \in ToSet(s) => \E k : s[k] = i /\ Skips(Without(s, i), s, k)
<1>0. DOMAIN s = 1 .. Len(s) /\ Len(s) \in Nat
  OBVIOUS
<1>1. CASE i \notin ToSet(s)
  BY <1>1 DEF Without
<1>2. CASE i \in ToSet(s)
  <2>1. \E k \in 1 .. Len(s) : s[k] = i
    BY <1>0, <1>2 DEF ToSet
  <2>2. PICK k : k = CHOOSE m \in 1 .. Len(s) : s[m] = i
    OBVIOUS
  <2>3. k \in 1 .. Len(s) /\ s[k] = i
    BY <2>1, <2>2
  <2>4. PICK a, b, w : a = SubSeq(s, 1, k - 1) /\ b = SubSeq(s, k + 1, Len(s)) /\ w = a \o b
    OBVIOUS
  <2>5. Without(s, i) = w
    BY <1>2, <2>2, <2>4 DEF Without, RemoveAt
  <2>6. /\ a \in Seq(X) /\ Len(a) = k - 1 /\ \A m \in 1 .. k - 1 : a[m] = s[m]
    BY <2>3, <2>4, <1>0
  <2>7. /\ b \in Seq(X) /\ Len(b) = Len(s) - k /\ \A m \in 1 .. Len(s) - k : b[m] = s[k + m]
    <3>1. PICK lo : lo = k + 1
      OBVIOUS
    <3>2. b = SubSeq(s, lo, Len(s)) /\ lo \in 1 .. Len(s) + 1 /\ Len(s) - lo + 1 = Len(s) - k
      BY <3>1, <2>3, <2>4, <1>0
    <3>3. b \in Seq(X) /\ Len(b) = Len(s) - lo + 1
          /\ \A m \in 1 .. Len(s) - lo + 1 : b[m] = s[lo + m - 1]
      BY <3>2, <1>0
    <3>4. \A m \in 1 .. Len(s) - k : lo + m - 1 = k + m
      BY <3>1, <2>3
    <3> QED BY ONLY <3>2, <3>3, <3>4
  <2>8. /\ w \in Seq(X) /\ Len(w) = Len(s) - 1
        /\ \A m \in 1 .. k - 1 : w[m] = a[m]
        /\ \A m \in 1 .. Len(s) - k : w[k - 1 + m] = b[m]
    <3>1. w \in Seq(X) /\ Len(w) = Len(a) + Len(b)
      BY <2>4, <2>6, <2>7
    <3>2. \A m \in 1 .. Len(a) : w[m] = a[m]
      BY <2>4, <2>6, <2>7
    <3>3. \A m \in 1 .. Len(b) : w[Len(a) + m] = b[m]
      <4>1. a \in Seq(X) /\ b \in Seq(X) /\ w = a \o b
        BY <2>4, <2>6, <2>7
      <4> QED BY ONLY <4>1
    <3>4. Len(a) = k - 1 /\ Len(b) = Len(s) - k
      BY <2>6, <2>7
    <3>5. Len(w) = Len(s) - 1
      BY <3>1, <3>4, <2>3, <1>0
    <3> QED BY ONLY <3>1, <3>2, <3>3, <3>4, <3>5
  <2>9. ASSUME NEW m \in k .. Len(s) - 1 PROVE w[m] = s[m + 1]
    <3>1. PICK j : j = m - k + 1
      OBVIOUS
    <3>2. j \in 1 .. Len(s) - k /\ k - 1 + j = m /\ k + j = m + 1
      BY <3>1, <2>3, <1>0
    <3>3. w[k - 1 + j] = b[j] /\ b[j] = s[k + j]
      BY <3>2, <2>7, <2>8
    <3> QED BY <3>2, <3>3
  <2>10. Skips(w, s, k)
    BY <2>3, <2>6, <2>8, <2>9, <1>0 DEF Skips
  <2> QED BY <1>2, <2>3, <2>5, <2>8, <2>10
<1> QED BY <1>1, <1>2

(* Without takes the node out of a list that had it once.                   *)
LEMMA WithoutSet ==
  ASSUME NEW X, NEW s \in Seq(X), IsInjective(s), NEW i
  PROVE  /\ ToSet(Without(s, i)) = ToSet(s) \ {i}
         /\ IsInjective(Without(s, i))
<1>0. PICK w : w = Without(s, i)
  OBVIOUS
<1>1. w \in Seq(X) /\ DOMAIN w = 1 .. Len(w) /\ Len(w) \in Nat
      /\ DOMAIN s = 1 .. Len(s) /\ Len(s) \in Nat
  BY <1>0, WithoutIs
<1>2. CASE i \notin ToSet(s)
  <2>1. w = s
    BY <1>0, <1>2, WithoutIs
  <2> QED BY <1>0, <1>2, <2>1
<1>3. CASE i \in ToSet(s)
  <2>1. PICK k : s[k] = i /\ Skips(w, s, k)
    BY <1>0, <1>3, WithoutIs
  <2>2. /\ Len(w) = Len(s) - 1 /\ k \in 1 .. Len(s)
        /\ \A m \in 1 .. k - 1 : w[m] = s[m]
        /\ \A m \in k .. Len(s) - 1 : w[m] = s[m + 1]
    BY <2>1 DEF Skips
  <2>3. ASSUME NEW m \in 1 .. Len(w)
        PROVE  \/ m < k /\ m \in 1 .. Len(s) /\ m # k /\ w[m] = s[m]
               \/ m >= k /\ m + 1 \in 1 .. Len(s) /\ m + 1 # k /\ w[m] = s[m + 1]
    <3>1. CASE m < k
      BY <3>1, <2>2, <1>1
    <3>2. CASE ~(m < k)
      BY <3>2, <2>2, <1>1
    <3> QED BY <3>1, <3>2
  <2>4. \A a, b \in 1 .. Len(s) : s[a] = s[b] => a = b
    BY <1>1 DEF IsInjective
  <2>5. ASSUME NEW x \in ToSet(w) PROVE x \in ToSet(s) \ {i}
    <3>1. PICK m \in 1 .. Len(w) : w[m] = x
      BY <1>1 DEF ToSet
    <3>2. \E a \in 1 .. Len(s) : a # k /\ s[a] = x
      BY <3>1, <2>3
    <3> QED BY <3>2, <2>1, <2>2, <2>4, <1>1 DEF ToSet
  <2>6. ASSUME NEW x \in ToSet(s), x # i PROVE x \in ToSet(w)
    <3>1. PICK a \in 1 .. Len(s) : s[a] = x
      BY <1>1 DEF ToSet
    <3>2. a # k
      BY <3>1, <2>1, <2>6
    <3>3. CASE a < k
      <4>1. a \in 1 .. k - 1 /\ a \in 1 .. Len(w)
        BY <3>3, <2>2, <1>1
      <4> QED BY <4>1, <3>1, <2>2, <1>1 DEF ToSet
    <3>4. CASE a > k
      <4>1. PICK m : m = a - 1
        OBVIOUS
      <4>2. m \in k .. Len(s) - 1 /\ m + 1 = a /\ m \in 1 .. Len(w)
        BY <4>1, <3>4, <2>2, <1>1
      <4>3. w[m] = x
        BY <4>2, <3>1, <2>2
      <4> QED BY <4>2, <4>3, <1>1 DEF ToSet
    <3> QED BY <3>2, <3>3, <3>4, <2>2
  <2>7. ToSet(w) = ToSet(s) \ {i}
    BY <2>5, <2>6
  <2>8. IsInjective(w)
    <3> SUFFICES ASSUME NEW a \in 1 .. Len(w), NEW b \in 1 .. Len(w), w[a] = w[b]
                 PROVE  a = b
      BY <1>1 DEF IsInjective
    <3>1. PICK c \in 1 .. Len(s) : w[a] = s[c] /\ ((a < k /\ c = a) \/ (a >= k /\ c = a + 1))
      BY <2>3
    <3>2. PICK d \in 1 .. Len(s) : w[b] = s[d] /\ ((b < k /\ d = b) \/ (b >= k /\ d = b + 1))
      BY <2>3
    <3>3. c = d
      BY <3>1, <3>2, <2>4
    <3> QED BY <3>1, <3>2, <3>3, <2>2, <1>1
  <2> QED BY <1>0, <2>7, <2>8
<1> QED BY <1>2, <1>3

(* The first of a list stays the first when another node goes.              *)
LEMMA FirstStays ==
  ASSUME NEW s \in Seq(Nat), IsInjective(s), NEW S, NEW T, NEW i, NEW x,
         FirstOf(s, S) = x, x # Nowhere, x # i,
         \A c \in ToSet(s) \ {i} : c \in T <=> c \in S
  PROVE  FirstOf(Without(s, i), T) = x
<1>0. PICK w : w = Without(s, i)
  OBVIOUS
<1>1. w \in Seq(Nat) /\ DOMAIN w = 1 .. Len(w) /\ Len(w) \in Nat
      /\ DOMAIN s = 1 .. Len(s) /\ Len(s) \in Nat
  BY <1>0, WithoutIs
<1>2. ToSet(w) = ToSet(s) \ {i}
  BY <1>0, WithoutSet
<1>3. PICK q : IsFirst(s, S, q) /\ x = s[q]
  BY FirstFound
<1>4. q \in 1 .. Len(s) /\ s[q] \in S /\ \A m \in 1 .. q - 1 : s[m] \notin S
  BY <1>3 DEF IsFirst
<1>5. \E r : IsFirst(w, T, r) /\ w[r] = x
  <2>1. CASE i \notin ToSet(s)
    <3>1. w = s
      BY <1>0, <2>1, WithoutIs
    <3>2. \A m \in 1 .. Len(s) : s[m] \in ToSet(s) \ {i}
      BY <2>1, <1>1 DEF ToSet
    <3>3. \A m \in 1 .. q - 1 : m \in 1 .. Len(s)
      BY <1>4, <1>1
    <3>4. IsFirst(w, T, q)
      BY <3>1, <3>2, <3>3, <1>4 DEF IsFirst
    <3> QED BY <3>1, <3>4, <1>3
  <2>2. CASE i \in ToSet(s)
    <3>1. PICK k : s[k] = i /\ Skips(w, s, k)
      BY <1>0, <2>2, WithoutIs
    <3>2. /\ Len(w) = Len(s) - 1 /\ k \in 1 .. Len(s)
          /\ \A m \in 1 .. k - 1 : w[m] = s[m]
          /\ \A m \in k .. Len(s) - 1 : w[m] = s[m + 1]
      BY <3>1 DEF Skips
    <3>3. q # k
      BY <1>3, <3>1
    <3>4. \A m \in 1 .. Len(s) : m # k => s[m] \in ToSet(s) \ {i}
      BY <3>1, <3>2, <1>1 DEF ToSet, IsInjective
    <3>5. \A m \in 1 .. q - 1 : m \in 1 .. Len(s)
      BY <1>4, <1>1
    <3>6. CASE q < k
      <4>1. q \in 1 .. Len(w) /\ q \in 1 .. k - 1 /\ \A m \in 1 .. q - 1 : m \in 1 .. k - 1 /\ m # k
        BY <3>6, <3>2, <1>1, <1>4
      <4>2. w[q] = s[q] /\ \A m \in 1 .. q - 1 : w[m] = s[m]
        BY <4>1, <3>2
      <4>3. w[q] \in T
        BY <4>2, <3>3, <3>4, <1>4
      <4>4. \A m \in 1 .. q - 1 : w[m] \notin T
        BY <4>1, <4>2, <3>4, <3>5, <1>4
      <4> QED BY <4>1, <4>2, <4>3, <4>4, <1>3 DEF IsFirst
    <3>7. CASE q > k
      <4>1. PICK r : r = q - 1
        OBVIOUS
      <4>2. r \in k .. Len(s) - 1 /\ r + 1 = q /\ r \in 1 .. Len(w)
        BY <4>1, <3>7, <3>2, <1>1, <1>4
      <4>3. w[r] = s[q]
        BY <4>2, <3>2
      <4>4. w[r] \in T
        BY <4>3, <3>3, <3>4, <1>4
      <4>5. ASSUME NEW m \in 1 .. r - 1 PROVE w[m] \notin T
        <5>1. CASE m < k
          <6>1. m \in 1 .. k - 1 /\ m \in 1 .. q - 1 /\ m # k
            BY <5>1, <4>2, <3>2, <1>1
          <6>2. w[m] = s[m] /\ s[m] \notin S /\ s[m] \in ToSet(s) \ {i}
            BY <6>1, <3>2, <3>4, <3>5, <1>4
          <6> QED BY <6>2
        <5>2. CASE m >= k
          <6>1. PICK a : a = m + 1
            OBVIOUS
          <6>2. m \in k .. Len(s) - 1 /\ a \in 1 .. q - 1 /\ a # k
            BY <6>1, <5>2, <4>2, <3>2, <1>1
          <6>3. w[m] = s[a] /\ s[a] \notin S /\ s[a] \in ToSet(s) \ {i}
            BY <6>1, <6>2, <3>2, <3>4, <3>5, <1>4
          <6> QED BY <6>3
        <5> QED BY <5>1, <5>2, <3>2
      <4>6. IsFirst(w, T, r)
        BY <4>2, <4>4, <4>5 DEF IsFirst
      <4> QED BY <4>3, <4>6, <1>3
    <3> QED BY <3>3, <3>6, <3>7, <3>2, <1>4
  <2> QED BY <2>1, <2>2
<1>6. PICK r : IsFirst(w, T, r) /\ w[r] = x
  BY <1>5
<1> QED BY <1>0, <1>1, <1>6, FirstIs
-----------------------------------------------------------------------------
(* Walks through what hangs below a node.                                   *)

(* Levels of linked nodes.                                                  *)
LEMMA LevelIs ==
  ASSUME NEW t, Tree(t), NEW i \in Linked(t)
  PROVE  /\ t[i].path \in Seq(Comp) /\ Len(t[i].path) \in Nat
         /\ t[i].child \in Seq(Nat) /\ t[i].child \in Seq(1 .. MaxParam - 1)
         /\ \A c \in ToSet(t[i].child) :
              c \in Linked(t) /\ Len(t[c].path) = Len(t[i].path) + 1 /\ Len(t[c].path) <= MaxDepth
<1>1. t[i].path \in Seq(Comp) /\ t[i].child \in Seq(1 .. MaxParam - 1)
  BY TreeLinked DEF NodeType
<1>2. \A c \in ToSet(t[i].child) :
        c \in Linked(t) /\ Len(t[c].path) = Len(t[i].path) + 1 /\ Len(t[c].path) <= MaxDepth
  BY TreeLinked DEF Tree, Shape, Levels
<1>3. Len(t[i].path) \in Nat
  BY <1>1
<1>4. t[i].child \in Seq(Nat)
  BY <1>1, SeqOfIds
<1> QED BY <1>1, <1>2, <1>3, <1>4

(* What hangs below a linked node is linked and has a longer name.          *)
LEMMA UnderLevels ==
  ASSUME NEW t, Tree(t), NEW i \in Linked(t)
  PROVE  /\ Under(t, i) \subseteq Linked(t) /\ i \in Under(t, i)
         /\ \A x \in Under(t, i) : x # i => Len(t[x].path) > Len(t[i].path)
<1> DEFINE L == Linked(t)
           S == {x \in L : x = i \/ Len(t[x].path) > Len(t[i].path)}
<1>1. ClosedAt(t, i, L)
  BY TreeLinked
<1>2. Under(t, i) \subseteq L /\ i \in Under(t, i)
  BY <1>1, UnderIs DEF ClosedAt
<1>3. ASSUME NEW j \in Under(t, i) \cap S PROVE ToSet(t[j].child) \subseteq S
  <2> SUFFICES ASSUME NEW c \in ToSet(t[j].child) PROVE c \in S
    OBVIOUS
  <2>1. c \in L /\ Len(t[c].path) = Len(t[j].path) + 1 /\ Len(t[j].path) \in Nat
        /\ Len(t[i].path) \in Nat
    BY LevelIs
  <2> QED BY <2>1
<1>4. i \in S
  OBVIOUS
<1>5. Under(t, i) \subseteq S
  <2> HIDE DEF S
  <2> QED BY <1>1, <1>3, <1>4, UnderInduct
<1> QED BY <1>2, <1>5

(* Nothing hangs below two siblings.                                        *)
LEMMA UnderApart ==
  ASSUME NEW t, Tree(t), NEW g \in Linked(t), NEW c \in ToSet(t[g].child),
         NEW d \in ToSet(t[g].child), c # d
  PROVE  Under(t, c) \cap Under(t, d) = {}
<1> DEFINE L == Linked(t)
           S == L \ Under(t, d)
<1>1. c \in L /\ d \in L /\ Len(t[c].path) = Len(t[d].path) /\ Len(t[d].path) \in Nat
  <2>1. c \in L /\ d \in L /\ Len(t[c].path) = Len(t[d].path)
    BY LevelIs
  <2> QED BY <2>1, LevelIs
<1>2. ClosedAt(t, c, L) /\ ClosedAt(t, d, L)
  BY <1>1, TreeLinked
<1>3. c \in S
  <2>1. c \in Under(t, d) => Len(t[c].path) > Len(t[d].path)
    BY <1>1, UnderLevels
  <2> QED BY <2>1, <1>1
<1>4. ASSUME NEW j \in Under(t, c) \cap S PROVE ToSet(t[j].child) \subseteq S
  <2> SUFFICES ASSUME NEW x \in ToSet(t[j].child), x \in Under(t, d) PROVE FALSE
    BY LevelIs
  <2>1. j \in L /\ x \in L /\ Len(t[x].path) = Len(t[j].path) + 1 /\ Len(t[j].path) \in Nat
    BY LevelIs
  <2>2. Len(t[j].path) >= Len(t[c].path)
    <3>1. j = c \/ Len(t[j].path) > Len(t[c].path)
      BY <1>1, UnderLevels
    <3> QED BY <3>1, <2>1, <1>1
  <2>3. x # d
    BY <2>1, <2>2, <1>1
  <2>4. PICK y \in Under(t, d) : x \in ToSet(t[y].child)
    BY <2>3, <1>2, UnderParent
  <2>5. y \in L
    BY <2>4, <1>1, UnderLevels
  <2>6. y = j
    BY <2>1, <2>4, <2>5, TreePlace
  <2> QED BY <2>4, <2>6
<1>5. Under(t, c) \subseteq S
  <2> HIDE DEF S
  <2> QED BY <1>2, <1>3, <1>4, UnderInduct
<1> QED BY <1>5

(* What hangs below a node is the children and what hangs below them.       *)
LEMMA BelowUnfolds ==
  ASSUME NEW t, Tree(t), NEW k \in Linked(t)
  PROVE  /\ \A x : x \in Under(t, k) \ {k}
                   <=> \E c \in ToSet(t[k].child) : x = c \/ x \in Under(t, c) \ {c}
         /\ \A c \in ToSet(t[k].child), d \in ToSet(t[k].child) : c \notin Under(t, d) \ {d}
         /\ \A c \in ToSet(t[k].child) : k \notin Under(t, c)
<1>1. ClosedAt(t, k, Linked(t))
  BY TreeLinked
<1>2. Under(t, k) = {k} \cup UNION {Under(t, c) : c \in ToSet(t[k].child)}
  BY <1>1, UnderUnfolds
<1>3. ASSUME NEW c \in ToSet(t[k].child)
      PROVE  c \in Under(t, c) /\ k \notin Under(t, c) /\ c \in Linked(t)
  <2>1. c \in Linked(t) /\ Len(t[c].path) = Len(t[k].path) + 1 /\ Len(t[k].path) \in Nat
    BY LevelIs
  <2>2. c \in Under(t, c) /\ \A x \in Under(t, c) : x # c => Len(t[x].path) > Len(t[c].path)
    BY <2>1, UnderLevels
  <2> QED BY <2>1, <2>2
<1>4. ASSUME NEW c \in ToSet(t[k].child), NEW d \in ToSet(t[k].child)
      PROVE  c \notin Under(t, d) \ {d}
  <2> SUFFICES ASSUME c # d, c \in Under(t, d) PROVE FALSE
    OBVIOUS
  <2>1. Under(t, c) \cap Under(t, d) = {}
    BY UnderApart
  <2> QED BY <2>1, <1>3
<1>5. ASSUME NEW x
      PROVE  x \in Under(t, k) \ {k} <=> \E c \in ToSet(t[k].child) : x = c \/ x \in Under(t, c) \ {c}
  <2>1. x \in Under(t, k) <=> x = k \/ \E c \in ToSet(t[k].child) : x \in Under(t, c)
    BY <1>2
  <2> QED BY <2>1, <1>3
<1> QED BY <1>3, <1>4, <1>5

(* At the deepest level nothing hangs below.                                *)
LEMMA DeepestIs ==
  ASSUME NEW t, Tree(t), NEW k \in Linked(t), Len(t[k].path) >= MaxDepth
  PROVE  ToSet(t[k].child) = {} /\ Under(t, k) = {k}
<1>1. MaxDepth \in Nat
  BY TreeAssumption DEF TreeAssumption
<1>2. ToSet(t[k].child) = {}
  <2> SUFFICES ASSUME NEW c \in ToSet(t[k].child) PROVE FALSE
    OBVIOUS
  <2>1. Len(t[c].path) = Len(t[k].path) + 1 /\ Len(t[c].path) <= MaxDepth /\ Len(t[k].path) \in Nat
    BY LevelIs
  <2> QED BY <2>1, <1>1
<1>3. ClosedAt(t, k, Linked(t))
  BY TreeLinked
<1>4. Under(t, k) = {k} \cup UNION {Under(t, c) : c \in ToSet(t[k].child)}
  BY <1>3, UnderUnfolds
<1> QED BY <1>2, <1>4
-----------------------------------------------------------------------------
(* A list is a list over every set that has its members.                    *)
LEMMA SeqInto ==
  ASSUME NEW X, NEW Y, NEW s \in Seq(X), ToSet(s) \subseteq Y
  PROVE  s \in Seq(Y)
<1>1. DOMAIN s = 1 .. Len(s) /\ Len(s) \in Nat /\ s \in [1 .. Len(s) -> X]
  OBVIOUS
<1>2. \A k \in 1 .. Len(s) : s[k] \in Y
  BY <1>1 DEF ToSet
<1>3. s \in [1 .. Len(s) -> Y]
  BY <1>1, <1>2
<1> QED BY <1>1, <1>3

(* The children of a linked node, as a list of linked nodes.                *)
LEMMA ChildList ==
  ASSUME Tree(nodes), NEW k \in Linked(nodes)
  PROVE  /\ nodes[k].child \in Seq(Linked(nodes)) /\ nodes[k].child \in Seq(Nat)
         /\ ToSet(nodes[k].child) \subseteq Linked(nodes)
         /\ IsInjective(nodes[k].child)
<1>1. nodes[k].child \in Seq(Nat) /\ ToSet(nodes[k].child) \subseteq Linked(nodes)
  BY LevelIs
<1> QED BY <1>1, SeqInto, TreePlace

(* One level of recursive_remove, over lists that are right.                *)
BelowStep(b, k) == Concat(b, nodes[k].child) \o Reverse(nodes[k].child)

(* One level of recursive_remove's order: right for the node when it is     *)
(* right for its children.                                                  *)
LEMMA BelowStepIs ==
  ASSUME Tree(nodes), NEW b \in [Linked(nodes) -> Seq(Linked(nodes))], NEW k \in Linked(nodes)
  PROVE  /\ BelowStep(b, k) \in Seq(Linked(nodes))
         /\ (\A c \in ToSet(nodes[k].child) :
               ToSet(b[c]) = Under(nodes, c) \ {c} /\ IsInjective(b[c]))
              => /\ ToSet(BelowStep(b, k)) = Under(nodes, k) \ {k}
                 /\ IsInjective(BelowStep(b, k))
<1>0. PICK L, list, s, r : /\ L = Linked(nodes) /\ list = nodes[k].child
                           /\ s = Concat(b, nodes[k].child) /\ r = Reverse(nodes[k].child)
  OBVIOUS
<1>1. list \in Seq(L) /\ list \in Seq(Nat) /\ ToSet(list) \subseteq L /\ IsInjective(list)
      /\ s = Concat(b, list) /\ r = Reverse(list)
  BY <1>0, ChildList
<1>2. \A c \in ToSet(list) : b[c] \in Seq(L)
  BY <1>0, <1>1
<1>3. /\ s \in Seq(L) /\ ToSet(s) = UNION {ToSet(b[c]) : c \in ToSet(list)}
      /\ Apart(b, list) => IsInjective(s)
  BY ONLY <1>1, <1>2, ConcatIs
<1>4. r \in Seq(L) /\ ToSet(r) = ToSet(list) /\ IsInjective(r)
  BY ONLY <1>1, ReverseIs
<1>5. PICK q : q = s \o r
  OBVIOUS
<1>6. /\ q \in Seq(L) /\ ToSet(q) = ToSet(s) \cup ToSet(r)
      /\ IsInjective(s) /\ IsInjective(r) /\ ToSet(s) \cap ToSet(r) = {} => IsInjective(q)
  BY ONLY <1>3, <1>4, <1>5, JoinLists
<1>7. BelowStep(b, k) = q
  BY <1>0, <1>5 DEF BelowStep
<1>8. ASSUME \A c \in ToSet(list) :
               ToSet(b[c]) = Under(nodes, c) \ {c} /\ IsInjective(b[c])
      PROVE  ToSet(q) = Under(nodes, k) \ {k} /\ IsInjective(q)
  <2>1. /\ \A x : x \in Under(nodes, k) \ {k}
                   <=> \E c \in ToSet(list) : x = c \/ x \in Under(nodes, c) \ {c}
        /\ \A c \in ToSet(list), d \in ToSet(list) : c \notin Under(nodes, d) \ {d}
    BY <1>0, BelowUnfolds
  <2>2. \A x : x \in ToSet(s) <=> \E c \in ToSet(list) : x \in ToSet(b[c])
    BY ONLY <1>3
  <2>3. \A x : x \in ToSet(q) <=> x \in ToSet(s) \/ x \in ToSet(list)
    BY ONLY <1>4, <1>6
  <2>4. \A x : x \in ToSet(s) <=> \E c \in ToSet(list) : x \in Under(nodes, c) \ {c}
    BY <2>2, <1>8
  <2>5. \A x : x \in ToSet(q) <=> x \in Under(nodes, k) \ {k}
    BY ONLY <2>1, <2>3, <2>4
  <2>6. ASSUME NEW c \in ToSet(list), NEW d \in ToSet(list), c # d
        PROVE  ToSet(b[c]) \cap ToSet(b[d]) = {}
    <3>1. Under(nodes, c) \cap Under(nodes, d) = {}
      BY <2>6, <1>0, UnderApart
    <3> QED BY <3>1, <1>8
  <2>7. Apart(b, list)
    BY <2>6, <1>1, <1>8 DEF Apart
  <2>8. ToSet(s) \cap ToSet(r) = {}
    BY <2>1, <2>4, <1>4
  <2>9. ToSet(q) = Under(nodes, k) \ {k}
    BY ONLY <2>5
  <2> QED BY <2>7, <2>8, <2>9, <1>3, <1>4, <1>6
<1> QED BY <1>0, <1>6, <1>7, <1>8

BelowWay(b) ==
  b = [h \in 0 .. MaxDepth |->
         [k \in Linked(nodes) |->
            IF h = 0 THEN <<>>
            ELSE Concat(b[h - 1], nodes[k].child) \o Reverse(nodes[k].child)]]

(* The recursion inside FreeOrder has the values its equation gives.        *)
LEMMA BelowWayIs ==
  ASSUME Tree(nodes)
  PROVE  \E b : BelowWay(b)
<1> DEFINE L == Linked(nodes)
           S == [L -> Seq(L)]
           base == [k \in L |-> <<>>]
           step == [x \in S \X (1 .. MaxDepth) |-> [k \in L |-> BelowStep(x[1], k)]]
<1>1. MaxDepth \in Nat
  BY TreeAssumption DEF TreeAssumption
<1>2. base \in S
  OBVIOUS
<1>3. step \in [S \X (1 .. MaxDepth) -> S]
  <2>1. ASSUME NEW x \in S \X (1 .. MaxDepth) PROVE [k \in L |-> BelowStep(x[1], k)] \in S
    <3>1. PICK f : f = x[1]
      OBVIOUS
    <3>2. f \in S
      BY <3>1
    <3>3. \A k \in L : BelowStep(f, k) \in Seq(L)
      BY <3>2, BelowStepIs
    <3>4. [k \in L |-> BelowStep(f, k)] \in S
      BY <3>3
    <3> QED BY <3>1, <3>4
  <2> HIDE DEF S
  <2> QED BY <2>1
<1>4. PICK b : Goes(b, MaxDepth, S, base, step)
  <2> HIDE DEF S, base, step
  <2> QED BY <1>1, <1>2, <1>3, Recursion
<1>5. b \in [0 .. MaxDepth -> S] /\ b[0] = base
      /\ \A h \in 1 .. MaxDepth : b[h] = step[<<b[h - 1], h>>]
  BY <1>4 DEF Goes
<1>6. ASSUME NEW h \in 1 .. MaxDepth
      PROVE  b[h] = [k \in L |-> Concat(b[h - 1], nodes[k].child) \o Reverse(nodes[k].child)]
  <2>1. PICK f : f = b[h - 1]
    OBVIOUS
  <2>2. f \in S
    <3>1. h - 1 \in 0 .. MaxDepth
      BY <1>1
    <3> QED BY <2>1, <3>1, <1>5
  <2>3. step[<<f, h>>] = [k \in L |-> BelowStep(f, k)]
    <3>1. <<f, h>> \in S \X (1 .. MaxDepth)
      BY <2>2
    <3> HIDE DEF S
    <3> QED BY <3>1
  <2>4. b[h] = [k \in L |-> BelowStep(f, k)]
    BY <2>1, <2>3, <1>5
  <2> QED BY <2>1, <2>4 DEF BelowStep
<1>7. b = [h \in 0 .. MaxDepth |->
             [k \in L |-> IF h = 0 THEN <<>>
                          ELSE Concat(b[h - 1], nodes[k].child) \o Reverse(nodes[k].child)]]
  <2>1. b = [h \in 0 .. MaxDepth |-> b[h]]
    BY <1>5
  <2>2. ASSUME NEW h \in 0 .. MaxDepth
        PROVE  b[h] = [k \in L |-> IF h = 0 THEN <<>>
                          ELSE Concat(b[h - 1], nodes[k].child) \o Reverse(nodes[k].child)]
    <3>1. CASE h = 0
      BY <3>1, <1>5
    <3>2. CASE h \in 1 .. MaxDepth
      <4>1. h # 0
        BY <3>2
      <4> QED BY <3>2, <4>1, <1>6
    <3> QED BY <3>1, <3>2, <1>1
  <2> QED BY <2>1, <2>2
<1> QED BY <1>7 DEF BelowWay

(* Deep enough, the walk meets everything below the node once.              *)
BelowRight(b, h) ==
  \A k \in Linked(nodes) :
    /\ b[h] \in [Linked(nodes) -> Seq(Linked(nodes))]
    /\ Len(nodes[k].path) + h >= MaxDepth
         => ToSet(b[h][k]) = Under(nodes, k) \ {k} /\ IsInjective(b[h][k])

(* With h levels to go the order has everything below a node once, when no  *)
(* more than h levels are below it.                                         *)
LEMMA BelowIs ==
  ASSUME Tree(nodes), NEW b, BelowWay(b)
  PROVE  \A h \in 0 .. MaxDepth : BelowRight(b, h)
<1> DEFINE L == Linked(nodes)
           T == {h \in Nat : h <= MaxDepth => BelowRight(b, h)}
<1>1. MaxDepth \in Nat
  BY TreeAssumption DEF TreeAssumption
<1>2. \A h \in 0 .. MaxDepth :
        b[h] = [k \in L |-> IF h = 0 THEN <<>> ELSE BelowStep(b[h - 1], k)]
  BY DEF BelowWay, BelowStep
<1>3. 0 \in T
  <2>1. b[0] = [k \in L |-> <<>>]
    BY <1>1, <1>2
  <2>2. b[0] \in [L -> Seq(L)]
    BY <2>1
  <2>3. ToSet(<<>>) = {} /\ IsInjective(<<>>)
    BY DEF ToSet, IsInjective
  <2>4. ASSUME NEW k \in L, Len(nodes[k].path) + 0 >= MaxDepth
        PROVE  ToSet(b[0][k]) = Under(nodes, k) \ {k} /\ IsInjective(b[0][k])
    <3>1. Len(nodes[k].path) >= MaxDepth
      BY <2>4, <1>1, LevelIs
    <3>2. Under(nodes, k) = {k}
      BY <3>1, DeepestIs
    <3> QED BY <3>2, <2>1, <2>3
  <2> QED BY <2>2, <2>4 DEF BelowRight
<1>4. ASSUME NEW h \in Nat, h \in T PROVE h + 1 \in T
  <2> SUFFICES ASSUME h + 1 <= MaxDepth PROVE BelowRight(b, h + 1)
    OBVIOUS
  <2>1. PICK m, f : m = h + 1 /\ f = b[h]
    OBVIOUS
  <2>2. m \in 0 .. MaxDepth /\ m # 0 /\ m - 1 = h /\ h \in 0 .. MaxDepth
    BY <2>1, <1>1
  <2>3. b[m] = [k \in L |-> BelowStep(f, k)]
    BY <2>1, <2>2, <1>2
  <2>4. BelowRight(b, h)
    BY <2>2, <1>4
  <2>5. f \in [L -> Seq(L)]
    <3>1. 0 \in L
      BY TreeLinked
    <3> QED BY <3>1, <2>1, <2>4 DEF BelowRight
  <2>6. \A k \in L : BelowStep(f, k) \in Seq(L)
    BY <2>5, BelowStepIs
  <2>7. b[m] \in [L -> Seq(L)]
    BY <2>3, <2>6
  <2>8. ASSUME NEW k \in L, Len(nodes[k].path) + m >= MaxDepth
        PROVE  ToSet(b[m][k]) = Under(nodes, k) \ {k} /\ IsInjective(b[m][k])
    <3>1. ASSUME NEW c \in ToSet(nodes[k].child)
          PROVE  ToSet(f[c]) = Under(nodes, c) \ {c} /\ IsInjective(f[c])
      <4>1. c \in L /\ Len(nodes[c].path) = Len(nodes[k].path) + 1 /\ Len(nodes[k].path) \in Nat
        BY LevelIs
      <4>2. Len(nodes[c].path) + h >= MaxDepth
        <5>1. PICK x, y : x = Len(nodes[k].path) /\ y = Len(nodes[c].path)
          OBVIOUS
        <5>2. x \in Nat /\ y = x + 1 /\ m = h + 1 /\ x + m >= MaxDepth
          BY <5>1, <4>1, <2>1, <2>8
        <5>3. y + h >= MaxDepth
          BY ONLY <5>2, <1>1, h \in Nat
        <5> QED BY <5>1, <5>3
      <4> QED BY <4>1, <4>2, <2>1, <2>4 DEF BelowRight
    <3>2. ToSet(BelowStep(f, k)) = Under(nodes, k) \ {k} /\ IsInjective(BelowStep(f, k))
      BY <3>1, <2>5, BelowStepIs
    <3> QED BY <3>2, <2>3
  <2> QED BY <2>1, <2>7, <2>8 DEF BelowRight
<1>5. Nat \subseteq T
  <2> HIDE DEF T
  <2> QED BY <1>3, <1>4, Induction
<1> QED BY <1>1, <1>5

(* recursive_remove frees what is below the node, and the node, once each.  *)
LEMMA FreeOrderIs ==
  ASSUME Tree(nodes), NEW i \in Linked(nodes)
  PROVE  /\ FreeOrder(i) \in Seq(Linked(nodes))
         /\ ToSet(FreeOrder(i)) = Under(nodes, i)
         /\ IsInjective(FreeOrder(i))
<1> DEFINE B == CHOOSE b : BelowWay(b)
<1>1. BelowWay(B)
  BY BelowWayIs, Zenon
<1>2. PICK b : b = B
  OBVIOUS
<1>3. PICK s : s = b[MaxDepth][i]
  OBVIOUS
<1>4. FreeOrder(i) = Append(s, i)
  <2>1. s = B[MaxDepth][i]
    BY <1>2, <1>3
  <2> QED BY <2>1 DEF FreeOrder, BelowWay
<1>5. MaxDepth \in Nat /\ MaxDepth \in 0 .. MaxDepth
  BY TreeAssumption DEF TreeAssumption
<1>6. BelowRight(b, MaxDepth)
  BY <1>1, <1>2, <1>5, BelowIs
<1>7. Len(nodes[i].path) + MaxDepth >= MaxDepth
  BY <1>5, LevelIs
<1>8. s \in Seq(Linked(nodes)) /\ ToSet(s) = Under(nodes, i) \ {i} /\ IsInjective(s)
  BY <1>3, <1>6, <1>7 DEF BelowRight
<1>9. PICK L, a : L = Linked(nodes) /\ a = Append(s, i)
  OBVIOUS
<1>10. s \in Seq(L) /\ i \in L
  BY <1>8, <1>9
<1>11. a \in Seq(L) /\ ToSet(a) = ToSet(s) \cup {i}
  BY ONLY <1>9, <1>10, AppendSet
<1>12. IsInjective(a)
  <2>1. i \notin ToSet(s)
    BY <1>8
  <2>2. DOMAIN a = 1 .. Len(s) + 1 /\ a[Len(s) + 1] = i /\ Len(s) \in Nat /\ DOMAIN s = 1 .. Len(s)
        /\ \A k \in 1 .. Len(s) : a[k] = s[k]
    BY ONLY <1>9, <1>10
  <2>3. \A k \in 1 .. Len(s) : s[k] # i
    BY ONLY <2>1, <2>2 DEF ToSet
  <2>4. \A k, m \in 1 .. Len(s) : s[k] = s[m] => k = m
    BY ONLY <1>8, <2>2 DEF IsInjective
  <2> QED BY ONLY <2>2, <2>3, <2>4 DEF IsInjective
<1>13. i \in Under(nodes, i)
  BY UnderLevels
<1> QED BY <1>4, <1>8, <1>9, <1>11, <1>12, <1>13
-----------------------------------------------------------------------------
(* remove_param.                                                            *)

(* The table u is the table t without the node i in its parent's list.      *)
UnlinkedFrom(u, t, i) ==
  /\ DOMAIN u = DOMAIN t /\ u \in [DOMAIN u -> NodeType]
  /\ \A j \in DOMAIN t : u[j].path = t[j].path /\ u[j].leaf = t[j].leaf
  /\ \A j \in Linked(t) : /\ u[j].child = Without(t[j].child, i)
                          /\ u[j].child \in Seq(Nat) /\ IsInjective(u[j].child)
                          /\ ToSet(u[j].child) = ToSet(t[j].child) \ {i}

(* Unlinked takes the node out of every list, and changes nothing else.     *)
LEMMA UnlinkedIs ==
  ASSUME Tree(nodes), NEW i
  PROVE  UnlinkedFrom(Unlinked(i), nodes, i)
<1>0. PICK u : u = Unlinked(i)
  OBVIOUS
<1>1. u = [j \in DOMAIN nodes |-> [nodes[j] EXCEPT !.child = Without(nodes[j].child, i)]]
  BY <1>0 DEF Unlinked
<1>2. ASSUME NEW j \in DOMAIN nodes
      PROVE  /\ u[j] \in NodeType /\ u[j].child = Without(nodes[j].child, i)
             /\ u[j].path = nodes[j].path /\ u[j].leaf = nodes[j].leaf
             /\ u[j].child \in Seq(1 .. MaxParam - 1)
  <2>1. nodes[j] \in NodeType
    BY DEF Tree
  <2>2. PICK w : w = Without(nodes[j].child, i)
    OBVIOUS
  <2>3. w \in Seq(1 .. MaxParam - 1)
    <3>1. nodes[j].child \in Seq(1 .. MaxParam - 1)
      BY <2>1 DEF NodeType
    <3> QED BY <3>1, <2>2, WithoutIs
  <2>4. u[j] = [nodes[j] EXCEPT !.child = w]
    BY <1>1, <2>2
  <2> QED BY <2>1, <2>2, <2>3, <2>4 DEF NodeType
<1>3. DOMAIN u = DOMAIN nodes /\ u \in [DOMAIN u -> NodeType]
  <2>1. u = [j \in DOMAIN nodes |-> u[j]] /\ DOMAIN u = DOMAIN nodes
    BY <1>1
  <2> QED BY <2>1, <1>2
<1>4. ASSUME NEW j \in Linked(nodes)
      PROVE  /\ u[j].child = Without(nodes[j].child, i)
             /\ u[j].child \in Seq(Nat) /\ IsInjective(u[j].child)
             /\ ToSet(u[j].child) = ToSet(nodes[j].child) \ {i}
  <2>1. j \in DOMAIN nodes
    BY TreeLinked
  <2>2. PICK a, w : a = nodes[j].child /\ w = Without(nodes[j].child, i)
    OBVIOUS
  <2>3. a \in Seq(Nat) /\ IsInjective(a) /\ w = Without(a, i)
    BY <2>2, ChildList
  <2>4. w \in Seq(Nat) /\ ToSet(w) = ToSet(a) \ {i} /\ IsInjective(w)
    BY ONLY <2>3, WithoutIs, WithoutSet
  <2>5. u[j].child = w
    BY <2>1, <2>2, <1>2
  <2> QED BY <2>2, <2>4, <2>5
<1>5. UnlinkedFrom(u, nodes, i)
  BY <1>2, <1>3, <1>4 DEF UnlinkedFrom
<1> QED BY <1>0, <1>5

(* The node that is unlinked takes out of the tree what is below it.        *)
LEMMA UnlinkedLinked ==
  ASSUME NEW t, Tree(t), NEW i \in Linked(t), i # 0, NEW u, UnlinkedFrom(u, t, i)
  PROVE  Linked(u) = Linked(t) \ Under(t, i) /\ 0 \in Linked(u)
<1> DEFINE L == Linked(t)
           U == Under(t, i)
           M == Linked(u)
<1>1. ClosedAt(t, 0, L) /\ L \subseteq DOMAIN t /\ 0 \in L /\ ClosedAt(t, i, L)
  BY TreeLinked
<1>2. U \subseteq L /\ i \in U /\ 0 \notin U /\ ClosedAt(t, i, U)
  <2>1. U \subseteq L /\ i \in U /\ \A x \in U : x # i => Len(t[x].path) > Len(t[i].path)
    BY UnderLevels
  <2>2. Len(t[0].path) = 0 /\ Len(t[i].path) \in Nat
    BY LevelIs DEF Tree, Shape, Levels, Is
  <2>3. 0 \notin U
    BY <2>1, <2>2
  <2> QED BY <2>1, <2>3, <1>1, UnderIs
<1>3. ClosedAt(u, 0, L \ U)
  <2>1. ASSUME NEW j \in L \ U, NEW c \in ToSet(u[j].child) PROVE c \in L \ U
    <3>1. c \in ToSet(t[j].child) /\ c # i
      BY <2>1 DEF UnlinkedFrom
    <3>2. c \in L
      BY <3>1, <2>1, TreeLinked
    <3>3. ASSUME c \in U PROVE FALSE
      <4>1. PICK y \in U : c \in ToSet(t[y].child)
        BY <3>1, <3>3, <1>1, UnderParent
      <4>2. y = j
        BY <4>1, <3>1, <2>1, <1>2, TreePlace
      <4> QED BY <4>1, <4>2, <2>1
    <3> QED BY <3>2, <3>3
  <2> QED BY <2>1, <1>1, <1>2 DEF ClosedAt, Closed, UnlinkedFrom
<1>4. M \subseteq L \ U /\ ClosedAt(u, 0, M)
  BY <1>3, UnderIs DEF Linked
<1>5. ClosedAt(t, 0, M \cup U)
  <2>1. ASSUME NEW j \in M \cup U, NEW c \in ToSet(t[j].child) PROVE c \in M \cup U
    <3>1. CASE j \in U
      BY <3>1, <2>1, <1>2 DEF ClosedAt, Closed
    <3>2. CASE j \in M /\ c = i
      BY <3>2, <1>2
    <3>3. CASE j \in M /\ c # i
      <4>1. c \in ToSet(u[j].child)
        BY <3>3, <2>1, <1>4 DEF UnlinkedFrom
      <4> QED BY <4>1, <3>3, <1>4 DEF ClosedAt, Closed
    <3> QED BY <3>1, <3>2, <3>3
  <2>2. 0 \in M /\ M \cup U \subseteq DOMAIN t
    BY <1>1, <1>2, <1>4 DEF ClosedAt
  <2> QED BY <2>1, <2>2 DEF ClosedAt, Closed
<1>6. L \subseteq M \cup U
  BY <1>5, UnderIs DEF Linked
<1>7. 0 \in M
  BY <1>4 DEF ClosedAt
<1> QED BY <1>4, <1>6, <1>7

(* The tree without a node and what is below it has the right shape: no     *)
(* node that stays hung below the one that goes.                            *)
LEMMA UnlinkedTree ==
  ASSUME NEW t, Tree(t), NEW i \in Linked(t), i # 0, NEW u, UnlinkedFrom(u, t, i)
  PROVE  Tree(u)
<1> DEFINE L == Linked(t)
           M == Linked(u)
<1>1. M \subseteq L /\ 0 \in M /\ M \subseteq DOMAIN t /\ i \notin M
  BY UnlinkedLinked, UnderLevels, TreeLinked
<1>2. \A j \in M : /\ u[j].path = t[j].path /\ u[j].leaf = t[j].leaf
                   /\ u[j].child \in Seq(Nat) /\ IsInjective(u[j].child)
                   /\ u[j].child = Without(t[j].child, i)
                   /\ ToSet(u[j].child) = ToSet(t[j].child) \ {i}
  BY <1>1 DEF UnlinkedFrom
<1>3. DOMAIN u = DOMAIN t /\ u \in [DOMAIN u -> NodeType] /\ 0 \in DOMAIN u
  BY <1>1 DEF UnlinkedFrom
<1>4. \A j \in M : ToSet(u[j].child) \subseteq DOMAIN u \ {0}
  <2>1. \A j \in L : ToSet(t[j].child) \subseteq DOMAIN t \ {0}
    BY TreeLinked
  <2> QED BY <2>1, <1>1, <1>2, <1>3
<1>5. \A g \in M : ToSet(u[g].child) \subseteq M
  <2>1. ClosedAt(u, 0, M)
    BY <1>3, <1>4, LinkedClosed
  <2> QED BY <2>1 DEF ClosedAt, Closed
<1>6. OneTree(u)
  <2>1. ASSUME NEW a \in M, NEW b \in M, NEW k \in 1 .. Len(u[a].child),
               NEW m \in 1 .. Len(u[b].child), u[a].child[k] = u[b].child[m]
        PROVE  a = b /\ k = m
    <3>0. DOMAIN u[a].child = 1 .. Len(u[a].child) /\ DOMAIN u[b].child = 1 .. Len(u[b].child)
      BY <1>2
    <3>1. u[a].child[k] \in ToSet(u[a].child) /\ u[a].child[k] \in ToSet(u[b].child)
      BY <3>0, <2>1 DEF ToSet
    <3>2. u[a].child[k] \in ToSet(t[a].child) /\ u[a].child[k] \in ToSet(t[b].child)
      BY <3>1, <1>2
    <3>3. a = b
      BY <3>2, <1>1, TreePlace
    <3>4. IsInjective(u[a].child)
      BY <1>2
    <3> QED BY <3>0, <3>3, <3>4, <2>1 DEF IsInjective
  <2> QED BY <2>1, <1>4 DEF OneTree
<1>7. Levels(u)
  <2>1. Is(t[0], <<>>, FALSE)
        /\ \A g \in L : \A j \in ToSet(t[g].child) :
             Len(t[j].path) = Len(t[g].path) + 1 /\ Len(t[j].path) <= MaxDepth
    BY DEF Tree, Shape, Levels
  <2>2. Is(u[0], <<>>, FALSE)
    BY <2>1, <1>1, <1>2 DEF Is
  <2>3. ASSUME NEW g \in M, NEW j \in ToSet(u[g].child)
        PROVE  Len(u[j].path) = Len(u[g].path) + 1 /\ Len(u[j].path) <= MaxDepth
    <3>1. j \in M /\ j \in ToSet(t[g].child) /\ g \in L
      BY <2>3, <1>1, <1>2, <1>5
    <3>2. u[j].path = t[j].path /\ u[g].path = t[g].path
      BY <3>1, <1>2
    <3> QED BY <3>1, <3>2, <2>1
  <2> QED BY <2>2, <2>3 DEF Levels
<1>8. Twinless(u)
  <2> SUFFICES ASSUME NEW g \in M, NEW a \in ToSet(u[g].child), NEW b \in ToSet(u[g].child),
                      Is(u[a], u[b].path, u[b].leaf)
               PROVE  a = b
    BY DEF Twinless
  <2>1. a \in M /\ b \in M /\ a \in ToSet(t[g].child) /\ b \in ToSet(t[g].child) /\ g \in L
    BY <1>1, <1>2, <1>5
  <2>2. Is(t[a], t[b].path, t[b].leaf)
    BY <2>1, <1>2 DEF Is
  <2> QED BY <2>1, <2>2 DEF Tree, Shape, Twinless
<1>9. Routed(u)
  <2> SUFFICES ASSUME NEW g \in M, NEW x \in ToSet(u[g].child), NEW y \in ToSet(u[x].child)
               PROVE  x = FirstOf(u[g].child, {k \in DOMAIN u : Begins(u[k], Before(u[y].path))})
    BY DEF Routed
  <2>1. x \in M /\ y \in M /\ x \in ToSet(t[g].child) /\ y \in ToSet(t[x].child) /\ g \in L /\ x \in L
        /\ x # i
    <3>1. x \in M /\ g \in L /\ x \in ToSet(t[g].child)
      BY <1>1, <1>2, <1>5
    <3> QED BY <3>1, <1>1, <1>2, <1>5
  <2>2. PICK p, s, S, T :
          /\ p = Before(t[y].path) /\ s = t[g].child
          /\ S = {k \in DOMAIN t : Begins(t[k], p)} /\ T = {k \in DOMAIN u : Begins(u[k], p)}
    OBVIOUS
  <2>3. Before(u[y].path) = p
    BY <2>1, <2>2, <1>2
  <2>4. FirstOf(s, S) = x
    BY <2>1, <2>2 DEF Tree, Shape, Routed
  <2>5. \A c \in DOMAIN t : c \in T <=> c \in S
    BY <2>2, <1>3 DEF UnlinkedFrom, Begins
  <2>6. s \in Seq(Nat) /\ ToSet(s) \subseteq DOMAIN t /\ IsInjective(s) /\ x # Nowhere
    <3>1. s \in Seq(Nat) /\ ToSet(s) \subseteq L
      BY <2>1, <2>2, LevelIs
    <3>2. IsInjective(s)
      BY <2>1, <2>2, TreePlace
    <3>3. x \in Nat
      BY <3>1, <2>1, <2>2, Members
    <3> QED BY <3>1, <3>2, <3>3, TreeLinked DEF Nowhere
  <2>7. FirstOf(Without(s, i), T) = x
    <3>1. x # i
      BY <2>1
    <3>2. \A c \in ToSet(s) \ {i} : c \in T <=> c \in S
      BY <2>5, <2>6
    <3> QED BY ONLY <3>1, <3>2, <2>4, <2>6, FirstStays
  <2>8. u[g].child = Without(s, i)
    BY <2>2, <1>2
  <2> QED BY <2>2, <2>3, <2>7, <2>8
<1>10. LeavesNamed(u)
  BY <1>1, <1>2 DEF Tree, Shape, LeavesNamed, Leaves
<1> QED BY <1>3, <1>6, <1>7, <1>8, <1>9, <1>10 DEF Tree, Shape

(* Entries of nodes that are not linked may go or stay.                     *)
LEMMA TrimmedTree ==
  ASSUME NEW t, Tree(t), NEW r, DOMAIN r \subseteq DOMAIN t, r = [j \in DOMAIN r |-> t[j]],
         Linked(t) \subseteq DOMAIN r
  PROVE  Tree(r) /\ Linked(r) = Linked(t)
<1> DEFINE L == Linked(t)
<1>1. ClosedAt(t, 0, L) /\ L \subseteq DOMAIN t /\ 0 \in L
      /\ \A j \in L : ToSet(t[j].child) \subseteq L \ {0}
  BY TreeLinked
<1>2. \A j \in DOMAIN r : r[j] = t[j]
  OBVIOUS
<1>3. ClosedAt(r, 0, L)
  BY <1>1, <1>2 DEF ClosedAt, Closed
<1>4. Linked(r) \subseteq L /\ ClosedAt(r, 0, Linked(r))
  BY <1>3, UnderIs DEF Linked
<1>5. ClosedAt(t, 0, Linked(r))
  BY <1>1, <1>2, <1>4 DEF ClosedAt, Closed
<1>6. L \subseteq Linked(r)
  BY <1>5, UnderIs DEF Linked
<1>7. Linked(r) = L
  BY <1>4, <1>6
<1>8. r \in [DOMAIN r -> NodeType] /\ 0 \in DOMAIN r
  BY <1>1, <1>2 DEF Tree
<1>9. \A j \in L : r[j] = t[j] /\ ToSet(t[j].child) \subseteq L \ {0} /\ j \in DOMAIN r
  BY <1>1, <1>2
<1>10. OneTree(r)
  <2>1. \A a, b \in L : \A k \in 1 .. Len(t[a].child), m \in 1 .. Len(t[b].child) :
          t[a].child[k] = t[b].child[m] => a = b /\ k = m
    BY DEF Tree, Shape, OneTree
  <2> QED BY <2>1, <1>7, <1>9 DEF OneTree
<1>11. Levels(r)
  BY <1>1, <1>7, <1>9 DEF Tree, Shape, Levels
<1>12. Twinless(r)
  BY <1>7, <1>9 DEF Tree, Shape, Twinless
<1>13. LeavesNamed(r)
  BY <1>7, <1>9 DEF Tree, Shape, LeavesNamed, Leaves
<1>14. Routed(r)
  <2> SUFFICES ASSUME NEW g \in L, NEW x \in ToSet(t[g].child), NEW y \in ToSet(t[x].child)
               PROVE  x = FirstOf(t[g].child, {k \in DOMAIN r : Begins(r[k], Before(t[y].path))})
    BY <1>7, <1>9 DEF Routed
  <2>1. x \in L /\ y \in L
    BY <1>9
  <2>2. PICK p, s, S, T :
          /\ p = Before(t[y].path) /\ s = t[g].child
          /\ S = {k \in DOMAIN t : Begins(t[k], p)} /\ T = {k \in DOMAIN r : Begins(r[k], p)}
    OBVIOUS
  <2>3. FirstOf(s, S) = x
    BY <2>2 DEF Tree, Shape, Routed
  <2>4. s \in Seq(Nat) /\ ToSet(s) \subseteq L /\ x \in Nat
    <3>1. s \in Seq(Nat) /\ ToSet(s) \subseteq L
      BY <2>2, <1>9, LevelIs
    <3> QED BY <3>1, <2>2, Members
  <2>5. \A c \in L : c \in T <=> c \in S
    BY <2>2, <1>1, <1>9
  <2>6. \A m \in 1 .. Len(s) : (s[m] \in T <=> s[m] \in S)
    BY <2>4, <2>5, Members
  <2>7. FirstOf(s, T) = x
    <3>1. x # Nowhere /\ Len(s) <= Len(s)
      BY <2>4 DEF Nowhere
    <3> QED BY ONLY <3>1, <2>3, <2>4, <2>6, FirstKept
  <2> QED BY <2>2, <2>7
<1> QED BY <1>7, <1>8, <1>10, <1>11, <1>12, <1>13, <1>14 DEF Tree, Shape
-----------------------------------------------------------------------------
(* Free keeps the types of the manager's state.                             *)
LEMMA FreeState ==
  ASSUME NEW c \in States, NEW i \in Nat
  PROVE  Free(c, i) \in States
<1>0. PICK d : d = Free(c, i)
  OBVIOUS
<1>1. CASE c.number <= 1 \/ ~Pushable(c.idstack)
  BY <1>1 DEF Free
<1>2. CASE ~(c.number <= 1 \/ ~Pushable(c.idstack))
  <2>1. PICK h, s, m : /\ h = [j \in DOMAIN c.nodes \ {i} |-> c.nodes[j]]
                       /\ s = Append(c.idstack, i) /\ m = c.number - 1
    OBVIOUS
  <2>2. Free(c, i) = [c EXCEPT !.nodes = h, !.idstack = s, !.number = m]
    BY <1>2, <2>1 DEF Free
  <2>3. c.number \in Nat /\ c.idstack \in Seq(Nat)
        /\ c.nodes \in [DOMAIN c.nodes -> NodeType] /\ DOMAIN c.nodes \in SUBSET Nat
    BY DEF States
  <2>4. h \in [DOMAIN h -> NodeType] /\ DOMAIN h \in SUBSET Nat
    BY <2>1, <2>3
  <2>5. h \in UNION {[D -> NodeType] : D \in SUBSET Nat}
    BY <2>4
  <2>6. s \in Seq(Nat) /\ m \in Nat
    BY <2>1, <2>3, <1>2
  <2> QED BY <2>2, <2>5, <2>6 DEF States
<1> QED BY <1>1, <1>2

(* What recursive_remove has left after k nodes: of the table u the entries *)
(* of the nodes it freed are gone, those it could not free stayed.          *)
Freed(c, u, order, k) ==
  /\ c \in States /\ c.at = 0
  /\ DOMAIN c.nodes \subseteq DOMAIN u
  /\ c.nodes = [j \in DOMAIN c.nodes |-> u[j]]
  /\ DOMAIN u \ {order[m] : m \in 1 .. k} \subseteq DOMAIN c.nodes
  /\ IdsRight(DOMAIN c.nodes \ {0}, c.idstack, c.number)

(* One node more of recursive_remove: it is freed, or kept with its id.     *)
LEMMA FreedNext ==
  ASSUME NEW u, NEW order \in Seq(DOMAIN u \ {0}), DOMAIN u \subseteq Nat, IsInjective(order),
         NEW k \in 1 .. Len(order), NEW c, Freed(c, u, order, k - 1)
  PROVE  Freed(Free(c, order[k]), u, order, k)
<1> DEFINE D == DOMAIN c.nodes
<1>0. PICK i, d : i = order[k] /\ d = Free(c, i)
  OBVIOUS
<1>1. i \in DOMAIN u \ {0} /\ i \in Nat /\ DOMAIN order = 1 .. Len(order)
  BY <1>0
<1>2. d \in States
  BY <1>0, <1>1, FreeState DEF Freed
<1>3. i \in D
  <2>1. \A m \in 1 .. k - 1 : order[m] # i
    <3> SUFFICES ASSUME NEW m \in 1 .. k - 1, order[m] = i PROVE FALSE
      OBVIOUS
    <3>1. m \in 1 .. Len(order) /\ m # k
      OBVIOUS
    <3> QED BY <3>1, <1>0, <1>1 DEF IsInjective
  <2> QED BY <2>1, <1>1 DEF Freed
<1>4. CASE c.number <= 1 \/ ~Pushable(c.idstack)
  <2>1. d = c
    BY <1>0, <1>4 DEF Free
  <2>2. \A m \in 1 .. k - 1 : m \in 1 .. k
    OBVIOUS
  <2>3. DOMAIN u \ {order[m] : m \in 1 .. k} \subseteq D
    BY <2>2 DEF Freed
  <2> QED BY <2>1, <2>3, <1>0 DEF Freed
<1>5. CASE ~(c.number <= 1 \/ ~Pushable(c.idstack))
  <2>1. PICK h, s, n : /\ h = [j \in D \ {i} |-> c.nodes[j]]
                       /\ s = Append(c.idstack, i) /\ n = c.number - 1
    OBVIOUS
  <2>2. d = [c EXCEPT !.nodes = h, !.idstack = s, !.number = n]
    BY <1>0, <1>5, <2>1 DEF Free
  <2>3. d.nodes = h /\ d.idstack = s /\ d.number = n /\ d.at = 0
    BY <2>2 DEF Freed, States
  <2>4. DOMAIN h = D \ {i} /\ \A j \in D \ {i} : h[j] = u[j]
    <3>1. \A j \in D : c.nodes[j] = u[j]
      BY DEF Freed
    <3> QED BY <3>1, <2>1
  <2>5. h = [j \in DOMAIN h |-> u[j]]
    BY <2>1, <2>4
  <2>6. DOMAIN u \ {order[m] : m \in 1 .. k} \subseteq D \ {i}
    <3>1. \A m \in 1 .. k - 1 : m \in 1 .. k
      OBVIOUS
    <3>2. k \in 1 .. k
      OBVIOUS
    <3> QED BY <3>1, <3>2, <1>0 DEF Freed
  <2>7. IdsRight((D \ {0}) \ {i}, s, n)
    <3>1. IdsRight(D \ {0}, c.idstack, c.number) /\ i \in D \ {0}
          /\ c.number > 1 /\ Pushable(c.idstack)
      BY <1>1, <1>3, <1>5 DEF Freed, States
    <3> QED BY <3>1, <2>1, GivenBackRight
  <2>8. (D \ {0}) \ {i} = DOMAIN h \ {0}
    BY <2>4
  <2> QED BY <1>0, <1>2, <2>3, <2>4, <2>5, <2>6, <2>7, <2>8 DEF Freed
<1> QED BY <1>4, <1>5

Unlinking(i) == [Current EXCEPT !.nodes = Unlinked(i)]

FreesWay(f, i, order) ==
  f = [k \in 0 .. Len(order) |->
         IF k = 0 THEN [Current EXCEPT !.nodes = Unlinked(i)] ELSE Free(f[k - 1], order[k])]

(* The state in which recursive_remove begins.                              *)
LEMMA UnlinkingState ==
  ASSUME Sound(Current), NEW i
  PROVE  /\ Unlinking(i) \in States /\ Unlinking(i).nodes = Unlinked(i) /\ Unlinking(i).at = 0
         /\ Unlinking(i).idstack = idstack /\ Unlinking(i).number = number
<1>1. Current \in States /\ Current.nodes = nodes /\ Current.at = 0 /\ Tree(nodes)
      /\ Current.idstack = idstack /\ Current.number = number
  BY DEF Sound, Current
<1>2. PICK u : u = Unlinked(i)
  OBVIOUS
<1>3. DOMAIN u = DOMAIN nodes /\ u \in [DOMAIN u -> NodeType]
  BY <1>1, <1>2, UnlinkedIs DEF UnlinkedFrom
<1>4. DOMAIN nodes \in SUBSET Nat
  BY <1>1 DEF States
<1>5. u \in UNION {[D -> NodeType] : D \in SUBSET Nat}
  BY <1>3, <1>4
<1>6. Unlinking(i) = [Current EXCEPT !.nodes = u]
  BY <1>2 DEF Unlinking
<1>7. Unlinking(i) \in States /\ Unlinking(i).nodes = u /\ Unlinking(i).at = 0
      /\ Unlinking(i).idstack = idstack /\ Unlinking(i).number = number
  BY <1>1, <1>5, <1>6 DEF States
<1> QED BY <1>2, <1>7

(* The recursion inside Removed has the values its equation gives.          *)
LEMMA FreesWayIs ==
  ASSUME Sound(Current), NEW i, NEW order \in Seq(Nat)
  PROVE  \E f : FreesWay(f, i, order)
<1> DEFINE n == Len(order)
           step == [x \in States \X (1 .. n) |-> Free(x[1], order[x[2]])]
<1>1. n \in Nat /\ Unlinking(i) \in States
  BY UnlinkingState
<1>2. step \in [States \X (1 .. n) -> States]
  <2>1. ASSUME NEW x \in States \X (1 .. n) PROVE Free(x[1], order[x[2]]) \in States
    <3>1. PICK c, j : c = x[1] /\ j = order[x[2]]
      OBVIOUS
    <3>2. c \in States /\ j \in Nat
      BY <3>1
    <3> QED BY <3>1, <3>2, FreeState
  <2> QED BY <2>1
<1>3. PICK g : Goes(g, n, States, Unlinking(i), step)
  <2> HIDE DEF step, n
  <2> QED BY <1>1, <1>2, Recursion
<1>4. g \in [0 .. n -> States] /\ g[0] = Unlinking(i)
      /\ \A k \in 1 .. n : g[k] = step[<<g[k - 1], k>>]
  BY <1>3 DEF Goes
<1>5. ASSUME NEW k \in 1 .. n PROVE g[k] = Free(g[k - 1], order[k])
  <2>1. k - 1 \in 0 .. n
    BY <1>1
  <2>2. g[k - 1] \in States
    BY <2>1, <1>4
  <2>3. step[<<g[k - 1], k>>] = Free(g[k - 1], order[k])
    BY <2>2
  <2> QED BY <2>3, <1>4
<1>6. FreesWay(g, i, order)
  <2>1. g = [k \in 0 .. n |-> g[k]]
    BY <1>4
  <2>2. \A k \in 0 .. n : g[k] = IF k = 0 THEN [Current EXCEPT !.nodes = Unlinked(i)]
                                 ELSE Free(g[k - 1], order[k])
    <3> SUFFICES ASSUME NEW k \in 0 .. n, k # 0 PROVE g[k] = Free(g[k - 1], order[k])
      BY <1>4 DEF Unlinking
    <3>1. k \in 1 .. n
      BY <1>1
    <3> QED BY <3>1, <1>5
  <2> QED BY <2>1, <2>2 DEF FreesWay
<1> QED BY <1>6

(* What remove_param leaves.                                                *)
RemovedFrom(c, i) ==
  /\ Sound(c)
  /\ Linked(c.nodes) = Linked(nodes) \ Under(nodes, i)
  /\ \A j \in Linked(c.nodes) : c.nodes[j].path = nodes[j].path /\ c.nodes[j].leaf = nodes[j].leaf

(* remove_param keeps the manager sound, and takes out of the tree the node *)
(* and what is below it.                                                    *)
LEMMA RemovedSound ==
  ASSUME Sound(Current), NEW i \in Linked(nodes), i # 0
  PROVE  RemovedFrom(Removed(i), i)
<1>0. Tree(nodes) /\ IdsRight(DOMAIN nodes \ {0}, idstack, number) /\ DOMAIN nodes \subseteq Nat
  BY DEF Sound, Current, States
<1>1. PICK order, u : order = FreeOrder(i) /\ u = Unlinked(i)
  OBVIOUS
<1>2. UnlinkedFrom(u, nodes, i)
  BY <1>0, <1>1, UnlinkedIs
<1>3. Linked(u) = Linked(nodes) \ Under(nodes, i) /\ 0 \in Linked(u) /\ Tree(u)
  BY <1>0, <1>2, UnlinkedLinked, UnlinkedTree
<1>4. DOMAIN u = DOMAIN nodes /\ Linked(nodes) \subseteq DOMAIN nodes
  BY <1>0, <1>2, TreeLinked DEF UnlinkedFrom
<1>5. order \in Seq(Linked(nodes)) /\ ToSet(order) = Under(nodes, i) /\ IsInjective(order)
  BY <1>0, <1>1, FreeOrderIs
<1>6. order \in Seq(DOMAIN u \ {0}) /\ order \in Seq(Nat)
  <2>1. ToSet(order) \subseteq DOMAIN u \ {0} /\ ToSet(order) \subseteq Nat
    <3>1. Under(nodes, i) \subseteq Linked(nodes)
      BY <1>0, UnderLevels
    <3> QED BY <3>1, <1>0, <1>3, <1>4, <1>5
  <2> QED BY <2>1, <1>5, SeqInto
<1> DEFINE F == CHOOSE f : FreesWay(f, i, order)
<1>7. FreesWay(F, i, order)
  BY <1>6, FreesWayIs, Zenon
<1>8. PICK f : f = F
  OBVIOUS
<1>9. PICK n, c : n = Len(order) /\ c = f[n]
  OBVIOUS
<1>10. Removed(i) = c
  BY <1>1, <1>8, <1>9 DEF Removed, FreesWay
<1>11. n \in Nat
  BY <1>6, <1>9
<1>12. f[0] = Unlinking(i) /\ \A k \in 1 .. n : f[k] = Free(f[k - 1], order[k])
  <2>1. \A k \in 0 .. n : f[k] = IF k = 0 THEN [Current EXCEPT !.nodes = Unlinked(i)]
                                 ELSE Free(f[k - 1], order[k])
    BY <1>7, <1>8, <1>9 DEF FreesWay
  <2>2. 0 \in 0 .. n /\ \A k \in 1 .. n : k \in 0 .. n /\ k # 0
    BY <1>11
  <2> QED BY ONLY <2>1, <2>2 DEF Unlinking
<1> DEFINE T == {k \in Nat : k <= n => Freed(f[k], u, order, k)}
<1>13. 0 \in T
  <2>1. PICK d : d = Unlinking(i)
    OBVIOUS
  <2>2. d \in States /\ d.nodes = u /\ d.at = 0 /\ d.idstack = idstack /\ d.number = number
    BY <2>1, <1>1, UnlinkingState
  <2>3. u = [j \in DOMAIN u |-> u[j]]
    BY <1>2 DEF UnlinkedFrom
  <2>4. Freed(d, u, order, 0)
    BY <2>2, <2>3, <1>0, <1>4 DEF Freed
  <2> QED BY <2>1, <2>4, <1>12
<1>14. ASSUME NEW k \in Nat, k \in T PROVE k + 1 \in T
  <2> SUFFICES ASSUME k + 1 <= n PROVE Freed(f[k + 1], u, order, k + 1)
    OBVIOUS
  <2>1. PICK m : m = k + 1
    OBVIOUS
  <2>2. m \in 1 .. n /\ m - 1 = k /\ k <= n
    BY <2>1, <1>11
  <2>3. Freed(f[m - 1], u, order, m - 1) /\ m \in 1 .. Len(order)
    BY <2>2, <1>9, <1>14
  <2>4. DOMAIN u \subseteq Nat
    BY <1>0, <1>4
  <2>5. Freed(Free(f[m - 1], order[m]), u, order, m)
    BY ONLY <2>3, <2>4, <1>5, <1>6, FreedNext
  <2>6. f[m] = Free(f[m - 1], order[m])
    BY <2>2, <1>12
  <2> QED BY <2>1, <2>5, <2>6
<1>15. Freed(c, u, order, n)
  <2>1. Nat \subseteq T
    <3> HIDE DEF T
    <3> QED BY <1>13, <1>14, Induction
  <2>2. n \in T /\ n <= n
    BY <2>1, <1>11
  <2> QED BY <2>2, <1>9
<1>16. Linked(u) \subseteq DOMAIN c.nodes
  <2>1. \A m \in 1 .. n : order[m] \in Under(nodes, i)
    BY <1>5, <1>9 DEF ToSet
  <2>2. Linked(u) \subseteq DOMAIN u
    BY <1>3, TreeLinked
  <2> QED BY <2>1, <2>2, <1>3, <1>15 DEF Freed
<1>17. PICK r : r = c.nodes
  OBVIOUS
<1>18. DOMAIN r \subseteq DOMAIN u /\ r = [j \in DOMAIN r |-> u[j]] /\ Linked(u) \subseteq DOMAIN r
  BY <1>15, <1>16, <1>17 DEF Freed
<1>19. Tree(r) /\ Linked(r) = Linked(u)
  BY <1>3, <1>18, TrimmedTree
<1>20. Sound(c)
  BY <1>3, <1>15, <1>17, <1>19 DEF Sound, Freed
<1>21. \A j \in Linked(r) : r[j].path = nodes[j].path /\ r[j].leaf = nodes[j].leaf
  <2> SUFFICES ASSUME NEW j \in Linked(r)
               PROVE  r[j].path = nodes[j].path /\ r[j].leaf = nodes[j].leaf
    OBVIOUS
  <2>1. j \in DOMAIN r /\ j \in DOMAIN nodes
    BY <1>3, <1>4, <1>18, <1>19
  <2>2. r[j] = u[j]
    BY <2>1, <1>18
  <2> QED BY <2>1, <2>2, <1>2 DEF UnlinkedFrom
<1> QED BY <1>3, <1>10, <1>17, <1>19, <1>20, <1>21 DEF RemovedFrom
-----------------------------------------------------------------------------
(* Names and places.                                                        *)

(* The root is the only node with the empty name.                           *)
LEMMA RootAlone ==
  ASSUME NEW t, Tree(t), NEW i \in Linked(t)
  PROVE  /\ i # 0 => Len(t[i].path) >= 1
         /\ t[0].path = <<>> /\ Len(t[0].path) = 0 /\ t[0].leaf = FALSE
<1>1. t[0].path = <<>> /\ t[0].leaf = FALSE
  BY DEF Tree, Shape, Levels, Is
<1>2. ASSUME i # 0 PROVE Len(t[i].path) >= 1
  <2>1. PICK j \in Linked(t) : i \in ToSet(t[j].child)
    BY <1>2, TreeParent
  <2>2. Len(t[i].path) = Len(t[j].path) + 1 /\ Len(t[j].path) \in Nat
    BY <2>1, LevelIs
  <2> QED BY <2>2
<1> QED BY <1>1, <1>2

(* What begins with a text and is no longer has the same components before  *)
(* the last.                                                                *)
LEMMA BeginsBefore ==
  ASSUME NEW n, NEW p, n.path \in Seq(Comp), p \in Seq(Comp), Len(n.path) = Len(p),
         Len(p) >= 1, Begins(n, p)
  PROVE  Before(n.path) = Before(p)
<1>1. PICK q, a, b : q = n.path /\ a = SubSeq(n.path, 1, Len(n.path) - 1) /\ b = SubSeq(p, 1, Len(p) - 1)
  OBVIOUS
<1>2. q \in Seq(Comp) /\ Len(q) = Len(p) /\ Len(p) \in Nat /\ \A k \in 1 .. Len(p) - 1 : q[k] = p[k]
  BY <1>1 DEF Begins
<1>3. PICK m : m = Len(p) - 1
  OBVIOUS
<1>4. /\ a \in Seq(Comp) /\ b \in Seq(Comp) /\ Len(a) = m /\ Len(b) = m
      /\ \A k \in 1 .. m : a[k] = q[k] /\ b[k] = p[k]
  <2>1. m \in Nat /\ m <= Len(p) /\ m <= Len(q)
    BY <1>2, <1>3
  <2>2. a = SubSeq(q, 1, m) /\ b = SubSeq(p, 1, m)
    BY <1>1, <1>2, <1>3
  <2> QED BY <2>1, <2>2, <1>2
<1>5. \A k \in 1 .. Len(a) : a[k] = b[k]
  BY <1>2, <1>3, <1>4
<1>6. a = b
  BY <1>4, <1>5, SeqEqual
<1> QED BY <1>1, <1>6 DEF Before

(* A name without its last component.                                       *)
LEMMA BeforeIs ==
  ASSUME NEW p \in Seq(Comp), Len(p) >= 1
  PROVE  Before(p) \in Seq(Comp) /\ Len(Before(p)) = Len(p) - 1
         /\ \A k \in 1 .. Len(p) - 1 : Before(p)[k] = p[k]
<1>1. PICK m, b : m = Len(p) - 1 /\ b = SubSeq(p, 1, m)
  OBVIOUS
<1>2. m \in Nat /\ m <= Len(p) /\ Len(p) \in Nat /\ b = SubSeq(p, 1, m)
  BY <1>1
<1>3. b \in Seq(Comp) /\ Len(b) = m
  BY <1>2
<1>4. \A k \in 1 .. m : b[k] = p[k]
  BY ONLY <1>2, p \in Seq(Comp)
<1> QED BY <1>1, <1>3, <1>4 DEF Before

(* Nodes whose names are the same but for the last component hang below     *)
(* the same node, the right one or not.                                     *)
SameParents(t, m) ==
  \A g, h \in Linked(t) : \A i \in ToSet(t[g].child), j \in ToSet(t[h].child) :
    (/\ Len(t[i].path) = m /\ Len(t[j].path) = m
     /\ Before(t[i].path) = Before(t[j].path)) => g = h

(* Nodes on one level whose names agree up to the last component have one   *)
(* parent: by induction on the level, as both hang below the first node     *)
(* that begins with the name.                                               *)
LEMMA SameParent ==
  ASSUME NEW t, Tree(t)
  PROVE  \A m \in Nat : SameParents(t, m)
<1> DEFINE L == Linked(t)
           T == {m \in Nat : SameParents(t, m)}
<1>1. \A g \in L : \A i \in ToSet(t[g].child) :
        /\ i \in L /\ Len(t[i].path) = Len(t[g].path) + 1 /\ Len(t[g].path) \in Nat
        /\ t[i].path \in Seq(Comp) /\ t[g].path \in Seq(Comp)
  <2> SUFFICES ASSUME NEW g \in L, NEW i \in ToSet(t[g].child)
               PROVE  /\ i \in L /\ Len(t[i].path) = Len(t[g].path) + 1 /\ Len(t[g].path) \in Nat
                      /\ t[i].path \in Seq(Comp) /\ t[g].path \in Seq(Comp)
    OBVIOUS
  <2>1. i \in L /\ Len(t[i].path) = Len(t[g].path) + 1
    BY LevelIs
  <2> QED BY <2>1, LevelIs
<1>2. 0 \in T
  BY <1>1 DEF SameParents
<1>3. ASSUME NEW m \in Nat, SameParents(t, m) PROVE SameParents(t, m + 1)
  <2> SUFFICES ASSUME NEW g \in L, NEW h \in L, NEW i \in ToSet(t[g].child), NEW j \in ToSet(t[h].child),
                      Len(t[i].path) = m + 1, Len(t[j].path) = m + 1,
                      Before(t[i].path) = Before(t[j].path)
               PROVE  g = h
    BY DEF SameParents
  <2>1. Len(t[g].path) = m /\ Len(t[h].path) = m
    BY <1>1
  <2>2. CASE m = 0
    <3>1. g = 0 \/ Len(t[g].path) >= 1
      BY RootAlone
    <3>2. h = 0 \/ Len(t[h].path) >= 1
      BY RootAlone
    <3> QED BY <3>1, <3>2, <2>1, <2>2
  <2>3. CASE m # 0
    <3>1. g # 0 /\ h # 0
      BY <2>1, <2>3, RootAlone
    <3>2. PICK a \in L, b \in L : g \in ToSet(t[a].child) /\ h \in ToSet(t[b].child)
      BY <3>1, TreeParent
    <3>3. PICK p, S : p = Before(t[i].path) /\ S = {k \in DOMAIN t : Begins(t[k], p)}
      OBVIOUS
    <3>4. g = FirstOf(t[a].child, S) /\ h = FirstOf(t[b].child, S)
      BY <3>2, <3>3 DEF Tree, Shape, Routed
    <3>5. p \in Seq(Comp) /\ Len(p) = m
      BY <3>3, <1>1, BeforeIs
    <3>6. \A x \in L, y \in L : y \in ToSet(t[x].child) /\ y = FirstOf(t[x].child, S) => y \in S
      <4> SUFFICES ASSUME NEW x \in L, NEW y \in ToSet(t[x].child), y = FirstOf(t[x].child, S)
                   PROVE  y \in S
        OBVIOUS
      <4>1. PICK s : s = t[x].child
        OBVIOUS
      <4>2. s \in Seq(Nat) /\ y = FirstOf(s, S) /\ y \in ToSet(s)
        BY <4>1, LevelIs
      <4>3. y \in Nat
        BY <4>2, Members
      <4>4. FirstOf(s, S) # Nowhere
        BY <4>2, <4>3 DEF Nowhere
      <4>5. PICK k : IsFirst(s, S, k) /\ FirstOf(s, S) = s[k]
        BY ONLY <4>2, <4>4, FirstFound
      <4> QED BY <4>2, <4>5 DEF IsFirst
    <3>7. Begins(t[g], p) /\ Begins(t[h], p)
      BY <3>2, <3>3, <3>4, <3>6
    <3>8. Before(t[g].path) = Before(p) /\ Before(t[h].path) = Before(p)
      <4>1. Len(p) >= 1 /\ Len(t[g].path) = Len(p) /\ Len(t[h].path) = Len(p)
        BY <3>5, <2>1, <2>3
      <4>2. t[g].path \in Seq(Comp) /\ t[h].path \in Seq(Comp)
        BY <1>1
      <4> QED BY <4>1, <4>2, <3>5, <3>7, BeginsBefore
    <3>9. a = b
      BY <3>2, <3>8, <2>1, <1>3 DEF SameParents
    <3> QED BY <3>4, <3>9
  <2> QED BY <2>2, <2>3
<1>4. Nat \subseteq T
  <2> HIDE DEF T
  <2>1. \A m \in Nat : m \in T => m + 1 \in T
    BY <1>3 DEF T
  <2> QED BY <1>2, <2>1, Induction
<1> QED BY <1>4

(* A name belongs to one object and one parameter of the tree at most.      *)
LEMMA NodeOnce ==
  ASSUME NEW t, Tree(t), NEW i \in Linked(t), NEW j \in Linked(t),
         t[i].path = t[j].path, t[i].leaf = t[j].leaf
  PROVE  i = j
<1>1. CASE i = 0 \/ j = 0
  <2>1. Len(t[0].path) = 0 /\ (i = 0 \/ Len(t[i].path) >= 1) /\ (j = 0 \/ Len(t[j].path) >= 1)
    BY RootAlone
  <2>2. Len(t[i].path) = Len(t[j].path)
    OBVIOUS
  <2> QED BY ONLY <1>1, <2>1, <2>2
<1>2. CASE i # 0 /\ j # 0
  <2>1. PICK g \in Linked(t), h \in Linked(t) : i \in ToSet(t[g].child) /\ j \in ToSet(t[h].child)
    BY <1>2, TreeParent
  <2>2. Len(t[i].path) \in Nat
    BY LevelIs
  <2>3. g = h
    BY <2>1, <2>2, SameParent DEF SameParents
  <2> QED BY <2>1, <2>3 DEF Tree, Shape, Twinless, Is
<1> QED BY <1>1, <1>2

(* A tree of this shape has no two parameters of one name.                  *)
LEMMA NamesOnceIs ==
  ASSUME NEW t, Tree(t)
  PROVE  NamesOnce(t)
BY NodeOnce, TreeLinked DEF NamesOnce, Leaves, Tree
-----------------------------------------------------------------------------
(* Lookups.                                                                 *)

Level(i) == IF i = Nowhere THEN <<>> ELSE nodes[i].child
Places == Linked(nodes) \cup {Nowhere}

(* A lookup's way down.                                                     *)
Finds(w, wanted) ==
  /\ w \in [0 .. Len(wanted) -> Places] /\ w[0] = 0
  /\ \A k \in 1 .. Len(wanted) : w[k] = FirstOf(Level(w[k - 1]), wanted[k])
  /\ Lookup(wanted) = w[Len(wanted)]

(* What a lookup sees on a level, and what it takes from it.                *)
LEMMA LevelList ==
  ASSUME Tree(nodes), NEW i \in Places, NEW S
  PROVE  /\ Level(i) \in Seq(Nat) /\ ToSet(Level(i)) \subseteq Linked(nodes)
         /\ FirstOf(Level(i), S) \in Places
         /\ FirstOf(Level(i), S) # Nowhere
              => i \in Linked(nodes) /\ FirstOf(Level(i), S) \in ToSet(nodes[i].child) \cap S
<1>1. PICK s, x : s = Level(i) /\ x = FirstOf(s, S)
  OBVIOUS
<1>2. s \in Seq(Nat) /\ ToSet(s) \subseteq Linked(nodes)
  <2>1. CASE i = Nowhere
    <3>1. s = <<>> /\ ToSet(<<>>) = {}
      BY <2>1, <1>1 DEF Level, ToSet
    <3> QED BY <3>1
  <2>2. CASE i # Nowhere
    <3>1. s = nodes[i].child /\ i \in Linked(nodes)
      BY <2>2, <1>1 DEF Level, Places
    <3> QED BY <3>1, ChildList
  <2> QED BY <2>1, <2>2
<1>3. CASE x = Nowhere
  BY <1>1, <1>2, <1>3 DEF Places
<1>4. CASE x # Nowhere
  <2>1. PICK k : IsFirst(s, S, k) /\ x = s[k]
    BY <1>1, <1>2, <1>4, FirstFound
  <2>2. k \in 1 .. Len(s) /\ x \in S
    BY <2>1 DEF IsFirst
  <2>3. x \in ToSet(s)
    BY <2>1, <2>2, <1>2, Members
  <2>4. i # Nowhere
    <3> SUFFICES ASSUME i = Nowhere PROVE FALSE
      OBVIOUS
    <3>1. s = <<>> /\ ToSet(<<>>) = {}
      BY <1>1 DEF Level, ToSet
    <3> QED BY <3>1, <2>3
  <2>5. s = nodes[i].child /\ i \in Linked(nodes)
    BY <2>4, <1>1 DEF Level, Places
  <2> QED BY <1>1, <1>2, <2>2, <2>3, <2>5 DEF Places
<1> QED BY <1>3, <1>4

LookupWay(w, wanted) ==
  w = [k \in 0 .. Len(wanted) |-> IF k = 0 THEN 0 ELSE FirstOf(Level(w[k - 1]), wanted[k])]

(* The recursion inside Lookup has the values its equation gives.           *)
LEMMA LookupIs ==
  ASSUME Tree(nodes), NEW wanted, Len(wanted) \in Nat
  PROVE  \E w : Finds(w, wanted)
<1> DEFINE n == Len(wanted)
           step == [x \in Places \X (1 .. n) |-> FirstOf(Level(x[1]), wanted[x[2]])]
<1>1. n \in Nat /\ 0 \in Places
  BY TreeLinked DEF Places
<1>2. step \in [Places \X (1 .. n) -> Places]
  <2>1. ASSUME NEW x \in Places \X (1 .. n) PROVE FirstOf(Level(x[1]), wanted[x[2]]) \in Places
    <3>1. PICK i, S : i = x[1] /\ S = wanted[x[2]]
      OBVIOUS
    <3>2. i \in Places
      BY <3>1
    <3>3. FirstOf(Level(i), S) \in Places
      BY <3>2, LevelList
    <3> QED BY <3>1, <3>3
  <2> QED BY <2>1
<1>3. PICK g : Goes(g, n, Places, 0, step)
  <2> HIDE DEF step, n
  <2> QED BY <1>1, <1>2, Recursion
<1>4. g \in [0 .. n -> Places] /\ g[0] = 0 /\ \A k \in 1 .. n : g[k] = step[<<g[k - 1], k>>]
  BY <1>3 DEF Goes
<1>5. ASSUME NEW k \in 1 .. n PROVE g[k] = FirstOf(Level(g[k - 1]), wanted[k])
  <2>1. k - 1 \in 0 .. n
    BY <1>1
  <2>2. g[k - 1] \in Places
    BY <2>1, <1>4
  <2>3. step[<<g[k - 1], k>>] = FirstOf(Level(g[k - 1]), wanted[k])
    BY <2>2
  <2> QED BY <2>3, <1>4
<1>6. LookupWay(g, wanted)
  <2>1. g = [k \in 0 .. n |-> g[k]]
    BY <1>4
  <2>2. \A k \in 0 .. n : g[k] = IF k = 0 THEN 0 ELSE FirstOf(Level(g[k - 1]), wanted[k])
    <3> SUFFICES ASSUME NEW k \in 0 .. n, k # 0 PROVE g[k] = FirstOf(Level(g[k - 1]), wanted[k])
      BY <1>4
    <3>1. k \in 1 .. n
      BY <1>1
    <3> QED BY <3>1, <1>5
  <2> QED BY <2>1, <2>2 DEF LookupWay
<1> DEFINE W == CHOOSE w : LookupWay(w, wanted)
<1>7. LookupWay(W, wanted)
  BY <1>6, Zenon
<1>8. PICK w : w = W
  OBVIOUS
<1>9. LookupWay(w, wanted) /\ Lookup(wanted) = w[n]
  BY <1>7, <1>8 DEF Lookup, LookupWay, Level
<1>10. \A k \in 0 .. n : w[k] = IF k = 0 THEN 0 ELSE FirstOf(Level(w[k - 1]), wanted[k])
  BY ONLY <1>9, Zenon DEF LookupWay
<1>11. w[0] = 0 /\ \A k \in 1 .. n : w[k] = FirstOf(Level(w[k - 1]), wanted[k])
  <2>1. 0 \in 0 .. n /\ \A k \in 1 .. n : k \in 0 .. n /\ k # 0
    BY <1>1
  <2> QED BY ONLY <1>10, <2>1
<1>12. \A k \in 0 .. n : w[k] \in Places
  <2> DEFINE T == {k \in Nat : k <= n => w[k] \in Places}
  <2>1. 0 \in T
    BY <1>1, <1>11
  <2>2. ASSUME NEW k \in Nat, k \in T PROVE k + 1 \in T
    <3> SUFFICES ASSUME k + 1 <= n PROVE w[k + 1] \in Places
      OBVIOUS
    <3>1. PICK m : m = k + 1
      OBVIOUS
    <3>2. m \in 1 .. n /\ m - 1 = k /\ k <= n
      BY <3>1, <1>1
    <3>3. w[m - 1] \in Places
      BY <3>2, <2>2
    <3>4. FirstOf(Level(w[m - 1]), wanted[m]) \in Places
      BY <3>3, LevelList
    <3> QED BY <3>1, <3>2, <3>4, <1>11
  <2>3. Nat \subseteq T
    <3> HIDE DEF T
    <3> QED BY <2>1, <2>2, Induction
  <2> QED BY <2>3, <1>1
<1>13. w \in [0 .. n -> Places]
  <2>1. w = [k \in 0 .. n |-> w[k]]
    BY <1>9, <1>10 DEF LookupWay
  <2> QED BY <2>1, <1>12
<1>14. Finds(w, wanted)
  BY <1>9, <1>11, <1>13 DEF Finds
<1> QED BY <1>14

(* What find_node wants on each level.                                      *)
Dots(p, leaf) == IF leaf THEN Len(p) - 1 ELSE Len(p)
Wanted(p, leaf) ==
  [k \in 1 .. Len(p) |->
     {i \in DOMAIN nodes : IF k <= Dots(p, leaf) THEN BeginsDot(nodes[i], SubSeq(p, 1, k))
                           ELSE Begins(nodes[i], p)}]

(* find_node is a lookup and a last comparison.                             *)
LEMMA FindNodeIs ==
  ASSUME Tree(nodes), NEW p \in Seq(Comp), NEW leaf
  PROVE  /\ Len(Wanted(p, leaf)) = Len(p)
         /\ \E w : /\ Finds(w, Wanted(p, leaf))
                   /\ FindNode(p, leaf) = IF w[Len(p)] # Nowhere /\ Is(nodes[w[Len(p)]], p, leaf)
                                          THEN w[Len(p)] ELSE Nowhere
<1>1. PICK q : q = Wanted(p, leaf)
  OBVIOUS
<1>2. Len(p) \in Nat
  OBVIOUS
<1>3. Len(q) = Len(p)
  BY <1>1, <1>2 DEF Wanted
<1>4. PICK w : Finds(w, q)
  BY <1>2, <1>3, LookupIs
<1>5. Lookup(q) = w[Len(p)]
  BY <1>3, <1>4 DEF Finds
<1>6. FindNode(p, leaf) = IF Lookup(q) # Nowhere /\ Is(nodes[Lookup(q)], p, leaf)
                          THEN Lookup(q) ELSE Nowhere
  BY <1>1 DEF FindNode, Wanted, Dots
<1> QED BY <1>1, <1>3, <1>4, <1>5, <1>6

(* find_node's result is a linked node of the name.                         *)
LEMMA Found ==
  ASSUME Tree(nodes), NEW p \in Seq(Comp), NEW leaf, FindNode(p, leaf) # Nowhere
  PROVE  FindNode(p, leaf) \in Linked(nodes) /\ Is(nodes[FindNode(p, leaf)], p, leaf)
<1>1. PICK w : /\ Finds(w, Wanted(p, leaf)) /\ Len(Wanted(p, leaf)) = Len(p)
               /\ FindNode(p, leaf) = IF w[Len(p)] # Nowhere /\ Is(nodes[w[Len(p)]], p, leaf)
                                      THEN w[Len(p)] ELSE Nowhere
  BY FindNodeIs
<1>2. Len(p) \in 0 .. Len(p)
  OBVIOUS
<1>3. w[Len(p)] \in Places
  BY <1>1, <1>2 DEF Finds
<1> QED BY <1>1, <1>3 DEF Places
-----------------------------------------------------------------------------
(* The manager.                                                             *)

(* The inductive invariant: of TreeInv only NamesOnce is left out, which    *)
(* follows from the rest.                                                   *)
TreeOK == TypeOK /\ IdsInv /\ Shape(nodes)

(* The invariant says that the present state is sound.                      *)
LEMMA SoundNow ==
  ASSUME TreeOK
  PROVE  Sound(Current) /\ Tree(nodes)
<1>1. Tree(nodes)
  BY DEF TreeOK, TypeOK, Tree
<1>2. idstack \in Seq(Nat) /\ number \in Nat /\ DOMAIN nodes \in SUBSET Nat
      /\ IdsRight(DOMAIN nodes \ {0}, idstack, number)
  <2>1. IdsRight(DOMAIN nodes \ {0}, idstack, number)
    BY DEF TreeOK, IdsInv
  <2>2. idstack \in Seq(Nat) /\ number \in Nat /\ DOMAIN nodes \ {0} \subseteq Nat
    BY <2>1, IdsAssumption DEF IdsRight, IdsTypeOK, IdsInTable, IdsAssumption
  <2> QED BY <2>1, <2>2
<1>3. nodes \in UNION {[D -> NodeType] : D \in SUBSET Nat}
  BY <1>1, <1>2 DEF Tree
<1>4. Current \in States
  BY <1>2, <1>3 DEF Current, States
<1>5. /\ Current.nodes = nodes /\ Current.idstack = idstack /\ Current.number = number
      /\ Current.at = 0
  BY DEF Current
<1>6. 0 \in Linked(nodes)
  BY <1>1, TreeLinked
<1> QED BY <1>1, <1>2, <1>4, <1>5, <1>6 DEF Sound

(* A sound change is a step to a sound state.                               *)
LEMMA SoundNext ==
  ASSUME NEW c, Sound(c), Becomes(c)
  PROVE  /\ nodes' \in [DOMAIN nodes' -> NodeType] /\ 0 \in DOMAIN nodes'
         /\ IdsInv' /\ Shape(nodes') /\ nodes' = c.nodes
<1>1. nodes' = c.nodes /\ idstack' = c.idstack /\ number' = c.number
  BY DEF Becomes
<1>2. Tree(nodes') /\ IdsRight(DOMAIN nodes' \ {0}, idstack', number')
  BY <1>1 DEF Sound
<1> QED BY <1>1, <1>2 DEF Tree, IdsInv

(* The table with the root alone.                                           *)
LEMMA RootTree ==
  ASSUME NEW t, t = [i \in {0} |-> Root]
  PROVE  Tree(t) /\ DOMAIN t = {0} /\ Linked(t) = {0}
<1>1. DOMAIN t = {0} /\ t[0].path = <<>> /\ t[0].leaf = FALSE /\ t[0].child = <<>>
      /\ ToSet(<<>>) = {} /\ Len(<<>>) = 0
  BY DEF Root, Node, ToSet
<1>2. Root \in NodeType
  BY DEF Root, Node, NodeType
<1>3. t \in [DOMAIN t -> NodeType]
  BY <1>1, <1>2
<1>4. ClosedAt(t, 0, {0})
  BY <1>1 DEF ClosedAt, Closed
<1>5. Linked(t) = {0}
  BY <1>4, UnderIs DEF Linked, ClosedAt
<1>6. OneTree(t)
  BY <1>1, <1>5 DEF OneTree
<1>7. Levels(t) /\ Twinless(t) /\ Routed(t) /\ LeavesNamed(t)
  BY <1>1, <1>5 DEF Levels, Is, Twinless, Routed, LeavesNamed, Leaves
<1> QED BY <1>1, <1>3, <1>5, <1>6, <1>7 DEF Tree, Shape

(* The calls of init_params are calls of add_param.                         *)
LEMMA InitCallsAre ==
  ASSUME NEW s
  PROVE  InitCalls(s) \in Seq(Calls)
<1>1. /\ CommonCalls \in Seq(Calls) /\ CtcCalls \in Seq(Calls)
      /\ CuCalls \in Seq(Calls) /\ LastCalls \in Seq(Calls)
  BY TreeAssumption DEF TreeAssumption
<1>2. PICK C, a, b, c, d : /\ C = Calls /\ a = CommonCalls /\ d = LastCalls
                           /\ b = (IF s = "CTC" THEN CtcCalls ELSE <<>>)
                           /\ c = (IF s = "CU" THEN CuCalls ELSE <<>>)
  OBVIOUS
<1>3. a \in Seq(C) /\ b \in Seq(C) /\ c \in Seq(C) /\ d \in Seq(C)
  BY <1>1, <1>2
<1>4. a \o b \o c \o d \in Seq(C)
  BY ONLY <1>3
<1>5. InitCalls(s) = a \o b \o c \o d
  BY <1>2 DEF InitCalls
<1> QED BY <1>2, <1>4, <1>5

(* The names of the table and of its objects are not empty and have no more *)
(* than MaxDepth components.                                                *)
LEMMA NameIsSeq ==
  /\ MaxDepth \in Nat
  /\ \A p \in Names : (p \in Seq(Comp) /\ Len(p) \in 1 .. MaxDepth)
  /\ \A p \in Objects : (p \in Seq(Comp) /\ Len(p) >= 1)
<1>1. MaxDepth \in Nat /\ \A p \in Names : (p \in Seq(Comp) /\ Len(p) \in 1 .. MaxDepth)
  BY TreeAssumption DEF TreeAssumption, Names
<1>2. ASSUME NEW q \in Objects PROVE q \in Seq(Comp) /\ Len(q) >= 1
  <2>0. PICK p \in Names : \E k \in 1 .. Len(p) - 1 : q = SubSeq(p, 1, k)
    BY DEF Objects
  <2>1. PICK k \in 1 .. Len(p) - 1 : q = SubSeq(p, 1, k)
    BY <2>0
  <2>2. k \in 1 .. Len(p) /\ p \in Seq(Comp)
    BY <1>1
  <2> QED BY <2>1, <2>2, Beginnings
<1> QED BY <1>1, <1>2

(* remove_param takes a linked node, and not the root.                      *)
LEMMA RemovedOf ==
  ASSUME TreeOK, NEW p \in Names \cup Objects, NEW leaf, FindNode(p, leaf) # Nowhere
  PROVE  /\ FindNode(p, leaf) \in Linked(nodes) \ {0}
         /\ Is(nodes[FindNode(p, leaf)], p, leaf)
         /\ RemovedFrom(Removed(FindNode(p, leaf)), FindNode(p, leaf))
<1>1. p \in Seq(Comp) /\ Len(p) >= 1
  BY NameIsSeq
<1>2. PICK i : i = FindNode(p, leaf)
  OBVIOUS
<1>3. i \in Linked(nodes) /\ Is(nodes[i], p, leaf)
  BY <1>1, <1>2, SoundNow, Found
<1>4. i # 0
  <2>1. Len(nodes[0].path) = 0
    BY SoundNow, RootAlone, TreeLinked
  <2> QED BY <2>1, <1>1, <1>3 DEF Is
<1>5. RemovedFrom(Removed(i), i)
  BY <1>3, <1>4, SoundNow, RemovedSound
<1> QED BY <1>2, <1>3, <1>4, <1>5

(* The tree of the start has the invariant.                                 *)
LEMMA TreeInit == Init => TreeOK
<1> SUFFICES ASSUME Init PROVE TreeOK
  OBVIOUS
<1>1. Tree(nodes) /\ DOMAIN nodes = {0}
  BY RootTree DEF Init
<1>2. DOMAIN nodes \ {0} = {}
  BY <1>1
<1>3. IdsInv
  BY <1>2, FreshIds DEF Init, IdsInv
<1>4. calls \in Seq(Calls) /\ stand \in Stand
  BY InitCallsAre DEF Init
<1>5. late \in 0 .. MaxLate
  BY TreeAssumption DEF Init, TreeAssumption
<1> QED BY <1>1, <1>3, <1>4, <1>5 DEF TreeOK, TypeOK, Tree

(* uninit leaves nothing but the root, whatever was leaked before.          *)
LEMMA UninitLeaves ==
  ASSUME TreeOK, Uninit
  PROVE  nodes' = [i \in {0} |-> Root] /\ idstack' = <<1>> /\ number' = 1
<1>1. DOMAIN nodes \ {0} \subseteq 0 .. UninitBound(idstack, number)
  BY UninitTakesAll DEF TreeOK, IdsInv
<1>2. 0 \in 0 .. UninitBound(idstack, number)
  <2>1. Len(idstack) \in 1 .. StackSize /\ number \in 1 .. MaxParam
        /\ StackSize \in Nat /\ MaxParam \in Nat
    BY IdsAssumption DEF TreeOK, IdsInv, IdsRight, IdsTypeOK, IdsAssumption
  <2> QED BY <2>1 DEF UninitBound
<1>3. {0} \cup (DOMAIN nodes \ (0 .. UninitBound(idstack, number))) = {0}
  BY <1>1, <1>2
<1>4. PICK kept : kept = DOMAIN nodes \ (0 .. UninitBound(idstack, number))
  OBVIOUS
<1>5. nodes' = [i \in {0} \cup kept |-> IF i = 0 THEN Root ELSE nodes[i]]
      /\ idstack' = <<1>> /\ number' = 1
  BY <1>4 DEF Uninit, Restart
<1>6. nodes' = [i \in {0} |-> IF i = 0 THEN Root ELSE nodes[i]]
  BY <1>3, <1>4, <1>5
<1> QED BY <1>5, <1>6

(* Every operation of the parameter manager keeps the invariant.            *)
LEMMA TreeStep == TreeOK /\ [Next]_vars => TreeOK'
<1> SUFFICES ASSUME TreeOK, [Next]_vars PROVE TreeOK'
  OBVIOUS
<1>0. /\ calls \in Seq(Calls) /\ stand \in Stand /\ late \in 0 .. MaxLate /\ MaxLate \in Nat
      /\ Sound(Current) /\ Tree(nodes)
  BY SoundNow, TreeAssumption DEF TreeOK, TypeOK, TreeAssumption
(* A call that leaves a sound state.                                        *)
<1>1. ASSUME NEW c, Sound(c), Becomes(c), calls' \in Seq(Calls), stand' \in Stand,
             late' \in 0 .. MaxLate
      PROVE  TreeOK'
  BY <1>1, SoundNext DEF TreeOK, TypeOK
<1>2. ASSUME InitParam PROVE TreeOK'
  <2>1. calls # <<>> /\ Head(calls) \in Calls /\ Tail(calls) \in Seq(Calls)
    BY <1>0, <1>2 DEF InitParam
  <2>2. Head(calls).name \in Names /\ Head(calls).index \in Index
    BY <2>1 DEF Calls
  <2>3. Sound(Added(Head(calls).name, Head(calls).index))
    BY <2>2, <1>0, AddedSound
  <2> QED BY <2>1, <2>3, <1>0, <1>1, <1>2 DEF InitParam
<1>3. ASSUME NEW x \in Index, AddParam(x) PROVE TreeOK'
  <2>1. Sound(Added(NameOf[x], x))
    BY <1>0, AddedSound DEF Names
  <2>2. late' \in 0 .. MaxLate
    BY <1>0, <1>3 DEF AddParam, Ready
  <2> QED BY <2>1, <2>2, <1>0, <1>1, <1>3 DEF AddParam
<1>4. ASSUME NEW p \in Names \cup Objects, NEW leaf, RemoveParam(p, leaf) PROVE TreeOK'
  <2>1. Sound(Removed(FindNode(p, leaf)))
    BY <1>4, RemovedOf DEF RemoveParam, RemovedFrom
  <2>2. late' \in 0 .. MaxLate
    BY <1>0, <1>4 DEF RemoveParam, Ready
  <2> QED BY <2>1, <2>2, <1>0, <1>1, <1>4 DEF RemoveParam
<1>5. ASSUME Uninit PROVE TreeOK'
  <2>2. nodes' = [i \in {0} |-> Root] /\ idstack' = <<1>> /\ number' = 1
    BY <1>5, UninitLeaves
  <2>3. Tree(nodes') /\ DOMAIN nodes' = {0}
    BY <2>2, RootTree
  <2>4. DOMAIN nodes' \ {0} = {}
    BY <2>3
  <2>5. IdsInv'
    BY <2>2, <2>4, FreshIds DEF IdsInv
  <2>6. calls' \in Seq(Calls) /\ stand' \in Stand /\ late' \in 0 .. MaxLate
    BY <1>0, <1>5, InitCallsAre DEF Uninit, Restart, Ready
  <2> QED BY <2>3, <2>5, <2>6 DEF TreeOK, TypeOK, Tree
<1>6. ASSUME UNCHANGED vars PROVE TreeOK'
  BY <1>6 DEF vars, TreeOK, TypeOK, IdsInv, Shape, OneTree, Levels, Twinless, Routed,
              LeavesNamed, Leaves
<1> QED BY <1>2, <1>3, <1>4, <1>5, <1>6 DEF Next

(* The invariant holds in every state.                                      *)
LEMMA TreeAlways == Spec => []TreeOK
BY TreeInit, TreeStep, PTL DEF Spec

(* Whatever add_param, remove_param and uninit did, and where they gave up  *)
(* half-way: the pointers form a tree, in which every name is one component *)
(* longer than the name above it, siblings differ, a name leads to one      *)
(* place and no two parameters have the same name; the ids and the counters *)
(* agree with param_table.                                                  *)
THEOREM TreeCorrect == Spec => []TreeInv
<1>1. TreeOK => TreeInv
  BY SoundNow, NamesOnceIs DEF TreeOK, TreeInv
<1> QED BY <1>1, TreeAlways, PTL

(* idstack_pop gives no node an id that is in param_table, leaked nodes     *)
(* included, and the loop of uninit frees every node but the root.          *)
THEOREM GivenAndFreedCorrect == Spec => GivenAndFreed
<1>1. ASSUME TreeOK, Next, NEW id \in Linked(nodes') \ Linked(nodes)
      PROVE  id \notin DOMAIN nodes
  <2>0. Sound(Current) /\ Tree(nodes)
    BY <1>1, SoundNow
  <2>1. ASSUME NEW c, Fresh(nodes, c), Becomes(c) PROVE id \notin DOMAIN nodes
    BY <1>1, <2>1 DEF Fresh, Becomes
  <2>2. ASSUME InitParam PROVE id \notin DOMAIN nodes
    <3>1. Head(calls).name \in Names /\ Head(calls).index \in Index
      <4>1. calls # <<>> /\ calls \in Seq(Calls)
        BY <1>1, <2>2 DEF InitParam, TreeOK, TypeOK
      <4>2. Head(calls) \in Calls
        BY <4>1
      <4> QED BY <4>2 DEF Calls
    <3>2. Fresh(nodes, Added(Head(calls).name, Head(calls).index))
      BY <3>1, <2>0, AddedSound
    <3> QED BY <3>2, <2>1, <2>2 DEF InitParam
  <2>3. ASSUME NEW x \in Index, AddParam(x) PROVE id \notin DOMAIN nodes
    <3>1. Fresh(nodes, Added(NameOf[x], x))
      BY <2>0, AddedSound DEF Names
    <3> QED BY <3>1, <2>1, <2>3 DEF AddParam
  <2>4. ASSUME NEW p \in Names \cup Objects, NEW leaf, RemoveParam(p, leaf)
        PROVE  id \notin DOMAIN nodes
    <3>1. PICK i, c : i = FindNode(p, leaf) /\ c = Removed(i)
      OBVIOUS
    <3>2. RemovedFrom(c, i) /\ nodes' = c.nodes
      BY <3>1, <2>4, <1>1, RemovedOf DEF RemoveParam, Becomes
    <3>3. Linked(nodes') \subseteq Linked(nodes)
      BY <3>2 DEF RemovedFrom
    <3> QED BY <3>3, <1>1
  <2>5. ASSUME Uninit PROVE id \notin DOMAIN nodes
    <3>1. nodes' = [i \in {0} |-> Root]
      BY <2>5, <1>1, UninitLeaves
    <3>2. Linked(nodes') = {0} /\ 0 \in Linked(nodes)
      BY <3>1, <2>0, RootTree, TreeLinked
    <3> QED BY <3>2, <1>1
  <2> QED BY <2>2, <2>3, <2>4, <2>5, <1>1 DEF Next
<1>2. TreeOK /\ [Next]_vars => [\A id \in Linked(nodes)' \ Linked(nodes) : id \notin DOMAIN nodes]_vars
  BY <1>1
<1>3. TreeOK /\ [Next]_vars => [Uninit => DOMAIN nodes' = {0}]_vars
  <2>1. ASSUME TreeOK, Uninit PROVE DOMAIN nodes' = {0}
    <3>1. nodes' = [i \in {0} |-> Root]
      BY <2>1, UninitLeaves
    <3> QED BY <3>1
  <2> QED BY <2>1
<1> QED BY <1>2, <1>3, TreeAlways, PTL DEF Spec, GivenAndFreed
-----------------------------------------------------------------------------
(* A tree whose nodes hang where their names say.                           *)

First(p, k) == SubSeq(p, 1, k)

(* The beginnings of a name.                                                *)
LEMMA Shorter ==
  ASSUME NEW p \in Seq(Comp), NEW k \in 0 .. Len(p)
  PROVE  /\ First(p, k) \in Seq(Comp) /\ Len(First(p, k)) = k
         /\ First(p, Len(p)) = p
         /\ k >= 1 => Before(First(p, k)) = First(p, k - 1)
         /\ \A m \in 1 .. k : First(p, k)[m] = p[m]
<1>1. CASE k = 0
  <2>1. PICK q, r : q = SubSeq(p, 1, 0) /\ r = SubSeq(p, 1, Len(p))
    OBVIOUS
  <2>2. q \in Seq(Comp) /\ Len(q) = 0
    BY <2>1
  <2>3. r = p
    <3>1. r \in Seq(Comp) /\ Len(r) = Len(p) /\ \A m \in 1 .. Len(p) : r[m] = p[m]
      BY <2>1
    <3> QED BY <3>1, SeqEqual
  <2> QED BY <1>1, <2>1, <2>2, <2>3 DEF First
<1>2. CASE k \in 1 .. Len(p)
  BY <1>2, Beginnings DEF First
<1> QED BY <1>1, <1>2

(* A beginning, component by component.                                     *)
LEMMA PrefixIs ==
  ASSUME NEW p \in Seq(Comp), NEW q \in Seq(Comp)
  PROVE  /\ IsPrefix(p, q) <=> Len(p) <= Len(q) /\ First(q, Len(p)) = p
         /\ IsPrefix(p, q) => (Len(p) = Len(q) <=> p = q)
<1>1. First(p, Len(p)) = p /\ First(q, Len(q)) = q /\ Len(p) \in Nat /\ Len(q) \in Nat
  BY Shorter
<1>2. IsPrefix(p, q) <=> Len(p) <= Len(q) /\ First(q, Len(p)) = p
  BY <1>1 DEF IsPrefix, First
<1> QED BY <1>1, <1>2

(* A node in its place: its parent is the object of its name.               *)
LEMMA PlacedParent ==
  ASSUME Tree(nodes), InPlace, NEW g \in Linked(nodes), NEW c \in ToSet(nodes[g].child)
  PROVE  nodes[g].path = Before(nodes[c].path) /\ nodes[g].leaf = FALSE
<1>1. c \in Linked(nodes)
  BY LevelIs
<1> QED BY <1>1 DEF InPlace, Displaced, Is

(* The nodes on the way down to a node.                                     *)
OnPath(a, b, i, k) ==
  /\ a \in Linked(nodes) /\ b \in ToSet(nodes[a].child)
  /\ nodes[a].path = First(nodes[i].path, k - 1) /\ nodes[a].leaf = FALSE
  /\ nodes[b].path = First(nodes[i].path, k)
  /\ nodes[b].leaf = IF k = Len(nodes[i].path) THEN nodes[i].leaf ELSE FALSE
  /\ i \in Under(nodes, b)
  /\ k = Len(nodes[i].path) => b = i

(* Where no node is displaced, the nodes above a node have the beginnings   *)
(* of its name, and each is its child's parent.                             *)
LEMMA Chain ==
  ASSUME Tree(nodes), InPlace, NEW i \in Linked(nodes)
  PROVE  \A k \in 1 .. Len(nodes[i].path) : \E a, b : OnPath(a, b, i, k)
<1> DEFINE L == Linked(nodes)
           n == Len(nodes[i].path)
           T == {d \in Nat : d < n => \E a, b : OnPath(a, b, i, n - d)}
<1>1. PICK p : p = nodes[i].path
  OBVIOUS
<1>2. p \in Seq(Comp) /\ n \in Nat /\ n = Len(p)
  BY <1>1, LevelIs
<1>0. Len(nodes[0].path) = 0
  BY RootAlone
<1>3. 0 \in T
  <2> SUFFICES ASSUME 0 < n PROVE \E a, b : OnPath(a, b, i, n - 0)
    OBVIOUS
  <2>1. i # 0
    BY <1>0, <1>2
  <2>2. PICK a \in L : i \in ToSet(nodes[a].child)
    BY <2>1, TreeParent
  <2>3. nodes[a].path = Before(p) /\ nodes[a].leaf = FALSE
    BY <2>2, <1>1, PlacedParent
  <2>4. First(p, n) = p /\ Before(p) = First(p, n - 1)
    BY <1>2, Shorter DEF Before, First
  <2>5. i \in Under(nodes, i)
    BY UnderLevels
  <2>6. OnPath(a, i, i, n)
    BY <2>2, <2>3, <2>4, <2>5, <1>1 DEF OnPath
  <2>7. n - 0 = n
    BY <1>2
  <2> QED BY <2>6, <2>7
<1>4. ASSUME NEW d \in Nat, d \in T PROVE d + 1 \in T
  <2> SUFFICES ASSUME d + 1 < n PROVE \E a, b : OnPath(a, b, i, n - (d + 1))
    OBVIOUS
  <2>1. PICK k, m : k = n - d /\ m = n - (d + 1)
    OBVIOUS
  <2>2. d < n /\ k \in 1 .. n /\ m \in 1 .. n /\ m = k - 1 /\ m >= 1 /\ m # n
    BY <2>1, <1>2
  <2>3. PICK a, b : OnPath(a, b, i, k)
    BY <2>1, <2>2, <1>4
  <2>4. a \in L /\ nodes[a].path = First(p, m) /\ nodes[a].leaf = FALSE
        /\ b \in ToSet(nodes[a].child) /\ i \in Under(nodes, b)
    BY <2>2, <2>3, <1>1 DEF OnPath
  <2>5. m \in 0 .. Len(p)
    BY <2>2, <1>2
  <2>6. Len(First(p, m)) = m /\ Before(First(p, m)) = First(p, m - 1)
    BY <2>2, <2>5, <1>2, Shorter
  <2>7. a # 0
    <3>1. Len(nodes[a].path) = m
      BY <2>4, <2>6
    <3> QED BY <3>1, <2>2, <1>0
  <2>8. PICK e \in L : a \in ToSet(nodes[e].child)
    BY <2>4, <2>7, TreeParent
  <2>9. nodes[e].path = First(p, m - 1) /\ nodes[e].leaf = FALSE
    BY <2>4, <2>6, <2>8, PlacedParent
  <2>10. i \in Under(nodes, a)
    <3>1. ClosedAt(nodes, a, L)
      BY <2>4, TreeLinked
    <3>2. ClosedAt(nodes, a, Under(nodes, a))
      BY <3>1, UnderIs
    <3>3. b \in Under(nodes, a)
      BY <2>4, <3>2 DEF ClosedAt, Closed
    <3> QED BY <2>4, <3>1, <3>3, UnderLower
  <2>11. OnPath(e, a, i, m)
    BY <2>2, <2>4, <2>8, <2>9, <2>10, <1>1 DEF OnPath
  <2> QED BY <2>1, <2>11
<1>5. Nat \subseteq T
  <2> HIDE DEF T
  <2> QED BY <1>3, <1>4, Induction
<1> SUFFICES ASSUME NEW k \in 1 .. n PROVE \E a, b : OnPath(a, b, i, k)
  OBVIOUS
<1>6. PICK d : d = n - k
  OBVIOUS
<1>7. d \in Nat /\ d < n /\ n - d = k
  BY <1>2, <1>6
<1>8. d \in T
  BY <1>5, <1>7
<1> QED BY <1>7, <1>8

(* What hangs below an object is what its name begins.                      *)
LEMMA UnderPaths ==
  ASSUME Tree(nodes), InPlace, NEW i \in Linked(nodes), NEW p, Len(p) >= 1, Is(nodes[i], p, FALSE),
         NEW x \in Leaves(nodes)
  PROVE  x \in Under(nodes, i) <=> IsStrictPrefix(p, nodes[x].path)
<1> DEFINE L == Linked(nodes)
<1>0. p \in Seq(Comp) /\ nodes[i].path = p /\ nodes[i].leaf = FALSE /\ Len(p) \in Nat
  BY LevelIs DEF Is
<1>1. x \in L /\ nodes[x].leaf
  BY DEF Leaves
<1>2. nodes[x].leaf = TRUE /\ x # i /\ nodes[x].path \in Seq(Comp) /\ Len(nodes[x].path) \in Nat
  <2>1. nodes[x].leaf \in BOOLEAN
    BY <1>1, TreeLinked DEF NodeType
  <2> QED BY <2>1, <1>0, <1>1, LevelIs
<1>3. ASSUME x \in Under(nodes, i) PROVE IsStrictPrefix(p, nodes[x].path)
  <2> DEFINE S == {y \in L : IsPrefix(p, nodes[y].path)}
  <2>1. i \in S
    <3>1. IsPrefix(p, p)
      BY <1>0, PrefixIs, Shorter
    <3> QED BY <3>1, <1>0
  <2>2. ASSUME NEW j \in Under(nodes, i) \cap S PROVE ToSet(nodes[j].child) \subseteq S
    <3> SUFFICES ASSUME NEW c \in ToSet(nodes[j].child) PROVE IsPrefix(p, nodes[c].path)
      BY LevelIs
    <3>1. PICK q, r, k : q = nodes[j].path /\ r = nodes[c].path /\ k = Len(p)
      OBVIOUS
    <3>2. j \in L /\ c \in L /\ q \in Seq(Comp) /\ r \in Seq(Comp) /\ Len(q) \in Nat
          /\ Len(r) = Len(q) + 1 /\ q = Before(r)
      <4>1. j \in L /\ c \in L /\ Len(r) = Len(q) + 1
        BY <3>1, LevelIs
      <4>2. q \in Seq(Comp) /\ r \in Seq(Comp) /\ Len(q) \in Nat
        BY <4>1, <3>1, LevelIs
      <4> QED BY <4>1, <4>2, <3>1, PlacedParent
    <3>3. k <= Len(q) /\ First(q, k) = p
      BY <3>1, <3>2, <1>0, PrefixIs
    <3>4. q = First(r, Len(q))
      BY <3>2 DEF Before, First
    <3>5. First(First(r, Len(q)), k) = First(r, k)
      <4>1. PICK a, b : a = First(q, k) /\ b = First(r, k)
        OBVIOUS
      <4>2. k \in 0 .. Len(q) /\ k \in 0 .. Len(r) /\ Len(q) \in 0 .. Len(r)
        BY <3>1, <3>2, <3>3, <1>0
      <4>3. a \in Seq(Comp) /\ Len(a) = k /\ \A m \in 1 .. k : a[m] = q[m]
        BY <4>1, <4>2, <3>2, Shorter
      <4>4. b \in Seq(Comp) /\ Len(b) = k /\ \A m \in 1 .. k : b[m] = r[m]
        BY <4>1, <4>2, <3>2, Shorter
      <4>5. \A m \in 1 .. Len(q) : First(r, Len(q))[m] = r[m]
        BY <4>2, <3>2, Shorter
      <4>6. \A m \in 1 .. k : m \in 1 .. Len(q)
        BY <4>2
      <4>7. \A m \in 1 .. Len(a) : a[m] = b[m]
        BY <4>3, <4>4, <4>5, <4>6, <3>4
      <4>8. a = b
        BY <4>3, <4>4, <4>7, SeqEqual
      <4> QED BY <4>1, <4>8, <3>4
    <3>6. k <= Len(r) /\ First(r, k) = p
      BY <3>2, <3>3, <3>4, <3>5, <3>1, <1>0
    <3> QED BY <3>1, <3>2, <3>6, <1>0, PrefixIs
  <2>3. Under(nodes, i) \subseteq S
    <3>1. ClosedAt(nodes, i, L)
      BY TreeLinked
    <3> HIDE DEF S
    <3> QED BY <3>1, <2>1, <2>2, UnderInduct
  <2>4. IsPrefix(p, nodes[x].path)
    BY <1>3, <2>3
  <2>5. Len(nodes[x].path) > Len(p)
    BY <1>0, <1>2, <1>3, UnderLevels
  <2>6. p # nodes[x].path
    BY <2>5, <1>0
  <2> QED BY <2>4, <2>6 DEF IsStrictPrefix
<1>4. ASSUME IsStrictPrefix(p, nodes[x].path) PROVE x \in Under(nodes, i)
  <2>1. PICK q, k : q = nodes[x].path /\ k = Len(p)
    OBVIOUS
  <2>2. IsPrefix(p, q) /\ p # q
    BY <1>4, <2>1 DEF IsStrictPrefix
  <2>3. k <= Len(q) /\ First(q, k) = p /\ k # Len(q)
    BY <2>1, <2>2, <1>0, <1>2, PrefixIs
  <2>4. k \in 1 .. Len(q)
    BY <2>1, <2>3, <1>0, <1>2
  <2>5. PICK a, b : OnPath(a, b, x, k)
    BY <2>1, <2>4, <1>1, Chain
  <2>6. b \in L /\ nodes[b].path = p /\ nodes[b].leaf = FALSE /\ x \in Under(nodes, b)
    <3>1. a \in L /\ b \in ToSet(nodes[a].child) /\ nodes[b].path = First(q, k)
          /\ nodes[b].leaf = (IF k = Len(q) THEN nodes[x].leaf ELSE FALSE)
          /\ x \in Under(nodes, b)
      BY <2>1, <2>5 DEF OnPath
    <3>2. b \in L
      BY <3>1, LevelIs
    <3>3. nodes[b].path = p
      BY <3>1, <2>3
    <3>4. nodes[b].leaf = FALSE
      BY ONLY <3>1, <2>3, Zenon
    <3> QED BY <3>1, <3>2, <3>3, <3>4
  <2>7. b = i
    BY <2>6, <1>0, NodeOnce
  <2> QED BY <2>6, <2>7
<1> QED BY <1>3, <1>4

(* Nothing hangs below a parameter.                                         *)
LEMMA UnderLeaf ==
  ASSUME Tree(nodes), InPlace, NEW i \in Leaves(nodes)
  PROVE  Under(nodes, i) = {i}
<1>1. i \in Linked(nodes) /\ nodes[i].leaf
  BY DEF Leaves
<1>2. ToSet(nodes[i].child) = {}
  BY <1>1, PlacedParent
<1>3. ClosedAt(nodes, i, Linked(nodes))
  BY <1>1, TreeLinked
<1>4. Under(nodes, i) = {i} \cup UNION {Under(nodes, c) : c \in ToSet(nodes[i].child)}
  BY <1>3, UnderUnfolds
<1> QED BY <1>2, <1>4
-----------------------------------------------------------------------------
(* A linked id is a number.                                                 *)
LEMMA LinkedNat ==
  ASSUME NEW t, Tree(t), NEW i \in Linked(t)
  PROVE  i \in Nat
<1>1. CASE i = 0
  BY <1>1
<1>2. CASE i # 0
  <2>1. PICK j \in Linked(t) : i \in ToSet(t[j].child)
    BY <1>2, TreeParent
  <2>2. PICK s : s = t[j].child
    OBVIOUS
  <2>3. s \in Seq(Nat)
    BY <2>2, LevelIs
  <2> QED BY <2>1, <2>2, <2>3, Members
<1> QED BY <1>1, <1>2

(* A lookup that tells the nodes of each level apart by their names goes    *)
(* down to the node of the name.                                            *)
Tells(S, p, k) ==
  \A x \in Linked(nodes) :
    Len(nodes[x].path) = k => (x \in S <=> Is(nodes[x], First(p, k), k = Len(p)))

(* Where no node is displaced, a lookup that tells the node of each level   *)
(* from the others comes down to the parameter.                             *)
LEMMA WayDown ==
  ASSUME Tree(nodes), InPlace, NEW i \in Leaves(nodes), NEW p, p = nodes[i].path,
         NEW wanted, Len(wanted) = Len(p), NEW w, Finds(w, wanted),
         NEW m \in 0 .. Len(p), \A k \in 1 .. m : Tells(wanted[k], p, k)
  PROVE  \A k \in 0 .. m : w[k] \in Linked(nodes) /\ Is(nodes[w[k]], First(p, k), k = Len(p))
<1> DEFINE L == Linked(nodes)
           T == {k \in Nat : k <= m => w[k] \in L /\ Is(nodes[w[k]], First(p, k), k = Len(p))}
<1>1. i \in L /\ i \in DOMAIN nodes /\ nodes[i].leaf = TRUE
  <2>1. i \in L /\ nodes[i].leaf
    BY DEF Leaves
  <2>2. nodes[i] \in NodeType
    BY <2>1, TreeLinked
  <2> QED BY <2>1, <2>2, TreeLinked DEF NodeType
<1>2. PICK n : n = Len(p)
  OBVIOUS
<1>3. p \in Seq(Comp) /\ n \in Nat /\ n >= 1
  <2>1. nodes[0].leaf = FALSE
    BY RootAlone, <1>1
  <2>2. i # 0
    BY <2>1, <1>1
  <2> QED BY <2>2, <1>1, <1>2, LevelIs, RootAlone
<1>4. w[0] = 0 /\ w \in [0 .. n -> Places]
      /\ \A k \in 1 .. n : w[k] = FirstOf(Level(w[k - 1]), wanted[k])
  BY <1>2 DEF Finds
<1>5. 0 \in T
  <2>1. nodes[0].path = <<>> /\ nodes[0].leaf = FALSE /\ 0 \in L
    BY <1>1, RootAlone, TreeLinked
  <2>2. First(p, 0) = <<>>
    <3>1. First(p, 0) \in Seq(Comp) /\ Len(First(p, 0)) = 0
      BY <1>2, <1>3, Shorter
    <3>2. <<>> \in Seq(Comp) /\ Len(<<>>) = 0
      OBVIOUS
    <3> QED BY <3>1, <3>2, SeqEqual
  <2>3. (0 = Len(p)) = FALSE
    BY <1>2, <1>3
  <2>4. Is(nodes[0], First(p, 0), 0 = Len(p))
    BY <2>1, <2>2, <2>3 DEF Is
  <2> QED BY <2>1, <2>4, <1>4
<1>6. ASSUME NEW k \in Nat, k \in T PROVE k + 1 \in T
  <2> SUFFICES ASSUME k + 1 <= m
               PROVE  w[k + 1] \in L /\ Is(nodes[w[k + 1]], First(p, k + 1), k + 1 = Len(p))
    OBVIOUS
  <2>1. PICK d, x, S : d = k + 1 /\ x = w[k + 1] /\ S = wanted[k + 1]
    OBVIOUS
  <2>2. d \in 1 .. n /\ d \in 1 .. m /\ d - 1 = k /\ k <= m /\ k < n
    BY <2>1, <1>2, <1>3
  <2>3. PICK a, b : OnPath(a, b, i, d)
    BY <2>2, <1>1, <1>2, Chain
  <2>4. /\ a \in L /\ b \in ToSet(nodes[a].child)
        /\ nodes[a].path = First(p, k) /\ nodes[a].leaf = FALSE
        /\ nodes[b].path = First(p, d)
        /\ nodes[b].leaf = (IF d = n THEN nodes[i].leaf ELSE FALSE)
    BY <2>2, <2>3, <1>2 DEF OnPath
  <2>5. a = w[k]
    <3>1. w[k] \in L /\ Is(nodes[w[k]], First(p, k), k = Len(p))
      BY <2>2, <1>6
    <3>2. (k = Len(p)) = FALSE
      BY <2>2, <1>2
    <3> QED BY <3>1, <3>2, <2>4, NodeOnce DEF Is
  <2>6. x = FirstOf(Level(a), S) /\ a \in Places
    BY <2>1, <2>2, <2>4, <2>5, <1>4 DEF Places
  <2>7. Len(nodes[a].path) = k /\ Len(nodes[b].path) = d /\ b \in L
    <3>1. k \in 0 .. Len(p) /\ d \in 0 .. Len(p)
      BY <2>2, <1>2
    <3>2. Len(First(p, k)) = k /\ Len(First(p, d)) = d
      BY <3>1, <1>3, Shorter
    <3>3. b \in L
      BY <2>4, LevelIs
    <3> QED BY <3>2, <3>3, <2>4
  <2>8. Is(nodes[b], First(p, d), d = Len(p))
    <3>1. nodes[b].leaf = (d = Len(p))
      BY <2>4, <1>1, <1>2
    <3> QED BY <3>1, <2>4 DEF Is
  <2>9. Tells(S, p, d)
    BY <2>1, <2>2
  <2>10. b \in S
    BY <2>7, <2>8, <2>9 DEF Tells
  <2>11. x # Nowhere
    <3>1. Level(a) \in Seq(Nat) /\ Level(a) = nodes[a].child
      <4>1. a # Nowhere
        <5>1. a \in Nat
          BY <2>4, LinkedNat
        <5> QED BY <5>1 DEF Nowhere
      <4> QED BY <4>1, <2>6, LevelList DEF Level
    <3>2. b \in ToSet(Level(a)) \cap S
      BY <3>1, <2>4, <2>10
    <3> QED BY <3>1, <3>2, <2>6, FirstMissing
  <2>12. x \in ToSet(nodes[a].child) \cap S
    BY <2>6, <2>11, LevelList
  <2>13. x \in L /\ Len(nodes[x].path) = d
    <3>1. x \in L /\ Len(nodes[x].path) = Len(nodes[a].path) + 1
      BY <2>4, <2>12, LevelIs
    <3> QED BY <3>1, <2>1, <2>7
  <2>14. Is(nodes[x], First(p, d), d = Len(p))
    BY <2>9, <2>12, <2>13 DEF Tells
  <2> QED BY <2>1, <2>13, <2>14
<1>7. Nat \subseteq T
  <2> HIDE DEF T
  <2> QED BY <1>5, <1>6, Induction
<1> QED BY <1>7

(* The parameter found is the one at hand.                                  *)
LEMMA SetLookupFinds ==
  ASSUME Tree(nodes), InPlace, NEW i \in Leaves(nodes)
  PROVE  SetLookup(nodes[i].path) = i
<1>1. PICK p, n : p = nodes[i].path /\ n = Len(nodes[i].path)
  OBVIOUS
<1>2. i \in Linked(nodes) /\ nodes[i].leaf /\ nodes[i].leaf \in BOOLEAN
  BY TreeLinked DEF Leaves, NodeType
<1>3. p \in Seq(Comp) /\ n \in Nat /\ n = Len(p)
  BY <1>1, <1>2, LevelIs
<1>4. PICK q : q = [k \in 1 .. Len(p) |->
                      {j \in DOMAIN nodes : Is(nodes[j], SubSeq(p, 1, k), k = Len(p))}]
  OBVIOUS
<1>5. Len(q) = Len(p)
  BY <1>3, <1>4
<1>6. PICK w : Finds(w, q)
  BY <1>3, <1>5, LookupIs
<1>7. SetLookup(p) = w[n]
  BY <1>3, <1>4, <1>5, <1>6 DEF SetLookup, Finds
<1>8. ASSUME NEW k \in 1 .. n PROVE Tells(q[k], p, k)
  <2>1. q[k] = {j \in DOMAIN nodes : Is(nodes[j], First(p, k), k = Len(p))}
    BY <1>3, <1>4 DEF First
  <2> QED BY <2>1, TreeLinked DEF Tells
<1>9. n \in 0 .. Len(p)
  BY <1>3
<1>10. w[n] \in Linked(nodes) /\ Is(nodes[w[n]], First(p, n), n = Len(p))
  BY <1>1, <1>3, <1>5, <1>6, <1>8, <1>9, WayDown
<1>11. nodes[w[n]].path = nodes[i].path /\ nodes[w[n]].leaf = nodes[i].leaf
  <2>1. First(p, n) = p
    BY <1>3, <1>9, Shorter
  <2> QED BY <2>1, <1>1, <1>2, <1>3, <1>10 DEF Is
<1>12. w[n] = i
  BY <1>2, <1>10, <1>11, NodeOnce
<1> QED BY <1>1, <1>7, <1>12

(* Where no node is displaced, find_node finds a parameter that is not      *)
(* behind a longer name.                                                    *)
LEMMA FindNodeFinds ==
  ASSUME Tree(nodes), InPlace, NEW i \in Leaves(nodes)
  PROVE  FindNode(nodes[i].path, TRUE) = i \/ Shadowed(i)
<1> DEFINE L == Linked(nodes)
<1>1. PICK p, n : p = nodes[i].path /\ n = Len(nodes[i].path)
  OBVIOUS
<1>2. i \in L /\ nodes[i].leaf = TRUE
  <2>1. i \in L /\ nodes[i].leaf
    BY DEF Leaves
  <2>2. nodes[i].leaf \in BOOLEAN
    BY <2>1, TreeLinked DEF NodeType
  <2> QED BY <2>1, <2>2
<1>3. i # 0 /\ p \in Seq(Comp) /\ n \in Nat /\ n = Len(p) /\ n >= 1
  <2>1. nodes[0].leaf = FALSE
    BY RootAlone, <1>2
  <2>2. i # 0
    BY <2>1, <1>2
  <2> QED BY <2>2, <1>1, <1>2, LevelIs, RootAlone
<1>4. PICK q, w : /\ q = Wanted(p, TRUE) /\ Len(q) = n /\ Finds(w, q)
                  /\ FindNode(p, TRUE) = IF w[n] # Nowhere /\ Is(nodes[w[n]], p, TRUE)
                                         THEN w[n] ELSE Nowhere
  BY <1>3, FindNodeIs
<1>5. PICK g \in L : i \in ToSet(nodes[g].child)
  BY <1>2, <1>3, TreeParent
<1>6. nodes[g].path = First(p, n - 1) /\ nodes[g].leaf = FALSE
  BY <1>1, <1>3, <1>5, PlacedParent DEF Before, First
<1>7. ASSUME NEW k \in 1 .. n - 1 PROVE Tells(q[k], p, k)
  <2>1. q[k] = {j \in DOMAIN nodes : BeginsDot(nodes[j], First(p, k))}
    BY <1>3, <1>4 DEF Wanted, Dots, First
  <2>2. k \in 0 .. Len(p) /\ (k = Len(p)) = FALSE /\ k \in Nat
    BY <1>3
  <2>3. First(p, k) \in Seq(Comp) /\ Len(First(p, k)) = k
    BY <2>2, <1>3, Shorter
  <2>4. ASSUME NEW x \in L, Len(nodes[x].path) = k
        PROVE  BeginsDot(nodes[x], First(p, k)) <=> Is(nodes[x], First(p, k), FALSE)
    <3>1. nodes[x].path \in Seq(Comp) /\ nodes[x].leaf \in BOOLEAN
      BY TreeLinked DEF NodeType
    <3>2. PICK r, s : r = nodes[x].path /\ s = First(p, k)
      OBVIOUS
    <3>3. r \in Seq(Comp) /\ s \in Seq(Comp) /\ Len(r) = k /\ Len(s) = k
      BY <3>1, <3>2, <2>3, <2>4
    <3>4. IsPrefix(s, r) <=> s = r
      <4>1. /\ IsPrefix(s, r) <=> Len(s) <= Len(r) /\ First(r, Len(s)) = s
            /\ IsPrefix(s, r) => (Len(s) = Len(r) <=> s = r)
        BY <3>3, PrefixIs
      <4>2. First(r, Len(r)) = r
        BY <3>3, <2>2, Shorter
      <4> QED BY <4>1, <4>2, <3>3, <2>2
    <3>5. ~(Len(r) > Len(s))
      BY <3>3, <2>2
    <3> QED BY <3>1, <3>2, <3>4, <3>5 DEF BeginsDot, Is
  <2> QED BY <2>1, <2>2, <2>4, TreeLinked DEF Tells
<1>8. w[n - 1] = g
  <2>1. PICK m : m = n - 1
    OBVIOUS
  <2>2. m \in 0 .. Len(p) /\ (m = Len(p)) = FALSE /\ m \in 0 .. m
    BY <2>1, <1>3
  <2>3. \A k \in 1 .. m : Tells(q[k], p, k)
    BY <2>1, <1>7
  <2>4. w[m] \in L /\ Is(nodes[w[m]], First(p, m), m = Len(p))
    BY <2>2, <2>3, <1>1, <1>3, <1>4, WayDown
  <2> QED BY <2>1, <2>2, <2>4, <1>6, NodeOnce DEF Is
<1>9. PICK s, S : s = nodes[g].child /\ S = {j \in DOMAIN nodes : Begins(nodes[j], p)}
  OBVIOUS
<1>10. w[n] = FirstOf(s, S)
  <2>0. Len(q) = n /\ Len(p) = n /\ n \in Nat /\ n >= 1
    BY <1>3, <1>4
  <2>1. n \in 1 .. Len(q) /\ n \in 1 .. Len(p) /\ ~(n <= n - 1)
    BY ONLY <2>0
  <2>2. q[n] = S
    <3>1. q[n] = {j \in DOMAIN nodes : IF n <= n - 1 THEN BeginsDot(nodes[j], SubSeq(p, 1, n))
                                       ELSE Begins(nodes[j], p)}
      BY <2>1, <1>3, <1>4 DEF Wanted, Dots
    <3>2. \A j : j \in q[n] <=> j \in DOMAIN nodes /\ Begins(nodes[j], p)
      BY ONLY <2>1, <3>1
    <3> QED BY <3>2, <1>9
  <2>3. w[n] = FirstOf(Level(g), S)
    BY <2>1, <2>2, <1>4, <1>8 DEF Finds
  <2>4. g # Nowhere
    BY <1>5, LinkedNat DEF Nowhere
  <2> QED BY <2>3, <2>4, <1>9 DEF Level
<1>11. s \in Seq(Nat) /\ i \in ToSet(s) /\ i \in Nat
  BY <1>2, <1>5, <1>9, LevelIs, LinkedNat
<1>12. i \in S
  <2>1. i \in DOMAIN nodes
    BY <1>2, TreeLinked
  <2>2. Begins(nodes[i], p)
    BY <1>1, <1>3 DEF Begins
  <2> QED BY <2>1, <2>2, <1>9
<1>13. FirstOf(s, S) # Nowhere
  BY <1>11, <1>12, FirstMissing
<1>14. PICK k : IsFirst(s, S, k) /\ FirstOf(s, S) = s[k]
  BY <1>11, <1>13, FirstFound
<1>15. CASE s[k] = i
  <2>1. w[n] = i /\ i # Nowhere /\ Is(nodes[i], p, TRUE)
    BY <1>1, <1>2, <1>10, <1>11, <1>14, <1>15 DEF Is, Nowhere
  <2>2. FindNode(p, TRUE) = i
    BY <2>1, <1>4
  <2> QED BY <2>2, <1>1
<1>16. CASE s[k] # i
  <2>1. PICK m \in 1 .. Len(s) : s[m] = i
    BY <1>11, Members
  <2>2. k \in 1 .. Len(s) /\ s[k] \in S /\ \A e \in 1 .. k - 1 : s[e] \notin S
    BY <1>14 DEF IsFirst
  <2>3. k < m
    <3>1. m # k
      BY <2>1, <1>16
    <3>2. m \notin 1 .. k - 1
      BY <2>1, <2>2, <1>12
    <3>3. m \in Nat /\ k \in Nat /\ m >= 1
      BY <2>1, <2>2
    <3> QED BY <3>1, <3>2, <3>3
  <2>4. Begins(nodes[s[k]], p)
    BY <2>2, <1>9
  <2>5. Shadowed(i)
    BY <2>1, <2>2, <2>3, <2>4, <1>1, <1>5, <1>9 DEF Shadowed
  <2> QED BY <2>5
<1> QED BY <1>15, <1>16

(* tr069_parameter_find_node and the lookup of set_value find the same      *)
(* parameter, the one of that name, as long as every node is in its place:  *)
(* find_node misses it only behind a sibling with a longer name.            *)
THEOREM LookupsCorrect == Spec => []LookupsAgree
<1>1. TreeOK => LookupsAgree
  BY SoundNow, SetLookupFinds, FindNodeFinds DEF LookupsAgree
<1> QED BY <1>1, TreeAlways, PTL
-----------------------------------------------------------------------------
(* Lists of parameters.                                                     *)

(* The node itself, as get_param lists it.                                  *)
LEMMA SelfIs ==
  ASSUME Tree(nodes), NEW k \in Linked(nodes), NEW objects
  PROVE  /\ Self(k, objects) \in Seq(Linked(nodes)) /\ IsInjective(Self(k, objects))
         /\ \A x : x \in ToSet(Self(k, objects)) <=> x = k /\ (objects \/ nodes[k].leaf)
<1>1. CASE objects \/ nodes[k].leaf
  <2>1. PICK s : s = <<k>>
    OBVIOUS
  <2>2. Self(k, objects) = s
    BY <1>1, <2>1 DEF Self
  <2>3. s \in Seq(Linked(nodes)) /\ DOMAIN s = {1} /\ s[1] = k
    BY <2>1
  <2>4. IsInjective(s) /\ ToSet(s) = {k}
    BY <2>3 DEF IsInjective, ToSet
  <2> QED BY <1>1, <2>2, <2>3, <2>4
<1>2. CASE ~(objects \/ nodes[k].leaf)
  <2>1. Self(k, objects) = <<>>
    BY <1>2 DEF Self
  <2>2. ToSet(<<>>) = {} /\ IsInjective(<<>>) /\ <<>> \in Seq(Linked(nodes))
    BY DEF ToSet, IsInjective
  <2> QED BY <1>2, <2>1, <2>2
<1> QED BY <1>1, <1>2

(* The nodes a list is to have.                                             *)
Picked(U, objects) == {x \in U : objects \/ nodes[x].leaf}

(* One level of recursive_get, over lists that are right.                   *)
GetStep(f, k, objects) == Self(k, objects) \o Concat(f, nodes[k].child)

(* One level of recursive_get: right for the node when it is right for its  *)
(* children.                                                                *)
LEMMA GetStepIs ==
  ASSUME Tree(nodes), NEW f \in [Linked(nodes) -> Seq(Linked(nodes))], NEW k \in Linked(nodes),
         NEW objects
  PROVE  /\ GetStep(f, k, objects) \in Seq(Linked(nodes))
         /\ (\A c \in ToSet(nodes[k].child) :
               ToSet(f[c]) = Picked(Under(nodes, c), objects) /\ IsInjective(f[c]))
              => /\ ToSet(GetStep(f, k, objects)) = Picked(Under(nodes, k), objects)
                 /\ IsInjective(GetStep(f, k, objects))
<1>0. PICK L, list, s, r : /\ L = Linked(nodes) /\ list = nodes[k].child
                           /\ s = Self(k, objects) /\ r = Concat(f, nodes[k].child)
  OBVIOUS
<1>1. list \in Seq(L) /\ list \in Seq(Nat) /\ ToSet(list) \subseteq L /\ IsInjective(list)
      /\ r = Concat(f, list)
  BY <1>0, ChildList
<1>2. \A c \in ToSet(list) : f[c] \in Seq(L)
  BY <1>0, <1>1
<1>3. /\ r \in Seq(L) /\ ToSet(r) = UNION {ToSet(f[c]) : c \in ToSet(list)}
      /\ Apart(f, list) => IsInjective(r)
  BY ONLY <1>1, <1>2, ConcatIs
<1>4. /\ s \in Seq(L) /\ IsInjective(s)
      /\ \A x : x \in ToSet(s) <=> x = k /\ (objects \/ nodes[k].leaf)
  BY <1>0, SelfIs
<1>5. PICK q : q = s \o r
  OBVIOUS
<1>6. /\ q \in Seq(L) /\ ToSet(q) = ToSet(s) \cup ToSet(r)
      /\ IsInjective(s) /\ IsInjective(r) /\ ToSet(s) \cap ToSet(r) = {} => IsInjective(q)
  BY ONLY <1>3, <1>4, <1>5, JoinLists
<1>7. GetStep(f, k, objects) = q
  BY <1>0, <1>5 DEF GetStep
<1>8. ASSUME \A c \in ToSet(list) :
               ToSet(f[c]) = Picked(Under(nodes, c), objects) /\ IsInjective(f[c])
      PROVE  ToSet(q) = Picked(Under(nodes, k), objects) /\ IsInjective(q)
  <2>1. \A x : x \in Under(nodes, k) <=> x = k \/ \E c \in ToSet(list) : x \in Under(nodes, c)
    <3>1. ClosedAt(nodes, k, Linked(nodes))
      BY TreeLinked
    <3>2. Under(nodes, k) = {k} \cup UNION {Under(nodes, c) : c \in ToSet(nodes[k].child)}
      BY <3>1, UnderUnfolds
    <3> QED BY <3>2, <1>0
  <2>2. \A x : x \in ToSet(r) <=> \E c \in ToSet(list) : x \in ToSet(f[c])
    BY ONLY <1>3
  <2>3. \A x : x \in ToSet(q) <=> x \in ToSet(s) \/ x \in ToSet(r)
    BY ONLY <1>6
  <2>4. \A x : x \in ToSet(r) <=> \E c \in ToSet(list) : x \in Picked(Under(nodes, c), objects)
    BY <2>2, <1>8
  <2>5. \A x : x \in ToSet(r)
               <=> (objects \/ nodes[x].leaf) /\ \E c \in ToSet(list) : x \in Under(nodes, c)
    BY ONLY <2>4 DEF Picked
  <2>6. \A x : x \in ToSet(q) <=> x \in Under(nodes, k) /\ (objects \/ nodes[x].leaf)
    BY ONLY <2>1, <2>3, <2>5, <1>4
  <2>7. ToSet(q) = Picked(Under(nodes, k), objects)
    BY ONLY <2>6 DEF Picked
  <2>8. ASSUME NEW c \in ToSet(list), NEW d \in ToSet(list), c # d
        PROVE  ToSet(f[c]) \cap ToSet(f[d]) = {}
    <3>1. Under(nodes, c) \cap Under(nodes, d) = {}
      BY <2>8, <1>0, UnderApart
    <3> QED BY <3>1, <1>8 DEF Picked
  <2>9. Apart(f, list)
    BY <2>8, <1>1, <1>8 DEF Apart
  <2>10. \A c \in ToSet(list) : k \notin Under(nodes, c)
    BY <1>0, BelowUnfolds
  <2>11. ToSet(s) \cap ToSet(r) = {}
    BY <2>5, <2>10, <1>4
  <2> QED BY <2>7, <2>9, <2>11, <1>3, <1>4, <1>6
<1> QED BY <1>0, <1>6, <1>7, <1>8

GetWay(g, objects) ==
  g = [h \in 0 .. MaxDepth |->
         [k \in Linked(nodes) |->
            Self(k, objects) \o IF h = 0 THEN <<>> ELSE Concat(g[h - 1], nodes[k].child)]]

(* The recursion inside GetAll has the values its equation gives.           *)
LEMMA GetWayIs ==
  ASSUME Tree(nodes), NEW objects
  PROVE  \E g : GetWay(g, objects)
<1> DEFINE L == Linked(nodes)
           S == [L -> Seq(L)]
           base == [k \in L |-> Self(k, objects) \o <<>>]
           step == [x \in S \X (1 .. MaxDepth) |-> [k \in L |-> GetStep(x[1], k, objects)]]
<1>1. MaxDepth \in Nat
  BY TreeAssumption DEF TreeAssumption
<1>2. base \in S
  <2>1. ASSUME NEW k \in L PROVE Self(k, objects) \o <<>> \in Seq(L)
    <3>1. PICK s, X : s = Self(k, objects) /\ X = L
      OBVIOUS
    <3>2. s \in Seq(X) /\ <<>> \in Seq(X)
      BY <3>1, SelfIs
    <3>3. s \o <<>> \in Seq(X)
      BY <3>2
    <3> QED BY <3>1, <3>3
  <2> QED BY <2>1
<1>3. step \in [S \X (1 .. MaxDepth) -> S]
  <2>1. ASSUME NEW x \in S \X (1 .. MaxDepth) PROVE [k \in L |-> GetStep(x[1], k, objects)] \in S
    <3>1. PICK f : f = x[1]
      OBVIOUS
    <3>2. f \in S
      BY <3>1
    <3>3. \A k \in L : GetStep(f, k, objects) \in Seq(L)
      BY <3>2, GetStepIs
    <3>4. [k \in L |-> GetStep(f, k, objects)] \in S
      BY <3>3
    <3> QED BY <3>1, <3>4
  <2> HIDE DEF S
  <2> QED BY <2>1
<1>4. PICK g : Goes(g, MaxDepth, S, base, step)
  <2> HIDE DEF S, base, step
  <2> QED BY <1>1, <1>2, <1>3, Recursion
<1>5. g \in [0 .. MaxDepth -> S] /\ g[0] = base
      /\ \A h \in 1 .. MaxDepth : g[h] = step[<<g[h - 1], h>>]
  BY <1>4 DEF Goes
<1>6. ASSUME NEW h \in 1 .. MaxDepth
      PROVE  g[h] = [k \in L |-> Self(k, objects) \o Concat(g[h - 1], nodes[k].child)]
  <2>1. PICK f : f = g[h - 1]
    OBVIOUS
  <2>2. f \in S
    <3>1. h - 1 \in 0 .. MaxDepth
      BY <1>1
    <3> QED BY <2>1, <3>1, <1>5
  <2>3. step[<<f, h>>] = [k \in L |-> GetStep(f, k, objects)]
    <3>1. <<f, h>> \in S \X (1 .. MaxDepth)
      BY <2>2
    <3> HIDE DEF S
    <3> QED BY <3>1
  <2>4. g[h] = [k \in L |-> GetStep(f, k, objects)]
    BY <2>1, <2>3, <1>5
  <2> QED BY <2>1, <2>4 DEF GetStep
<1>7. g = [h \in 0 .. MaxDepth |->
             [k \in L |->
                Self(k, objects) \o IF h = 0 THEN <<>> ELSE Concat(g[h - 1], nodes[k].child)]]
  <2>1. g = [h \in 0 .. MaxDepth |-> g[h]]
    BY <1>5
  <2>2. ASSUME NEW h \in 0 .. MaxDepth
        PROVE  g[h] = [k \in L |->
                Self(k, objects) \o IF h = 0 THEN <<>> ELSE Concat(g[h - 1], nodes[k].child)]
    <3>1. CASE h = 0
      BY <3>1, <1>5
    <3>2. CASE h \in 1 .. MaxDepth
      <4>1. h # 0
        BY <3>2
      <4> QED BY <3>2, <4>1, <1>6
    <3> QED BY <3>1, <3>2, <1>1
  <2> QED BY <2>1, <2>2
<1> QED BY <1>7 DEF GetWay

(* Deep enough, the walk gets everything below the node once.               *)
GetRight(g, h, objects) ==
  \A k \in Linked(nodes) :
    /\ g[h] \in [Linked(nodes) -> Seq(Linked(nodes))]
    /\ Len(nodes[k].path) + h >= MaxDepth
         => ToSet(g[h][k]) = Picked(Under(nodes, k), objects) /\ IsInjective(g[h][k])

(* With h levels to go the walk gets everything below a node once, when no  *)
(* more than h levels are below it.                                         *)
LEMMA GetIs ==
  ASSUME Tree(nodes), NEW objects, NEW g, GetWay(g, objects)
  PROVE  \A h \in 0 .. MaxDepth : GetRight(g, h, objects)
<1> DEFINE L == Linked(nodes)
           T == {h \in Nat : h <= MaxDepth => GetRight(g, h, objects)}
<1>1. MaxDepth \in Nat
  BY TreeAssumption DEF TreeAssumption
<1>2. \A h \in 0 .. MaxDepth :
        g[h] = [k \in L |->
                  Self(k, objects) \o IF h = 0 THEN <<>> ELSE Concat(g[h - 1], nodes[k].child)]
  BY DEF GetWay
<1>3. 0 \in T
  <2>1. \A k \in L : g[0][k] = Self(k, objects) /\ Self(k, objects) \in Seq(L)
    <3>1. g[0] = [k \in L |-> Self(k, objects) \o <<>>]
      <4> DEFINE Here(h, k) == Self(k, objects) \o IF h = 0 THEN <<>> ELSE Concat(g[h - 1], nodes[k].child)
      <4>1. 0 \in 0 .. MaxDepth
        BY <1>1
      <4>2. g[0] = [k \in L |-> Here(0, k)]
        BY <1>2, <4>1, Zenon
      <4>3. \A k \in L : Here(0, k) = Self(k, objects) \o <<>>
        OBVIOUS
      <4> HIDE DEF Here
      <4> QED BY ONLY <4>2, <4>3
    <3>2. ASSUME NEW k \in L PROVE Self(k, objects) \in Seq(L) /\ Self(k, objects) \o <<>> = Self(k, objects)
      <4>1. PICK s, X : s = Self(k, objects) /\ X = L
        OBVIOUS
      <4>2. s \in Seq(X)
        BY <4>1, SelfIs
      <4>3. s \o <<>> = s
        BY <4>2
      <4> QED BY <4>1, <4>2, <4>3
    <3> QED BY <3>1, <3>2
  <2>2. g[0] \in [L -> Seq(L)]
    <3>1. g[0] = [k \in L |-> g[0][k]]
      <4> DEFINE Here(h, k) == Self(k, objects) \o IF h = 0 THEN <<>> ELSE Concat(g[h - 1], nodes[k].child)
      <4>1. 0 \in 0 .. MaxDepth
        BY <1>1
      <4>2. g[0] = [k \in L |-> Here(0, k)]
        BY <1>2, <4>1, Zenon
      <4> HIDE DEF Here
      <4> QED BY ONLY <4>2
    <3> QED BY <3>1, <2>1
  <2>4. ASSUME NEW k \in L, Len(nodes[k].path) + 0 >= MaxDepth
        PROVE  ToSet(g[0][k]) = Picked(Under(nodes, k), objects) /\ IsInjective(g[0][k])
    <3>1. Len(nodes[k].path) >= MaxDepth
      BY <2>4, <1>1, LevelIs
    <3>2. Under(nodes, k) = {k}
      BY <3>1, DeepestIs
    <3>3. \A x : x \in ToSet(g[0][k]) <=> x = k /\ (objects \/ nodes[k].leaf)
      BY <2>1, SelfIs
    <3>4. ToSet(g[0][k]) = Picked(Under(nodes, k), objects)
      BY <3>2, <3>3 DEF Picked
    <3> QED BY <3>4, <2>1, SelfIs
  <2> QED BY <2>2, <2>4 DEF GetRight
<1>4. ASSUME NEW h \in Nat, h \in T PROVE h + 1 \in T
  <2> SUFFICES ASSUME h + 1 <= MaxDepth PROVE GetRight(g, h + 1, objects)
    OBVIOUS
  <2>1. PICK m, f : m = h + 1 /\ f = g[h]
    OBVIOUS
  <2>2. m \in 0 .. MaxDepth /\ m # 0 /\ m - 1 = h /\ h \in 0 .. MaxDepth
    BY <2>1, <1>1
  <2>3. g[m] = [k \in L |-> GetStep(f, k, objects)]
    BY <2>1, <2>2, <1>2 DEF GetStep
  <2>4. GetRight(g, h, objects)
    BY <2>2, <1>4
  <2>5. f \in [L -> Seq(L)]
    <3>1. 0 \in L
      BY TreeLinked
    <3> QED BY <3>1, <2>1, <2>4 DEF GetRight
  <2>6. \A k \in L : GetStep(f, k, objects) \in Seq(L)
    BY <2>5, GetStepIs
  <2>7. g[m] \in [L -> Seq(L)]
    BY <2>3, <2>6
  <2>8. ASSUME NEW k \in L, Len(nodes[k].path) + m >= MaxDepth
        PROVE  ToSet(g[m][k]) = Picked(Under(nodes, k), objects) /\ IsInjective(g[m][k])
    <3>1. ASSUME NEW c \in ToSet(nodes[k].child)
          PROVE  ToSet(f[c]) = Picked(Under(nodes, c), objects) /\ IsInjective(f[c])
      <4>1. c \in L /\ Len(nodes[c].path) = Len(nodes[k].path) + 1 /\ Len(nodes[k].path) \in Nat
        BY LevelIs
      <4>2. Len(nodes[c].path) + h >= MaxDepth
        <5>1. PICK x, y : x = Len(nodes[k].path) /\ y = Len(nodes[c].path)
          OBVIOUS
        <5>2. x \in Nat /\ y = x + 1 /\ m = h + 1 /\ x + m >= MaxDepth
          BY <5>1, <4>1, <2>1, <2>8
        <5>3. y + h >= MaxDepth
          BY ONLY <5>2, <1>1, h \in Nat
        <5> QED BY <5>1, <5>3
      <4> QED BY <4>1, <4>2, <2>1, <2>4 DEF GetRight
    <3>2. ToSet(GetStep(f, k, objects)) = Picked(Under(nodes, k), objects)
          /\ IsInjective(GetStep(f, k, objects))
      BY <3>1, <2>5, GetStepIs
    <3> QED BY <3>2, <2>3
  <2> QED BY <2>1, <2>7, <2>8 DEF GetRight
<1>5. Nat \subseteq T
  <2> HIDE DEF T
  <2> QED BY <1>3, <1>4, Induction
<1> QED BY <1>1, <1>5

(* recursive_get gets what is below the node, and the node, once each.      *)
LEMMA GetAllIs ==
  ASSUME Tree(nodes), NEW i \in Linked(nodes), NEW objects
  PROVE  /\ ToSet(GetAll(i, objects)) = Picked(Under(nodes, i), objects)
         /\ IsInjective(GetAll(i, objects))
<1> DEFINE G == CHOOSE g : GetWay(g, objects)
<1>1. GetWay(G, objects)
  BY GetWayIs, Zenon
<1>2. PICK g : g = G
  OBVIOUS
<1>3. PICK s : s = g[MaxDepth][i]
  OBVIOUS
<1>4. GetAll(i, objects) = s
  <2>1. s = G[MaxDepth][i]
    BY <1>2, <1>3
  <2> QED BY <2>1 DEF GetAll, GetWay
<1>5. MaxDepth \in Nat /\ MaxDepth \in 0 .. MaxDepth
  BY TreeAssumption DEF TreeAssumption
<1>6. GetRight(g, MaxDepth, objects)
  BY <1>1, <1>2, <1>5, GetIs
<1>7. Len(nodes[i].path) + MaxDepth >= MaxDepth
  BY <1>5, LevelIs
<1>8. ToSet(s) = Picked(Under(nodes, i), objects) /\ IsInjective(s)
  BY <1>3, <1>6, <1>7 DEF GetRight
<1> QED BY <1>4, <1>8

(* The list that recursive_get makes of an object has every parameter whose *)
(* name begins with the object, once each, and no other.                    *)
THEOREM ListsCorrect == Spec => []ListsComplete
<1>1. ASSUME TreeOK PROVE ListsComplete
  <2> SUFFICES ASSUME InPlace, NEW p \in Objects, FindNode(p, FALSE) # Nowhere
               PROVE  /\ ToSet(GetParam(p, FALSE, FALSE, FALSE))
                           = {x \in Leaves(nodes) : IsStrictPrefix(p, nodes[x].path)}
                      /\ IsInjective(GetParam(p, FALSE, FALSE, FALSE))
    BY DEF ListsComplete
  <2>1. Tree(nodes) /\ p \in Seq(Comp) /\ Len(p) >= 1
    BY <1>1, SoundNow, NameIsSeq
  <2>2. PICK i : i = FindNode(p, FALSE)
    OBVIOUS
  <2>3. i \in Linked(nodes) /\ Is(nodes[i], p, FALSE)
    BY <2>1, <2>2, Found
  <2>4. GetParam(p, FALSE, FALSE, FALSE) = GetAll(i, FALSE)
    BY <2>2 DEF GetParam
  <2>5. ToSet(GetAll(i, FALSE)) = Picked(Under(nodes, i), FALSE) /\ IsInjective(GetAll(i, FALSE))
    BY <2>1, <2>3, GetAllIs
  <2>6. \A x : x \in Picked(Under(nodes, i), FALSE)
               <=> x \in Leaves(nodes) /\ x \in Under(nodes, i)
    <3>1. Under(nodes, i) \subseteq Linked(nodes)
      BY <2>1, <2>3, UnderLevels
    <3> QED BY <3>1 DEF Picked, Leaves
  <2>7. \A x \in Leaves(nodes) : x \in Under(nodes, i) <=> IsStrictPrefix(p, nodes[x].path)
    BY <2>1, <2>3, UnderPaths
  <2>8. Picked(Under(nodes, i), FALSE)
          = {x \in Leaves(nodes) : IsStrictPrefix(p, nodes[x].path)}
    BY ONLY <2>6, <2>7
  <2> QED BY <2>4, <2>5, <2>8
<1> QED BY <1>1, TreeAlways, PTL

(* remove_param takes out the parameters below the name, and no other: its  *)
(* unlinking and recursive_remove agree on what is below.                   *)
THEOREM RemovesCorrect == Spec => RemovesBelow
<1>1. ASSUME TreeOK, NEW p \in Names \cup Objects, NEW leaf \in BOOLEAN, RemoveParam(p, leaf), InPlace
      PROVE  Paths' = Paths \ Below(p, leaf)
  <2>1. Tree(nodes) /\ p \in Seq(Comp) /\ Len(p) >= 1
    BY <1>1, SoundNow, NameIsSeq
  <2>2. PICK i, c, t : i = FindNode(p, leaf) /\ c = Removed(i) /\ t = nodes'
    OBVIOUS
  <2>3. /\ i \in Linked(nodes) /\ Is(nodes[i], p, leaf)
        /\ RemovedFrom(c, i) /\ t = c.nodes
    BY <2>2, <1>1, RemovedOf DEF RemoveParam, Becomes
  <2>4. /\ Linked(t) = Linked(nodes) \ Under(nodes, i)
        /\ \A j \in Linked(t) : t[j].path = nodes[j].path /\ t[j].leaf = nodes[j].leaf
    BY <2>3 DEF RemovedFrom
  <2>5. Paths' = {nodes[x].path : x \in Leaves(nodes) \ Under(nodes, i)}
    <3>1. Paths' = {t[x].path : x \in {y \in Linked(t) : t[y].leaf}}
      BY <2>2 DEF Paths, Leaves
    <3>2. {y \in Linked(t) : t[y].leaf} = Leaves(nodes) \ Under(nodes, i)
      BY <2>4 DEF Leaves
    <3>3. \A x \in Leaves(nodes) \ Under(nodes, i) : t[x].path = nodes[x].path
      BY <2>4 DEF Leaves
    <3> QED BY <3>1, <3>2, <3>3
  <2>6. \A x \in Leaves(nodes) : x \in Under(nodes, i) <=> nodes[x].path \in Below(p, leaf)
    <3> SUFFICES ASSUME NEW x \in Leaves(nodes)
                 PROVE  x \in Under(nodes, i) <=> nodes[x].path \in Below(p, leaf)
      OBVIOUS
    <3>0. x \in Linked(nodes) /\ nodes[x].leaf = TRUE /\ nodes[x].path \in Names
      <4>1. x \in Linked(nodes) /\ nodes[x].leaf
        BY DEF Leaves
      <4>2. nodes[x].leaf \in BOOLEAN
        BY <4>1, <2>1, TreeLinked DEF NodeType
      <4> QED BY <4>1, <4>2, <2>1 DEF Tree, Shape, LeavesNamed
    <3>1. CASE leaf = TRUE
      <4>1. nodes[i].path = p /\ nodes[i].leaf = TRUE
        BY <2>3, <3>1 DEF Is
      <4>2. i \in Leaves(nodes)
        BY <2>3, <4>1 DEF Leaves
      <4>3. Under(nodes, i) = {i}
        BY <4>2, <2>1, <1>1, UnderLeaf
      <4>4. x = i <=> nodes[x].path = p
        BY <4>1, <3>0, <2>1, <2>3, NodeOnce
      <4>5. Below(p, leaf) = {p}
        BY <3>1 DEF Below
      <4> QED BY <4>3, <4>4, <4>5
    <3>2. CASE leaf = FALSE
      <4>1. x \in Under(nodes, i) <=> IsStrictPrefix(p, nodes[x].path)
        BY <3>2, <2>1, <2>3, <1>1, UnderPaths
      <4>2. Below(p, leaf) = {q \in Names : IsStrictPrefix(p, q)}
        BY <3>2 DEF Below
      <4> QED BY <4>1, <4>2, <3>0
    <3> QED BY <3>1, <3>2
  <2>7. Paths = {nodes[x].path : x \in Leaves(nodes)}
    BY DEF Paths
  <2>8. \A q : q \in Paths' <=> q \in Paths /\ q \notin Below(p, leaf)
    BY ONLY <2>5, <2>6, <2>7
  <2> QED BY <2>8
<1>2. TreeOK /\ [Next]_vars
        => [\A p \in Names \cup Objects : \A leaf \in BOOLEAN :
              RemoveParam(p, leaf) /\ InPlace => Paths' = Paths \ Below(p, leaf)]_vars
  BY <1>1
<1> QED BY <1>2, TreeAlways, PTL DEF Spec, RemovesBelow
-----------------------------------------------------------------------------
(* The ids of parameters.                                                   *)

(* The stack of ids, param_number and param_table agree after every call of *)
(* add_param, remove_param and uninit, however many nodes it made or freed. *)
THEOREM IdsCorrect == Spec => []IdsInv
<1>1. TreeOK => IdsInv
  BY DEF TreeOK
<1> QED BY <1>1, TreeAlways, PTL

(* The id of every node is an index of param_table.                         *)
THEOREM IdsStayInTable == Spec => []IdsInTable(DOMAIN nodes \ {0})
<1>1. IdsInv => IdsInTable(DOMAIN nodes \ {0})
  BY DEF IdsInv, IdsRight
<1> QED BY <1>1, IdsCorrect, PTL

(* param_number, the limit that add_param checks, counts the entries of     *)
(* param_table, those included that leaked when the stack was full.         *)
THEOREM NumberIsRight == Spec => []NumberCounts(DOMAIN nodes \ {0}, number)
<1>1. IdsInv => NumberCounts(DOMAIN nodes \ {0}, number)
  BY DEF IdsInv, IdsRight
<1> QED BY <1>1, IdsCorrect, PTL
-----------------------------------------------------------------------------
(* The ring of tasks.                                                      *)

USE RingAssumption

(* One step further in the ring is one more, or back at the first slot:     *)
(* what `(i + 1) % TR069_MAX_TASK_NUM` computes.                            *)
LEMMA SuccIs ==
  ASSUME NEW i \in Slot
  PROVE  /\ Succ(i) \in Slot
         /\ Succ(i) = IF i = Size - 1 THEN 0 ELSE i + 1
BY DEF Slot, Succ

(* head, tail and every slot stay in their ranges whatever is put, picked   *)
(* or cleared: no access falls outside the array.                           *)
THEOREM RingTypeCorrect == RingSpec => []RingTypeOK
<1>1. RingInit => RingTypeOK
  BY DEF RingInit, RingTypeOK, Slot
<1>2. RingTypeOK /\ [RingNext]_ringVars => RingTypeOK'
  <2> SUFFICES ASSUME RingTypeOK, [RingNext]_ringVars PROVE RingTypeOK'
    OBVIOUS
  <2>1. ASSUME NEW t \in Task, PutTask(t) PROVE RingTypeOK'
    <3>1. Succ(tail) \in Slot
      BY SuccIs DEF RingTypeOK
    <3> QED BY <2>1, <3>1 DEF PutTask, RingTypeOK
  <2>2. ASSUME NEW t \in Task, PutTaskFull(t) PROVE RingTypeOK'
    BY <2>2 DEF PutTaskFull, RingTypeOK
  <2>3. CASE PickTask
    <3>1. Succ(head) \in Slot
      BY SuccIs DEF RingTypeOK
    <3> QED BY <2>3, <3>1 DEF PickTask, RingTypeOK
  <2>4. CASE PickTaskEmpty
    BY <2>4 DEF PickTaskEmpty, RingTypeOK
  <2>5. CASE ClearTask
    BY <2>5 DEF ClearTask, RingTypeOK, Slot
  <2>6. CASE UNCHANGED ringVars
    BY <2>6 DEF ringVars, RingTypeOK
  <2> QED BY <2>1, <2>2, <2>3, <2>4, <2>5, <2>6 DEF RingNext
<1> QED BY <1>1, <1>2, PTL DEF RingSpec
-----------------------------------------------------------------------------
(* The contents are a sequence of tasks of at most Size - 1 elements, and   *)
(* its i-th element is in the slot i - 1 after head.                        *)
ContentsAre == /\ Count \in 0 .. Size - 1
               /\ \A i \in 1 .. Count : Nth(i) \in Slot
               /\ Contents \in Seq(Task)
               /\ Len(Contents) = Count
               /\ \A i \in 1 .. Count : Contents[i] = queue[Nth(i)]

(* ... and so they are in every state of the ring.                          *)
LEMMA ContentsIs == RingTypeOK => ContentsAre
<1> SUFFICES ASSUME RingTypeOK PROVE ContentsAre
  OBVIOUS
<1>1. Count \in 0 .. Size - 1
  BY DEF RingTypeOK, Count, Slot
<1>2. \A i \in 1 .. Count : Nth(i) \in Slot
  BY DEF RingTypeOK, Count, Nth, Slot
<1>3. \A i \in 1 .. Count : queue[Nth(i)] \in Task
  BY <1>2 DEF RingTypeOK
<1>4. Contents \in [1 .. Count -> Task]
  BY <1>3 DEF Contents
<1>5. Contents \in Seq(Task) /\ Len(Contents) = Count
  BY <1>1, <1>4
<1> QED BY <1>1, <1>2, <1>5 DEF ContentsAre, Contents

(* Full by the test of put_task means Size - 1 tasks, and empty by the test *)
(* of pick_task means none.                                                 *)
LEMMA FullAndEmpty ==
  ASSUME RingTypeOK
  PROVE  /\ Succ(tail) = head <=> Count = Size - 1
         /\ tail = head <=> Count = 0
<1>1. Succ(tail) = IF tail = Size - 1 THEN 0 ELSE tail + 1
  BY SuccIs DEF RingTypeOK
<1> QED BY <1>1 DEF RingTypeOK, Count, Slot

(* A put into a ring that is not full appends.                              *)
LEMMA PutAppends ==
  ASSUME RingTypeOK, RingTypeOK', NEW t \in Task, PutTask(t)
  PROVE  Contents' = Append(Contents, t)
<1>1. /\ tail' = IF tail = Size - 1 THEN 0 ELSE tail + 1
      /\ head' = head
      /\ queue' = [queue EXCEPT ![tail] = t]
      /\ tail' # head
  BY SuccIs DEF PutTask, RingTypeOK
<1>2. Count' = Count + 1
  BY <1>1 DEF RingTypeOK, Count, Slot
<1>3. Nth(Count + 1) = tail
  BY DEF RingTypeOK, Count, Nth, Slot
<1>4. \A i \in 1 .. Count : Nth(i) # tail
  BY DEF RingTypeOK, Count, Nth, Slot
<1>5. \A i \in 1 .. Count + 1 : Nth(i)' = Nth(i)
  BY <1>1 DEF Nth
<1>6. \A i \in 1 .. Count : queue'[Nth(i)] = queue[Nth(i)]
  BY <1>1, <1>4, ContentsIs DEF RingTypeOK, ContentsAre
<1>7. queue'[tail] = t
  BY <1>1 DEF RingTypeOK
<1>8. /\ Contents' \in Seq(Task) /\ Len(Contents') = Count + 1
      /\ \A i \in 1 .. Count + 1 : Contents'[i] = queue'[Nth(i)]
  <2>1. ContentsAre'
    BY ContentsIs, PTL
  <2> QED BY <2>1, <1>2, <1>5 DEF ContentsAre
<1>9. /\ Contents \in Seq(Task) /\ Len(Contents) = Count
      /\ \A i \in 1 .. Count : Contents[i] = queue[Nth(i)]
      /\ Count \in Nat
  BY ContentsIs DEF ContentsAre
<1>10. \A i \in 1 .. Count + 1 : Contents'[i] = Append(Contents, t)[i]
  BY <1>3, <1>6, <1>7, <1>8, <1>9
<1>11. Append(Contents, t) \in Seq(Task) /\ Len(Append(Contents, t)) = Count + 1
  BY <1>9
<1> QED BY <1>8, <1>10, <1>11, SeqEqual

(* A pick from a ring that is not empty takes the first.                    *)
LEMMA PickTakesFirst ==
  ASSUME RingTypeOK, RingTypeOK', PickTask
  PROVE  /\ Contents # <<>>
         /\ result' = Head(Contents)
         /\ Contents' = Tail(Contents)
<1>1. /\ head' = IF head = Size - 1 THEN 0 ELSE head + 1
      /\ tail' = tail /\ queue' = queue
      /\ tail # head
      /\ result' = queue[head]
  BY SuccIs DEF PickTask, RingTypeOK
<1>2. Count' = Count - 1 /\ Count > 0
  BY <1>1 DEF RingTypeOK, Count, Slot
<1>3. Nth(1) = head
  BY DEF RingTypeOK, Nth, Slot
<1>4. \A i \in 1 .. Count - 1 : Nth(i)' = Nth(i + 1)
  BY <1>1 DEF RingTypeOK, Nth, Count, Slot
<1>5. /\ Contents' \in Seq(Task) /\ Len(Contents') = Count - 1
      /\ \A i \in 1 .. Count - 1 : Contents'[i] = queue[Nth(i + 1)]
  <2>1. ContentsAre'
    BY ContentsIs, PTL
  <2> QED BY <2>1, <1>1, <1>2, <1>4 DEF ContentsAre
<1>6. /\ Contents \in Seq(Task) /\ Len(Contents) = Count
      /\ \A i \in 1 .. Count : Contents[i] = queue[Nth(i)]
      /\ Count \in Nat
  BY ContentsIs DEF ContentsAre
<1>7. Contents # <<>> /\ Head(Contents) = queue[head]
  BY <1>2, <1>3, <1>6
<1>8. /\ Tail(Contents) \in Seq(Task) /\ Len(Tail(Contents)) = Count - 1
      /\ \A i \in 1 .. Count - 1 : Tail(Contents)[i] = Contents[i + 1]
  BY <1>6, <1>7, HeadTailProperties
<1>9. \A i \in 1 .. Count - 1 : Contents'[i] = Tail(Contents)[i]
  BY <1>2, <1>5, <1>6, <1>8
<1> QED BY <1>1, <1>5, <1>7, <1>8, <1>9, SeqEqual

(* An empty ring has empty contents.                                        *)
LEMMA EmptyContents == RingTypeOK /\ Count = 0 => Contents = <<>>
BY ContentsIs, EmptySeq, SeqEqual DEF ContentsAre

(* The ring is a first-in first-out queue of Size - 1 places: every call of *)
(* put, pick and clear on the array is the call of the same name on a list. *)
THEOREM RingIsFifo == RingSpec => ImplementsFifo
<1>1. RingInit => Abs!Init
  <2> SUFFICES ASSUME RingInit PROVE Abs!Init
    OBVIOUS
  <2>1. RingTypeOK
    BY DEF RingInit, RingTypeOK, Slot
  <2>2. Count = 0
    BY DEF RingInit, Count
  <2> QED BY <2>1, <2>2, EmptyContents DEF RingInit, Abs!Init
<1>2. RingTypeOK /\ RingTypeOK' /\ [RingNext]_ringVars => [Abs!Next]_(Abs!vars)
  <2> SUFFICES ASSUME RingTypeOK, RingTypeOK', [RingNext]_ringVars PROVE [Abs!Next]_(Abs!vars)
    OBVIOUS
  <2>1. ASSUME NEW t \in Task, PutTask(t) PROVE Abs!Put(t)
    <3>1. Len(Contents) < Size - 1
      BY <2>1, FullAndEmpty, ContentsIs DEF PutTask, ContentsAre
    <3> QED BY <2>1, <3>1, PutAppends DEF PutTask, Abs!Put
  <2>2. ASSUME NEW t \in Task, PutTaskFull(t) PROVE Abs!Refuse(t)
    <3>1. Len(Contents) = Size - 1
      BY <2>2, FullAndEmpty, ContentsIs DEF PutTaskFull, ContentsAre
    <3>2. Contents' = Contents
      BY <2>2 DEF PutTaskFull, Contents, Count, Nth
    <3> QED BY <2>2, <3>1, <3>2 DEF PutTaskFull, Abs!Refuse
  <2>3. ASSUME PickTask PROVE Abs!Pick
    BY <2>3, PickTakesFirst DEF PickTask, Abs!Pick
  <2>4. ASSUME PickTaskEmpty PROVE Abs!PickEmpty
    <3>1. Contents = <<>>
      BY <2>4, FullAndEmpty, EmptyContents DEF PickTaskEmpty
    <3>2. Contents' = Contents
      BY <2>4 DEF PickTaskEmpty, Contents, Count, Nth
    <3> QED BY <2>4, <3>1, <3>2 DEF PickTaskEmpty, Abs!PickEmpty
  <2>5. ASSUME ClearTask PROVE Abs!Clear
    <3>1. Count' = 0
      BY <2>5 DEF ClearTask, Count
    <3>2. (RingTypeOK /\ Count = 0)' => (Contents = <<>>)'
      BY EmptyContents, PTL
    <3> QED BY <2>5, <3>1, <3>2 DEF ClearTask, Abs!Clear
  <2>6. CASE UNCHANGED ringVars
    BY <2>6 DEF ringVars, Abs!vars, Contents, Count, Nth
  <2> QED BY <2>1, <2>2, <2>3, <2>4, <2>5, <2>6 DEF RingNext, Abs!Next
<1> QED BY <1>1, <1>2, RingTypeCorrect, PTL DEF RingSpec, ImplementsFifo, Abs!Spec
=============================================================================
