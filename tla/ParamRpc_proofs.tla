------------------------- MODULE ParamRpc_proofs -------------------------
(***************************************************************************)
(* Theorems about the RPCs on parameters, for any parameters, keys, values *)
(* and lists of any length.  What a list does is a fold, taken apart here  *)
(* into its steps: an induction by the least natural number that fails.    *)
(***************************************************************************)
EXTENDS ParamRpc, WellFoundedInduction, TLAPS

-----------------------------------------------------------------------------
(* Natural numbers.                                                         *)

(* A set of natural numbers that is not empty has a least element.          *)
LEMMA Least ==
  ASSUME NEW S \in SUBSET Nat, S # {}
  PROVE  \E m \in S : \A n \in S : m <= n
<1> DEFINE R == OpToRel(<, Nat)
<1>1. IsWellFoundedOn(R, Nat)
  BY NatLessThanWellFounded
<1>2. \A x, y \in Nat : x < y <=> <<x, y>> \in R
  BY DEF OpToRel
<1> HIDE DEF R
<1>3. PICK x \in S : \A y \in S : ~ (<<y, x>> \in R)
  BY <1>1, WFMin
<1>4. ASSUME NEW y \in S PROVE x <= y
  <2>1. ~ (y < x)
    BY <1>2, <1>3
  <2> QED BY <2>1
<1> QED BY <1>4

(* What holds for 0 and for the successor of each n holds for all.          *)
LEMMA Induction ==
  ASSUME NEW S, 0 \in S, \A n \in Nat : n \in S => n + 1 \in S
  PROVE  Nat \subseteq S
<1> SUFFICES ASSUME Nat \ S # {} PROVE FALSE
  OBVIOUS
<1>1. PICK m \in Nat \ S : \A n \in Nat \ S : m <= n
  BY Least
<1>2. m - 1 \in Nat \ S
  BY <1>1
<1> QED BY <1>1, <1>2

LEMMA MaxOf ==
  ASSUME NEW k \in Nat, NEW s \in SUBSET (1 .. k + 1), k + 1 \in s
  PROVE  Max(s) = k + 1
<1>1. \A y \in s : k + 1 >= y
  OBVIOUS
<1>2. Max(s) \in s /\ \A y \in s : Max(s) >= y
  BY <1>1 DEF Max
<1>3. Max(s) \in 1 .. k + 1 /\ Max(s) >= k + 1
  BY <1>2
<1> QED BY <1>3

LEMMA MaxIn ==
  ASSUME NEW n \in Nat, NEW s \in SUBSET (1 .. n), s # {}
  PROVE  Max(s) \in s
<1> DEFINE below == {n - x : x \in s}
<1>1. below \in SUBSET Nat /\ below # {}
  <2>1. \A x \in s : n - x \in Nat /\ n - x \in below
    OBVIOUS
  <2> QED BY <2>1
<1>2. PICK m \in below : \A y \in below : m <= y
  BY <1>1, Least
<1>3. PICK x \in s : m = n - x
  OBVIOUS
<1>4. \A y \in s : n - x <= n - y
  BY <1>2, <1>3
<1>5. \A y \in s : x >= y
  BY <1>4
<1> QED BY <1>5 DEF Max

LEMMA Prefix ==
  ASSUME NEW k \in Nat, k > 0
  PROVE  1 .. k # {} /\ Max(1 .. k) = k /\ (1 .. k) \ {k} = 1 .. k - 1
<1>1. 1 .. k \in SUBSET (1 .. (k - 1) + 1) /\ (k - 1) + 1 \in 1 .. k /\ k - 1 \in Nat
  OBVIOUS
<1>2. Max(1 .. k) = (k - 1) + 1
  BY <1>1, MaxOf
<1> QED BY <1>2

LEMMA MinOf ==
  ASSUME NEW S \in SUBSET Nat, S # {}
  PROVE  Min(S) \in S
<1>1. PICK m \in S : \A n \in S : m <= n
  BY Least
<1> QED BY <1>1 DEF Min

-----------------------------------------------------------------------------
(* Folds.  The function a fold goes through, over sets of positions.        *)

(* There is a function that takes each set of positions to the steps of     *)
(* those positions, in order, from base.                                    *)
Folds(f, n, S, base, step) ==
  \A s \in SUBSET (1 .. n) :
    /\ f[s] \in S
    /\ f[s] = IF s = {} THEN base ELSE step[<<f[s \ {Max(s)}], Max(s)>>]

LEMMA FoldSteps ==
  ASSUME NEW n \in Nat, NEW S, NEW base \in S, NEW step \in [S \X (1 .. n) -> S]
  PROVE  \E f : Folds(f, n, S, base, step)
<1> DEFINE Sub(k) == SUBSET (1 .. k)
           Rec(f, k) == Folds(f, k, S, base, step)
           T == {k \in Nat : k <= n => \E f : Rec(f, k)}
<1>1. 0 \in T
  <2> DEFINE f == [s \in Sub(0) |-> base]
  <2>1. \A s \in Sub(0) : s = {}
    OBVIOUS
  <2>2. Rec(f, 0)
    BY <2>1 DEF Folds, Sub
  <2> HIDE DEF f, Rec
  <2> QED BY <2>2
<1>2. \A k \in Nat : k \in T => k + 1 \in T
  <2> SUFFICES ASSUME NEW k \in Nat, NEW f, Rec(f, k), k + 1 <= n
               PROVE  \E h : Rec(h, k + 1)
    <3> HIDE DEF Rec
    <3> QED OBVIOUS
  <2> DEFINE h == [s \in Sub(k + 1) |->
                     IF k + 1 \in s THEN step[<<f[s \ {k + 1}], k + 1>>] ELSE f[s]]
  <2>1. 1 .. k + 1 = (1 .. k) \cup {k + 1}
    OBVIOUS
  <2>2. \A s \in Sub(k + 1) : \A m : s \ {k + 1} \in Sub(k) /\ s \ {m} \in Sub(k + 1)
    BY <2>1
  <2>3. \A s \in Sub(k + 1) : \A m : k + 1 \notin s => s \in Sub(k) /\ s \ {m} \in Sub(k)
    BY <2>1
  <2>4. \A s \in Sub(k + 1) : k + 1 \in s => Max(s) = k + 1 /\ s # {}
    BY MaxOf
  <2>5. k + 1 \in 1 .. n
    OBVIOUS
  <2> HIDE DEF Sub
  <2>6. ASSUME NEW s \in Sub(k + 1)
        PROVE  /\ h[s] \in S
               /\ h[s] = IF s = {} THEN base ELSE step[<<h[s \ {Max(s)}], Max(s)>>]
    <3>1. CASE k + 1 \in s
      <4>1. Max(s) = k + 1 /\ s # {}
        BY <3>1, <2>4
      <4>2. h[s \ {k + 1}] = f[s \ {k + 1}]
        BY <2>2, <2>3
      <4>3. h[s] = step[<<f[s \ {k + 1}], k + 1>>]
        BY <3>1
      <4>4. f[s \ {k + 1}] \in S
        BY <2>2 DEF Folds, Sub
      <4> HIDE DEF h
      <4> QED BY <2>5, <4>1, <4>2, <4>3, <4>4
    <3>2. CASE k + 1 \notin s
      <4>1. s \in Sub(k) /\ h[s] = f[s]
        BY <2>3, <3>2
      <4>2. h[s \ {Max(s)}] = f[s \ {Max(s)}]
        BY <3>2, <2>2
      <4>3. /\ f[s] \in S
            /\ f[s] = IF s = {} THEN base ELSE step[<<f[s \ {Max(s)}], Max(s)>>]
        BY <4>1 DEF Folds, Sub
      <4> HIDE DEF h
      <4> QED BY <4>1, <4>2, <4>3
    <3> QED BY <3>1, <3>2
  <2>7. Rec(h, k + 1)
    BY <2>6 DEF Folds, Sub
  <2> HIDE DEF h, Rec
  <2> QED BY <2>7
<1> HIDE DEF Rec
<1>3. n \in T
  <2> HIDE DEF T
  <2> QED BY <1>1, <1>2, Induction
<1>4. PICK f : Rec(f, n)
  BY <1>3
<1>5. Folds(f, n, S, base, step)
  BY <1>4 DEF Rec
<1> HIDE DEF Sub, T
<1> QED BY <1>5, Zenon

(* Such a function, where a step is known for what is in S only, and what   *)
(* it is at the sets of the first positions.                                *)
Follows(f, n, S, base, step) ==
  /\ n \in Nat /\ base \in S /\ step \in [S \X (1 .. n) -> S]
  /\ f[{}] = base
  /\ \A s \in SUBSET (1 .. n) : s # {} /\ f[s \ {Max(s)}] \in S =>
       f[s] = step[<<f[s \ {Max(s)}], Max(s)>>]

Traces(f, n, S, base, step) ==
  /\ f[1 .. 0] = base
  /\ \A k \in 0 .. n : f[1 .. k] \in S
  /\ \A k \in 1 .. n : f[1 .. k] = step[<<f[1 .. k - 1], k>>]

LEMMA FoldTrace ==
  ASSUME NEW f, NEW n, NEW S, NEW base, NEW step, Follows(f, n, S, base, step)
  PROVE  Traces(f, n, S, base, step)
<1> USE DEF Follows
<1>1. f[1 .. 0] = base
  <2>1. 1 .. 0 = {}
    OBVIOUS
  <2> QED BY <2>1
<1>2. ASSUME NEW k \in 1 .. n, f[1 .. k - 1] \in S
      PROVE  f[1 .. k] = step[<<f[1 .. k - 1], k>>] /\ f[1 .. k] \in S
  <2>1. 1 .. k # {} /\ Max(1 .. k) = k /\ (1 .. k) \ {k} = 1 .. k - 1
    <3>1. k \in Nat /\ k > 0
      OBVIOUS
    <3> QED BY <3>1, Prefix
  <2>2. 1 .. k \in SUBSET (1 .. n)
    OBVIOUS
  <2>3. f[1 .. k] = step[<<f[1 .. k - 1], k>>]
    <3>1. f[(1 .. k) \ {Max(1 .. k)}] \in S
      BY <1>2, <2>1
    <3> QED BY <2>1, <2>2, <3>1
  <2> QED BY <1>2, <2>3
<1> DEFINE T == {k \in Nat : k <= n => f[1 .. k] \in S}
<1>3. 0 \in T
  BY <1>1
<1>4. ASSUME NEW k \in Nat, k \in T PROVE k + 1 \in T
  <2> SUFFICES ASSUME k + 1 <= n PROVE f[1 .. k + 1] \in S
    OBVIOUS
  <2>1. k + 1 \in 1 .. n /\ (k + 1) - 1 = k /\ f[1 .. k] \in S
    BY <1>4
  <2> QED BY <1>2, <2>1
<1>5. Nat \subseteq T
  <2> HIDE DEF T
  <2> QED BY <1>3, <1>4, Induction
<1>6. \A k \in 0 .. n : f[1 .. k] \in S
  BY <1>5
<1>7. \A k \in 1 .. n : k - 1 \in 0 .. n
  OBVIOUS
<1> QED BY <1>1, <1>2, <1>6, <1>7 DEF Traces

-----------------------------------------------------------------------------
(* What tr069_set_config does to a box.                                     *)

Restarts == {"heartbeat", "logmsg", "sqm"}

Boxes == [conf : [Key -> Val], mem : [InMemory -> Val], setFlag : BOOLEAN,
          effects : SUBSET Restarts]

LEMMA KeyOfEach ==
  ASSUME NEW p
  PROVE  ConfigKey(p) \in Key \ {"LocalManageServerUrl"}
BY RpcAssumption, PlaceAssumption DEF ConfigKey, RpcAssumption, PlaceAssumption

LEMMA WriteType ==
  ASSUME NEW b \in Boxes, NEW k \in Key, NEW v \in Val,
         NEW effect \in SUBSET Restarts
  PROVE  /\ Write(b, k, v, effect) \in Boxes
         /\ Write(b, k, v, effect).conf = CfgSetConfig(b.conf, k, v)
         /\ Write(b, k, v, effect).mem = b.mem
         /\ Write(b, k, v, effect).setFlag
         /\ Write(b, k, v, effect).effects = b.effects \cup effect
<1>1. b.conf \in [Key -> Val]
  BY DEF Boxes
<1>2. CfgSetConfig(b.conf, k, v) \in [Key -> Val]
  BY <1>1 DEF CfgSetConfig
<1>3. PICK c \in [Key -> Val] : c = CfgSetConfig(b.conf, k, v)
  BY <1>2
<1>4. Write(b, k, v, effect) = [b EXCEPT !.conf = c, !.setFlag = TRUE,
                                         !.effects = b.effects \cup effect]
  BY <1>3 DEF Write, Boxes
<1> QED BY <1>3, <1>4 DEF Boxes

(* What does not fit changes nothing, what fits changes its key.            *)
LEMMA CfgSets ==
  ASSUME NEW conf \in [Key -> Val], NEW k \in Key, NEW v \in Val
  PROVE  /\ \A r \in Key \ {k} : CfgSetConfig(conf, k, v)[r] = conf[r]
         /\ v \in Fits[k] => CfgSetConfig(conf, k, v)[k] = v
         /\ v \notin Fits[k] => CfgSetConfig(conf, k, v) = conf
BY DEF CfgSetConfig

(* A value goes into memory, under the key of its own, or under the key it  *)
(* is read from unless it is there already.                                 *)
Stored(s, b, p, v) ==
  \/ p \in InMemory /\ s = [b EXCEPT !.mem[p] = Cut[v]]
  \/ p \in DOMAIN Configured /\ s = Write(b, Configured[p], v, {})
  \/ p \notin InMemory \cup DOMAIN Configured /\ s = b /\ GetConfig(b, p) = v
  \/ /\ p \notin InMemory \cup DOMAIN Configured
     /\ s = Write(b, ConfigKey(p), v, Effect(p))

LEMMA SetConfigStores ==
  ASSUME NEW b, NEW p, NEW v
  PROVE  Stored(SetConfig(b, p, v), b, p, v)
<1>1. InMemory \cap DOMAIN Configured = {}
  BY PlaceAssumption DEF PlaceAssumption
<1>2. CASE p \in InMemory
  BY <1>1, <1>2 DEF SetConfig, Stored
<1>3. CASE p \in DOMAIN Configured
  BY <1>1, <1>3 DEF SetConfig, Stored
<1>4. CASE p \notin InMemory \cup DOMAIN Configured
  BY <1>4 DEF SetConfig, Stored
<1> QED BY <1>2, <1>3, <1>4

LEMMA EffectType ==
  ASSUME NEW p PROVE Effect(p) \in SUBSET Restarts
BY DEF Effect, Restarts

LEMMA StoredType ==
  ASSUME NEW b \in Boxes, NEW p, NEW v \in Val, NEW s, Stored(s, b, p, v)
  PROVE  s \in Boxes
<1>1. CASE p \in InMemory /\ s = [b EXCEPT !.mem[p] = Cut[v]]
  <2>1. Cut[v] \in Val
    BY BufferAssumption DEF BufferAssumption
  <2> QED BY <1>1, <2>1 DEF Boxes
<1>2. CASE p \in DOMAIN Configured /\ s = Write(b, Configured[p], v, {})
  <2>1. Configured[p] \in Key
    BY <1>2, PlaceAssumption DEF PlaceAssumption
  <2> QED BY <1>2, <2>1, WriteType
<1>3. CASE s = Write(b, ConfigKey(p), v, Effect(p))
  BY <1>3, KeyOfEach, WriteType, EffectType
<1> QED BY <1>1, <1>2, <1>3 DEF Stored

LEMMA SetConfigType ==
  ASSUME NEW b \in Boxes, NEW p, NEW v \in Val
  PROVE  SetConfig(b, p, v) \in Boxes
BY SetConfigStores, StoredType

LEMMA SetEntryType ==
  ASSUME NEW b \in Boxes, NEW e \in Entry(Val)
  PROVE  SetEntry(b, e, SetConfig) \in Boxes
<1>1. e.value \in Seq(Val) /\ Len(e.value) >= 1
  BY DEF Entry
<1>2. e.value[1] \in Val
  BY <1>1
<1>3. Len(e.value) = 2 => e.value[2] \in Val
  BY <1>1
<1>4. SetConfig(b, e.name, e.value[1]) \in Boxes
  BY <1>2, SetConfigType
<1>5. PICK s : s = IF Len(e.value) = 2 THEN SetConfig(b, "DNSServer1Real", e.value[2]) ELSE b
  OBVIOUS
<1>6. s \in Boxes
  BY <1>3, <1>5, SetConfigType
<1>7. SetConfig(s, "DNSServer0Real", e.value[1]) \in Boxes
  BY <1>2, <1>6, SetConfigType
<1> QED BY <1>4, <1>5, <1>7 DEF SetEntry

(* The boxes that the second pass over a list goes through.                 *)
Unrestarted == [box EXCEPT !.effects = {}]

SetSteps(g, list) ==
  /\ g[0] = Unrestarted
  /\ \A k \in 0 .. Len(list) : g[k] \in Boxes
  /\ \A k \in 1 .. Len(list) : g[k] = SetEntry(g[k - 1], list[k], SetConfig)
  /\ SetAll(list) = g[Len(list)]

IsBoxFold(f, list) ==
  f = [s \in SUBSET (1 .. Len(list)) |->
         IF s = {} THEN Unrestarted ELSE SetEntry(f[s \ {Max(s)}], list[Max(s)], SetConfig)]

LEMMA SetAllUnfolds ==
  ASSUME NEW list \in Seq(Entry(Val)), NEW h, IsBoxFold(h, list)
  PROVE  \E f : IsBoxFold(f, list) /\ SetAll(list) = f[1 .. Len(list)]
<1> DEFINE F == CHOOSE f : IsBoxFold(f, list)
<1>1. IsBoxFold(F, list)
  BY Zenon
<1>2. DOMAIN list = 1 .. Len(list)
  OBVIOUS
<1>3. SetAll(list) = F[1 .. Len(list)]
  BY <1>2 DEF SetAll, FoldLeft, MapThenFoldSet, IsBoxFold, Unrestarted
<1> HIDE DEF F
<1> QED BY <1>1, <1>3

LEMMA SetAllSteps ==
  ASSUME NEW list \in Seq(Entry(Val)), box \in Boxes
  PROVE  \E g : SetSteps(g, list)
<1> DEFINE n == Len(list)
           step == [x \in Boxes \X (1 .. n) |-> SetEntry(x[1], list[x[2]], SetConfig)]
<1>1. n \in Nat /\ Unrestarted \in Boxes
  BY DEF Unrestarted, Boxes
<1>2. step \in [Boxes \X (1 .. n) -> Boxes]
  <2>1. ASSUME NEW x \in Boxes \X (1 .. n)
        PROVE  SetEntry(x[1], list[x[2]], SetConfig) \in Boxes
    BY <1>1, SetEntryType
  <2> HIDE DEF n
  <2> QED BY <2>1
<1>3. ASSUME NEW b \in Boxes, NEW k \in 1 .. n
      PROVE  step[<<b, k>>] = SetEntry(b, list[k], SetConfig)
  OBVIOUS
<1> HIDE DEF step
<1>4. PICK h : Folds(h, n, Boxes, Unrestarted, step)
  <2> HIDE DEF n
  <2> QED BY <1>1, <1>2, FoldSteps
<1> DEFINE f0 == [s \in SUBSET (1 .. n) |-> h[s]]
<1>5. ASSUME NEW s \in SUBSET (1 .. n), s # {}
      PROVE  h[s] = SetEntry(f0[s \ {Max(s)}], list[Max(s)], SetConfig)
  <2>1. Max(s) \in 1 .. n
    BY <1>1, <1>5, MaxIn
  <2>2. s \ {Max(s)} \in SUBSET (1 .. n)
    OBVIOUS
  <2>3. h[s] = step[<<h[s \ {Max(s)}], Max(s)>>] /\ h[s \ {Max(s)}] \in Boxes
    BY <1>4, <1>5, <2>2 DEF Folds
  <2> QED BY <1>3, <2>1, <2>2, <2>3
<1>6. h[{}] = Unrestarted
  BY <1>4 DEF Folds
<1>7. \A s \in SUBSET (1 .. n) :
        h[s] = IF s = {} THEN Unrestarted
               ELSE SetEntry(f0[s \ {Max(s)}], list[Max(s)], SetConfig)
  <2> HIDE DEF f0
  <2> QED BY <1>5, <1>6
<1>8. IsBoxFold(f0, list)
  BY <1>7, Zenon DEF IsBoxFold
<1> HIDE DEF f0
<1>9. PICK f : IsBoxFold(f, list) /\ SetAll(list) = f[1 .. n]
  BY <1>8, SetAllUnfolds
<1>10. f[{}] = Unrestarted
  BY <1>9, Zenon DEF IsBoxFold
<1>11. ASSUME NEW s \in SUBSET (1 .. n), s # {}, f[s \ {Max(s)}] \in Boxes
       PROVE  f[s] = step[<<f[s \ {Max(s)}], Max(s)>>]
  <2>1. Max(s) \in 1 .. n
    BY <1>1, <1>11, MaxIn
  <2>2. f[s] = SetEntry(f[s \ {Max(s)}], list[Max(s)], SetConfig)
    BY <1>9, <1>11, Zenon DEF IsBoxFold
  <2> HIDE DEF n
  <2> QED BY <1>3, <1>11, <2>1, <2>2
<1>12. Traces(f, n, Boxes, Unrestarted, step)
  <2> HIDE DEF n
  <2>1. Follows(f, n, Boxes, Unrestarted, step)
    BY <1>1, <1>2, <1>10, <1>11 DEF Follows
  <2> QED BY <2>1, FoldTrace
<1> DEFINE g == [k \in 0 .. n |-> f[1 .. k]]
<1>13. ASSUME NEW k \in 1 .. n
       PROVE  g[k] = SetEntry(g[k - 1], list[k], SetConfig)
  <2>1. k - 1 \in 0 .. n /\ k \in 0 .. n
    BY <1>1
  <2>2. f[1 .. k] = SetEntry(f[1 .. k - 1], list[k], SetConfig)
    BY <1>3, <1>12, <2>1 DEF Traces
  <2> QED BY <2>1, <2>2
<1>14. g[0] = Unrestarted /\ g[n] = SetAll(list) /\ \A k \in 0 .. n : g[k] \in Boxes
  BY <1>1, <1>9, <1>12 DEF Traces
<1> HIDE DEF g
<1>15. SetSteps(g, list)
  BY <1>13, <1>14 DEF SetSteps
<1> QED BY <1>15

-----------------------------------------------------------------------------
(* What changes is told to the session, and restarts what depends on it.    *)

Grown(s, b) ==
  /\ b.setFlag => s.setFlag
  /\ s.conf # b.conf => s.setFlag
  /\ b.effects \subseteq s.effects
  /\ \A p \in DOMAIN KeyOf :
       s.conf[KeyOf[p]] # b.conf[KeyOf[p]] => Effect(p) \subseteq s.effects

LEMMA GrownOn ==
  ASSUME NEW a, NEW b, NEW c, Grown(b, a), Grown(c, b)
  PROVE  Grown(c, a)
<1>1. c.conf # a.conf => c.setFlag
  BY DEF Grown
<1>2. ASSUME NEW p \in DOMAIN KeyOf, c.conf[KeyOf[p]] # a.conf[KeyOf[p]]
      PROVE  Effect(p) \subseteq c.effects
  <2>1. CASE c.conf[KeyOf[p]] # b.conf[KeyOf[p]]
    BY <2>1 DEF Grown
  <2>2. CASE b.conf[KeyOf[p]] # a.conf[KeyOf[p]]
    BY <2>2 DEF Grown
  <2> QED BY <1>2, <2>1, <2>2
<1> QED BY <1>1, <1>2 DEF Grown

LEMMA GrownSelf ==
  ASSUME NEW b PROVE Grown(b, b)
BY DEF Grown

LEMMA StoredGrows ==
  ASSUME NEW b \in Boxes, NEW p, NEW v \in Val, NEW s, Stored(s, b, p, v)
  PROVE  Grown(s, b)
<1>1. CASE p \in InMemory /\ s = [b EXCEPT !.mem[p] = Cut[v]]
  BY <1>1 DEF Boxes, Grown
<1>2. CASE p \in DOMAIN Configured /\ s = Write(b, Configured[p], v, {})
  <2>1. Configured[p] \in Key
    BY <1>2, PlaceAssumption DEF PlaceAssumption
  <2>2. /\ s.conf = CfgSetConfig(b.conf, Configured[p], v)
        /\ s.setFlag
        /\ s.effects = b.effects \cup {}
    <3>1. PICK none \in SUBSET Restarts : none = {}
      OBVIOUS
    <3>2. s = Write(b, Configured[p], v, none)
      BY <1>2, <3>1
    <3>3. /\ s.conf = CfgSetConfig(b.conf, Configured[p], v)
          /\ s.setFlag
          /\ s.effects = b.effects \cup none
      BY <2>1, <3>2, WriteType
    <3> QED BY <3>1, <3>3
  <2>3. ASSUME NEW q \in DOMAIN KeyOf, s.conf[KeyOf[q]] # b.conf[KeyOf[q]]
        PROVE  Effect(q) \subseteq s.effects
    <3>1. KeyOf[q] \in Key /\ b.conf \in [Key -> Val]
      BY PlaceAssumption DEF PlaceAssumption, Boxes
    <3>2. Configured[p] = KeyOf[q]
      BY <2>1, <2>2, <2>3, <3>1, CfgSets
    <3>3. Effect(q) = {}
      BY <1>2, <3>2, EffectAssumption
    <3> QED BY <3>3
  <2> QED BY <2>2, <2>3 DEF Grown
<1>3. CASE s = Write(b, ConfigKey(p), v, Effect(p))
  <2>1. /\ s.conf = CfgSetConfig(b.conf, ConfigKey(p), v)
        /\ s.setFlag
        /\ s.effects = b.effects \cup Effect(p)
        /\ ConfigKey(p) \in Key
    <3>1. ConfigKey(p) \in Key /\ Effect(p) \in SUBSET Restarts
      BY KeyOfEach, EffectType
    <3> QED BY <1>3, <3>1, WriteType
  <2>2. ASSUME NEW q \in DOMAIN KeyOf, s.conf[KeyOf[q]] # b.conf[KeyOf[q]]
        PROVE  Effect(q) \subseteq s.effects
    <3>1. KeyOf[q] \in Key /\ b.conf \in [Key -> Val]
      BY PlaceAssumption DEF PlaceAssumption, Boxes
    <3>2. ConfigKey(p) = KeyOf[q]
      BY <2>1, <2>2, <3>1, CfgSets
    <3>3. p = q \/ Effect(q) = {}
      BY <3>2, EffectAssumption DEF ConfigKey
    <3> QED BY <2>1, <3>3
  <2> QED BY <2>1, <2>2 DEF Grown
<1>4. CASE s = b
  BY <1>4, GrownSelf
<1> QED BY <1>1, <1>2, <1>3, <1>4 DEF Stored

LEMMA SetConfigGrows ==
  ASSUME NEW b \in Boxes, NEW p, NEW v \in Val
  PROVE  SetConfig(b, p, v) \in Boxes /\ Grown(SetConfig(b, p, v), b)
BY SetConfigStores, StoredType, StoredGrows

LEMMA SetEntryGrows ==
  ASSUME NEW b \in Boxes, NEW e \in Entry(Val)
  PROVE  Grown(SetEntry(b, e, SetConfig), b)
<1>1. e.value \in Seq(Val) /\ Len(e.value) >= 1
  BY DEF Entry
<1>2. e.value[1] \in Val
  BY <1>1
<1>3. Len(e.value) = 2 => e.value[2] \in Val
  BY <1>1
<1>4. Grown(SetConfig(b, e.name, e.value[1]), b)
  BY <1>2, SetConfigGrows
<1>5. PICK s : s = IF Len(e.value) = 2 THEN SetConfig(b, "DNSServer1Real", e.value[2]) ELSE b
  OBVIOUS
<1>6. s \in Boxes /\ Grown(s, b)
  BY <1>3, <1>5, SetConfigGrows, GrownSelf
<1>7. Grown(SetConfig(s, "DNSServer0Real", e.value[1]), s)
  BY <1>2, <1>6, SetConfigGrows
<1>8. Grown(SetConfig(s, "DNSServer0Real", e.value[1]), b)
  BY <1>6, <1>7, GrownOn
<1> QED BY <1>4, <1>5, <1>8 DEF SetEntry

(* After a list the box has grown out of what it was.                       *)
LEMMA SetAllGrows ==
  ASSUME NEW list \in Seq(Entry(Val)), box \in Boxes
  PROVE  SetAll(list) \in Boxes /\ Grown(SetAll(list), Unrestarted)
<1>1. PICK g : SetSteps(g, list)
  BY SetAllSteps
<1> DEFINE n == Len(list)
           T == {k \in Nat : k <= n => Grown(g[k], Unrestarted)}
<1>2. n \in Nat /\ SetAll(list) = g[n] /\ g[n] \in Boxes
  BY <1>1 DEF SetSteps
<1>3. 0 \in T
  BY <1>1, GrownSelf DEF SetSteps
<1>4. ASSUME NEW k \in Nat, k \in T PROVE k + 1 \in T
  <2> SUFFICES ASSUME k + 1 <= n PROVE Grown(g[k + 1], Unrestarted)
    OBVIOUS
  <2>1. k + 1 \in 1 .. n /\ k \in 0 .. n /\ (k + 1) - 1 = k /\ Grown(g[k], Unrestarted)
    BY <1>2, <1>4
  <2>2. list[k + 1] \in Entry(Val) /\ g[k] \in Boxes
    BY <1>1, <2>1 DEF SetSteps
  <2>3. g[k + 1] = SetEntry(g[k], list[k + 1], SetConfig)
    BY <1>1, <2>1 DEF SetSteps
  <2>4. Grown(g[k + 1], g[k])
    BY <2>2, <2>3, SetEntryGrows
  <2> QED BY <2>1, <2>4, GrownOn
<1>5. Nat \subseteq T
  <2> HIDE DEF T
  <2> QED BY <1>3, <1>4, Induction
<1>6. Grown(g[n], Unrestarted)
  BY <1>2, <1>5
<1> QED BY <1>2, <1>6

-----------------------------------------------------------------------------
(* What tr069_set_parameter_attribute does to notifications and flags.      *)

Attributes == [notif : [Param -> Nat], flag : [Key -> 0 .. 1]]

SetMeant(a, e) == IF Meant(e) THEN SetEntry(a, e, SetAttribute) ELSE a

LEMMA SetAttributeType ==
  ASSUME NEW a \in Attributes, NEW p, NEW v \in Nat
  PROVE  /\ SetAttribute(a, p, v) \in Attributes
         /\ SetAttribute(a, p, v).notif = [a.notif EXCEPT ![p] = v]
         /\ SetAttribute(a, p, v).flag
              = [a.flag EXCEPT ![ConfigKey(p)] = IF v = 0 THEN 0 ELSE 1]
<1> DEFINE bit == IF v = 0 THEN 0 ELSE 1
<1>1. bit \in 0 .. 1
  OBVIOUS
<1>2. SetAttribute(a, p, v) = [a EXCEPT !.notif[p] = v, !.flag[ConfigKey(p)] = bit]
  BY DEF SetAttribute
<1> HIDE DEF bit
<1>3. [a EXCEPT !.notif[p] = v, !.flag[ConfigKey(p)] = bit] \in Attributes
  BY <1>1 DEF Attributes
<1>4. /\ SetAttribute(a, p, v).notif = [a.notif EXCEPT ![p] = v]
      /\ SetAttribute(a, p, v).flag = [a.flag EXCEPT ![ConfigKey(p)] = bit]
  BY <1>2 DEF Attributes
<1> QED BY <1>2, <1>3, <1>4 DEF bit

LEMMA SetMeantType ==
  ASSUME NEW a \in Attributes, NEW e \in AttributeEntry
  PROVE  SetMeant(a, e) \in Attributes
<1>1. e.value \in Seq(0 .. 9) /\ Len(e.value) >= 1
  BY DEF AttributeEntry
<1>2. e.value[1] \in Nat
  BY <1>1
<1>3. Len(e.value) = 2 => e.value[2] \in Nat
  BY <1>1
<1>4. SetAttribute(a, e.name, e.value[1]) \in Attributes
  BY <1>2, SetAttributeType
<1>5. PICK s : s = IF Len(e.value) = 2
                   THEN SetAttribute(a, "DNSServer1Real", e.value[2]) ELSE a
  OBVIOUS
<1>6. s \in Attributes
  BY <1>3, <1>5, SetAttributeType
<1>7. SetAttribute(s, "DNSServer0Real", e.value[1]) \in Attributes
  BY <1>2, <1>6, SetAttributeType
<1> QED BY <1>4, <1>5, <1>7 DEF SetMeant, SetEntry

(* The attributes that the second pass over a list goes through.            *)
MeantSteps(g, list) ==
  /\ g[0] = attr
  /\ \A k \in 0 .. Len(list) : g[k] \in Attributes
  /\ \A k \in 1 .. Len(list) : g[k] = SetMeant(g[k - 1], list[k])
  /\ SetAttributes(list) = g[Len(list)]

IsAttributeFold(f, list) ==
  f = [s \in SUBSET (1 .. Len(list)) |->
         IF s = {} THEN attr ELSE SetMeant(f[s \ {Max(s)}], list[Max(s)])]

LEMMA SetAttributesUnfolds ==
  ASSUME NEW list \in Seq(AttributeEntry), NEW h, IsAttributeFold(h, list)
  PROVE  \E f : IsAttributeFold(f, list) /\ SetAttributes(list) = f[1 .. Len(list)]
<1> DEFINE F == CHOOSE f : IsAttributeFold(f, list)
<1>1. IsAttributeFold(F, list)
  BY Zenon
<1>2. DOMAIN list = 1 .. Len(list)
  OBVIOUS
<1>3. SetAttributes(list) = F[1 .. Len(list)]
  BY <1>2 DEF SetAttributes, FoldLeft, MapThenFoldSet, IsAttributeFold, SetMeant
<1> HIDE DEF F
<1> QED BY <1>1, <1>3

LEMMA SetAttributesSteps ==
  ASSUME NEW list \in Seq(AttributeEntry), attr \in Attributes
  PROVE  \E g : MeantSteps(g, list)
<1> DEFINE n == Len(list)
           step == [x \in Attributes \X (1 .. n) |-> SetMeant(x[1], list[x[2]])]
<1>1. n \in Nat /\ attr \in Attributes
  OBVIOUS
<1>2. step \in [Attributes \X (1 .. n) -> Attributes]
  <2>1. ASSUME NEW x \in Attributes \X (1 .. n)
        PROVE  SetMeant(x[1], list[x[2]]) \in Attributes
    BY <1>1, SetMeantType
  <2> HIDE DEF n
  <2> QED BY <2>1
<1>3. ASSUME NEW b \in Attributes, NEW k \in 1 .. n
      PROVE  step[<<b, k>>] = SetMeant(b, list[k])
  OBVIOUS
<1> HIDE DEF step
<1>4. PICK h : Folds(h, n, Attributes, attr, step)
  <2> HIDE DEF n
  <2> QED BY <1>1, <1>2, FoldSteps
<1> DEFINE f0 == [s \in SUBSET (1 .. n) |-> h[s]]
<1>5. ASSUME NEW s \in SUBSET (1 .. n), s # {}
      PROVE  h[s] = SetMeant(f0[s \ {Max(s)}], list[Max(s)])
  <2>1. Max(s) \in 1 .. n
    BY <1>1, <1>5, MaxIn
  <2>2. s \ {Max(s)} \in SUBSET (1 .. n)
    OBVIOUS
  <2>3. h[s] = step[<<h[s \ {Max(s)}], Max(s)>>] /\ h[s \ {Max(s)}] \in Attributes
    BY <1>4, <1>5, <2>2 DEF Folds
  <2> QED BY <1>3, <2>1, <2>2, <2>3
<1>6. h[{}] = attr
  BY <1>4 DEF Folds
<1>7. \A s \in SUBSET (1 .. n) :
        h[s] = IF s = {} THEN attr
               ELSE SetMeant(f0[s \ {Max(s)}], list[Max(s)])
  <2> HIDE DEF f0
  <2> QED BY <1>5, <1>6
<1>8. IsAttributeFold(f0, list)
  BY <1>7, Zenon DEF IsAttributeFold
<1> HIDE DEF f0
<1>9. PICK f : IsAttributeFold(f, list) /\ SetAttributes(list) = f[1 .. n]
  BY <1>8, SetAttributesUnfolds
<1>10. f[{}] = attr
  BY <1>9, Zenon DEF IsAttributeFold
<1>11. ASSUME NEW s \in SUBSET (1 .. n), s # {}, f[s \ {Max(s)}] \in Attributes
       PROVE  f[s] = step[<<f[s \ {Max(s)}], Max(s)>>]
  <2>1. Max(s) \in 1 .. n
    BY <1>1, <1>11, MaxIn
  <2>2. f[s] = SetMeant(f[s \ {Max(s)}], list[Max(s)])
    BY <1>9, <1>11, Zenon DEF IsAttributeFold
  <2> HIDE DEF n
  <2> QED BY <1>3, <1>11, <2>1, <2>2
<1>12. Traces(f, n, Attributes, attr, step)
  <2> HIDE DEF n
  <2>1. Follows(f, n, Attributes, attr, step)
    BY <1>1, <1>2, <1>10, <1>11 DEF Follows
  <2> QED BY <2>1, FoldTrace
<1> DEFINE g == [k \in 0 .. n |-> f[1 .. k]]
<1>13. ASSUME NEW k \in 1 .. n
       PROVE  g[k] = SetMeant(g[k - 1], list[k])
  <2>1. k - 1 \in 0 .. n /\ k \in 0 .. n
    BY <1>1
  <2>2. f[1 .. k] = SetMeant(f[1 .. k - 1], list[k])
    BY <1>3, <1>12, <2>1 DEF Traces
  <2> QED BY <2>1, <2>2
<1>14. g[0] = attr /\ g[n] = SetAttributes(list) /\ \A k \in 0 .. n : g[k] \in Attributes
  BY <1>1, <1>9, <1>12 DEF Traces
<1> HIDE DEF g
<1>15. MeantSteps(g, list)
  BY <1>13, <1>14 DEF MeantSteps
<1> QED BY <1>15

-----------------------------------------------------------------------------
(* What the first pass over a list finds out.                               *)

(* An accepted list of attributes: each entry names what an ACS may set and *)
(* has a notification there is.                                             *)
Settable(e) == \A t \in Targets(e) : AttributeFault(t[1], t[2]) = 0

LEMMA SettableTargets ==
  ASSUME NEW e, EntryFault("SetParameterAttributes", e) = 0
  PROVE  Settable(e)
BY DEF EntryFault, Fault, Settable, Targets

LEMMA CheckedAttributes ==
  ASSUME NEW list \in Seq(AttributeEntry), Checked("SetParameterAttributes", list).code = 0
  PROVE  \A i \in 1 .. Len(list) : Settable(list[i])
<1> DEFINE I == {i \in 1 .. Len(list) : FormFault(list[i]) # 0}
           broken == SelectInSeq(list, LAMBDA e : FormFault(e) # 0)
           bad == \E i \in 1 .. Len(list) : EntryFault("SetParameterAttributes", list[i]) # 0
<1>1. Checked("SetParameterAttributes", list).code
        = IF broken # 0 THEN FormFault(list[broken]) ELSE IF bad THEN 9003 ELSE 0
  BY DEF Checked
<1>2. broken = IF I # {} THEN Min(I) ELSE 0
  BY DEF SelectInSeq
<1>3. broken # 0 => broken \in I
  <2>1. I \in SUBSET Nat
    OBVIOUS
  <2> HIDE DEF I, broken
  <2> QED BY <1>2, <2>1, MinOf
<1>4. broken = 0
  <2>1. \A i \in I : FormFault(list[i]) # 0
    OBVIOUS
  <2> HIDE DEF I, broken
  <2> QED BY <1>1, <1>3, <2>1
<1>5. ~bad
  <2> HIDE DEF bad, broken
  <2> QED BY <1>1, <1>4
<1> QED BY <1>5, SettableTargets

LEMMA MayBeSet ==
  ASSUME NEW n, NEW v, AttributeFault(n, v) = 0
  PROVE  n \in Names \cap Writable /\ v \in 0 .. 2
<1>1. n \in Names
  BY DEF AttributeFault
<1>2. n \in Writable
  BY <1>1 DEF AttributeFault
<1>3. v \in 0 .. 2
  BY <1>1, <1>2 DEF AttributeFault
<1> QED BY <1>1, <1>2, <1>3

-----------------------------------------------------------------------------
(* Notifications and flags.                                                 *)

(* Attributes as the ACS may have set them, on a box of CU with each flag   *)
(* like its notification.                                                   *)
Watched(a) ==
  /\ a \in Attributes
  /\ \A p \in Param : a.notif[p] \in 0 .. 2
  /\ stand = "CU" =>
       \A p \in DOMAIN KeyOf \cap NamedCu : KeyOf[p] # FirstKey =>
         (a.notif[p] # 0) = (a.flag[KeyOf[p]] = 1)

LEMMA SetAttributeWatched ==
  ASSUME NEW a, Watched(a), NEW p \in Names \cap Writable, NEW v \in 0 .. 2
  PROVE  Watched(SetAttribute(a, p, v))
<1> DEFINE s == SetAttribute(a, p, v)
           bit == IF v = 0 THEN 0 ELSE 1
<1>1. /\ a \in Attributes /\ p \in Param
      /\ \A q \in Param : a.notif[q] \in 0 .. 2
  BY RpcAssumption DEF Watched, RpcAssumption
<1>2. /\ s \in Attributes
      /\ s.notif = [a.notif EXCEPT ![p] = v]
      /\ s.flag = [a.flag EXCEPT ![ConfigKey(p)] = bit]
  <2>1. v \in Nat
    OBVIOUS
  <2> QED BY <1>1, <2>1, SetAttributeType
<1>3. bit = 1 \/ bit = 0
  OBVIOUS
<1>4. (v # 0) = (bit = 1)
  OBVIOUS
<1> HIDE DEF s, bit
<1>5. \A q \in Param : s.notif[q] = IF q = p THEN v ELSE a.notif[q]
  BY <1>1, <1>2 DEF Attributes
<1>6. \A k \in Key : s.flag[k] = IF k = ConfigKey(p) THEN bit ELSE a.flag[k]
  BY <1>1, <1>2 DEF Attributes
<1>7. \A q \in Param : s.notif[q] \in 0 .. 2
  BY <1>1, <1>5
<1>8. ASSUME stand = "CU", NEW q \in DOMAIN KeyOf \cap NamedCu, KeyOf[q] # FirstKey
      PROVE  (s.notif[q] # 0) = (s.flag[KeyOf[q]] = 1)
  <2>1. KeyOf[q] \in Key /\ q \in Param /\ p \in NamedCu
    BY <1>8, PlaceAssumption, RpcAssumption DEF PlaceAssumption, RpcAssumption, Names
  <2>2. CASE q = p
    <3>1. ConfigKey(p) = KeyOf[q]
      BY <2>2 DEF ConfigKey
    <3>2. s.notif[q] = v /\ s.flag[KeyOf[q]] = bit
      BY <1>5, <1>6, <2>1, <2>2, <3>1
    <3> QED BY <1>4, <3>2
  <2>3. CASE q # p
    <3>1. ConfigKey(p) # KeyOf[q]
      <4>1. ASSUME ConfigKey(p) = KeyOf[q] PROVE {q, p} \cap (Writable \cup PresetCu) = {}
        BY <1>8, <2>1, <2>3, <4>1, KeyAssumption DEF KeyAssumption
      <4> QED BY <4>1
    <3>2. s.notif[q] = a.notif[q] /\ s.flag[KeyOf[q]] = a.flag[KeyOf[q]]
      BY <1>5, <1>6, <2>1, <2>3, <3>1
    <3>3. (a.notif[q] # 0) = (a.flag[KeyOf[q]] = 1)
      BY <1>8 DEF Watched
    <3> QED BY <3>2, <3>3
  <2> QED BY <2>2, <2>3
<1>9. Watched(s)
  BY <1>2, <1>7, <1>8 DEF Watched
<1> QED BY <1>9 DEF s

LEMMA SetMeantWatched ==
  ASSUME NEW a, Watched(a), NEW e \in AttributeEntry, Settable(e)
  PROVE  Watched(SetMeant(a, e))
<1>1. CASE ~Meant(e)
  BY <1>1 DEF SetMeant
<1>2. CASE Meant(e) /\ e.name # DNSServers
  <2>1. AttributeFault(e.name, e.value[1]) = 0
    BY <1>2 DEF Settable, Targets
  <2> QED BY <1>2, <2>1, MayBeSet, SetAttributeWatched DEF SetMeant, SetEntry
<1>3. CASE Meant(e) /\ e.name = DNSServers
  <2>1. ASSUME NEW q, NEW v, <<q, v>> \in Targets(e)
        PROVE  AttributeFault(q, v) = 0
    <3>1. AttributeFault(<<q, v>>[1], <<q, v>>[2]) = 0
      BY <2>1 DEF Settable
    <3> QED BY <3>1
  <2>2. AttributeFault("DNSServer0Real", e.value[1]) = 0
    <3>1. <<"DNSServer0Real", e.value[1]>> \in Targets(e)
      BY <1>3 DEF Targets
    <3> QED BY <2>1, <3>1
  <2>3. Len(e.value) = 2 => AttributeFault("DNSServer1Real", e.value[2]) = 0
    <3>1. Len(e.value) = 2 => <<"DNSServer1Real", e.value[2]>> \in Targets(e)
      BY <1>3 DEF Targets
    <3> QED BY <2>1, <3>1
  <2>4. PICK s : s = IF Len(e.value) = 2
                     THEN SetAttribute(a, "DNSServer1Real", e.value[2]) ELSE a
    OBVIOUS
  <2>5. Watched(s)
    BY <2>3, <2>4, MayBeSet, SetAttributeWatched
  <2>6. Watched(SetAttribute(s, "DNSServer0Real", e.value[1]))
    BY <2>2, <2>5, MayBeSet, SetAttributeWatched
  <2> QED BY <1>3, <2>4, <2>6 DEF SetMeant, SetEntry
<1> QED BY <1>1, <1>2, <1>3

LEMMA SetAttributesWatched ==
  ASSUME NEW list \in Seq(AttributeEntry), Watched(attr),
         Checked("SetParameterAttributes", list).code = 0
  PROVE  Watched(SetAttributes(list))
<1>1. attr \in Attributes /\ \A i \in 1 .. Len(list) : Settable(list[i])
  BY CheckedAttributes DEF Watched
<1>2. PICK g : MeantSteps(g, list)
  BY <1>1, SetAttributesSteps
<1> DEFINE n == Len(list)
           T == {k \in Nat : k <= n => Watched(g[k])}
<1>3. n \in Nat /\ SetAttributes(list) = g[n]
  BY <1>2 DEF MeantSteps
<1>4. 0 \in T
  BY <1>2 DEF MeantSteps
<1>5. ASSUME NEW k \in Nat, k \in T PROVE k + 1 \in T
  <2> SUFFICES ASSUME k + 1 <= n PROVE Watched(g[k + 1])
    OBVIOUS
  <2>1. k + 1 \in 1 .. n /\ (k + 1) - 1 = k /\ Watched(g[k])
    BY <1>3, <1>5
  <2>2. list[k + 1] \in AttributeEntry /\ Settable(list[k + 1])
    BY <1>1, <2>1
  <2>3. g[k + 1] = SetMeant(g[k], list[k + 1])
    BY <1>2, <2>1 DEF MeantSteps
  <2> QED BY <2>1, <2>2, <2>3, SetMeantWatched
<1>6. Nat \subseteq T
  <2> HIDE DEF T
  <2> QED BY <1>4, <1>5, Induction
<1> QED BY <1>3, <1>6

-----------------------------------------------------------------------------
(* Which entry a notification comes from.                                   *)

LEMMA SetAttributeTarget ==
  ASSUME NEW a \in Attributes, NEW q, NEW v \in Nat, NEW p \in Param,
         SetAttribute(a, q, v).notif[p] # a.notif[p]
  PROVE  p = q /\ SetAttribute(a, q, v).notif[p] = v
<1>1. SetAttribute(a, q, v).notif = [a.notif EXCEPT ![q] = v]
  <2>1. a \in Attributes /\ v \in Nat
    OBVIOUS
  <2>2. /\ SetAttribute(a, q, v) \in Attributes
        /\ SetAttribute(a, q, v).notif = [a.notif EXCEPT ![q] = v]
        /\ SetAttribute(a, q, v).flag
              = [a.flag EXCEPT ![ConfigKey(q)] = IF v = 0 THEN 0 ELSE 1]
    BY ONLY <2>1, SetAttributeType
  <2> QED BY <2>2
<1>2. a.notif \in [Param -> Nat]
  BY DEF Attributes
<1>3. p = q
  BY <1>1, <1>2
<1>4. [a.notif EXCEPT ![p] = v][p] = v
  BY <1>2
<1> QED BY <1>1, <1>3, <1>4

LEMMA SetMeantTarget ==
  ASSUME NEW a \in Attributes, NEW e \in AttributeEntry, NEW p \in Param,
         SetMeant(a, e).notif[p] # a.notif[p]
  PROVE  Meant(e) /\ <<p, SetMeant(a, e).notif[p]>> \in Targets(e)
<1> DEFINE m == SetMeant(a, e).notif[p]
<1>1. Meant(e)
  BY DEF SetMeant
<1>2. e.value \in Seq(0 .. 9) /\ Len(e.value) >= 1
  BY DEF AttributeEntry
<1>3. e.value[1] \in Nat /\ (Len(e.value) = 2 => e.value[2] \in Nat)
  BY <1>2
<1>4. CASE e.name # DNSServers
  <2>1. SetMeant(a, e) = SetAttribute(a, e.name, e.value[1])
    BY <1>1, <1>4 DEF SetMeant, SetEntry
  <2>2. p = e.name /\ m = e.value[1]
    BY <1>3, <2>1, SetAttributeTarget
  <2> QED BY <1>1, <1>4, <2>2 DEF Targets
<1>5. CASE e.name = DNSServers
  <2>1. PICK s : s = IF Len(e.value) = 2
                     THEN SetAttribute(a, "DNSServer1Real", e.value[2]) ELSE a
    OBVIOUS
  <2>2. SetMeant(a, e) = SetAttribute(s, "DNSServer0Real", e.value[1])
    BY <1>1, <1>5, <2>1 DEF SetMeant, SetEntry
  <2>3. s \in Attributes
    BY <1>3, <2>1, SetAttributeType
  <2>4. CASE m # s.notif[p]
    <3>1. p = "DNSServer0Real" /\ m = e.value[1]
      BY <1>3, <2>2, <2>3, <2>4, SetAttributeTarget
    <3> QED BY <1>1, <1>5, <3>1 DEF Targets
  <2>5. CASE m = s.notif[p]
    <3>1. Len(e.value) = 2 /\ s = SetAttribute(a, "DNSServer1Real", e.value[2])
      BY <2>1, <2>5
    <3>2. p = "DNSServer1Real" /\ m = e.value[2]
      BY <1>3, <2>5, <3>1, SetAttributeTarget
    <3> QED BY <1>1, <1>5, <3>1, <3>2 DEF Targets
  <2> QED BY <2>4, <2>5
<1> QED BY <1>4, <1>5

(* One of the first k entries is meant and gives p the notification v.      *)
Given(list, k, p, v) ==
  \E i \in 1 .. k : Meant(list[i]) /\ <<p, v>> \in Targets(list[i])

LEMMA NotificationGiven ==
  ASSUME NEW list \in Seq(AttributeEntry), attr \in Attributes, NEW p \in Param,
         SetAttributes(list).notif[p] # attr.notif[p]
  PROVE  Given(list, Len(list), p, SetAttributes(list).notif[p])
<1>1. PICK g : MeantSteps(g, list)
  BY SetAttributesSteps
<1> DEFINE n == Len(list)
           Explained(k) == g[k].notif[p] # attr.notif[p] => Given(list, k, p, g[k].notif[p])
           T == {k \in Nat : k <= n => Explained(k)}
<1>2. n \in Nat /\ SetAttributes(list) = g[n]
  BY <1>1 DEF MeantSteps
<1>3. 0 \in T
  BY <1>1 DEF MeantSteps
<1>4. ASSUME NEW k \in Nat, k \in T PROVE k + 1 \in T
  <2> SUFFICES ASSUME k + 1 <= n, g[k + 1].notif[p] # attr.notif[p]
               PROVE  Given(list, k + 1, p, g[k + 1].notif[p])
    OBVIOUS
  <2>1. k + 1 \in 1 .. n /\ k \in 0 .. n /\ (k + 1) - 1 = k /\ Explained(k)
    BY <1>2, <1>4
  <2>2. list[k + 1] \in AttributeEntry /\ g[k] \in Attributes
        /\ g[k + 1] = SetMeant(g[k], list[k + 1])
    BY <1>1, <2>1 DEF MeantSteps
  <2>3. CASE g[k + 1].notif[p] = g[k].notif[p]
    <3>1. Given(list, k, p, g[k + 1].notif[p])
      BY <2>1, <2>3
    <3>2. 1 .. k \subseteq 1 .. k + 1
      OBVIOUS
    <3> QED BY <3>1, <3>2 DEF Given
  <2>4. CASE g[k + 1].notif[p] # g[k].notif[p]
    <3>1. Meant(list[k + 1]) /\ <<p, g[k + 1].notif[p]>> \in Targets(list[k + 1])
      BY <2>2, <2>4, SetMeantTarget
    <3>2. k + 1 \in 1 .. k + 1
      OBVIOUS
    <3> QED BY <3>1, <3>2 DEF Given
  <2> QED BY <2>3, <2>4
<1>5. Nat \subseteq T
  <2> HIDE DEF T
  <2> QED BY <1>3, <1>4, Induction
<1>6. Explained(n)
  BY <1>2, <1>5
<1> QED BY <1>2, <1>6

-----------------------------------------------------------------------------
(* The last value of a parameter that is taken stays.                       *)

(* What an accepted value leaves: it is in memory or under the key it was   *)
(* written to, or p is read from elsewhere.                                 *)
Elsewhere(b, p) ==
  \/ p = "ManageSerURL" /\ b.conf["LocalManageServerUrl"] # ""
  \/ p \in DOMAIN Computed \cup {"AuthServiceInfoPPPOEEnable"} /\ p \notin DOMAIN Configured

Held(b, p, v) == IF p \in InMemory THEN b.mem[p] = Cut[v]
                 ELSE b.conf[WrittenKey(p)] = v \/ Elsewhere(b, p)

LEMMA WrittenKeyType ==
  ASSUME NEW p
  PROVE  WrittenKey(p) \in Key \ {"LocalManageServerUrl"}
BY KeyOfEach, PlaceAssumption DEF WrittenKey, PlaceAssumption

(* A parameter that is neither in memory nor read from elsewhere is read    *)
(* from its key.                                                            *)
LEMMA ReadFromKey ==
  ASSUME NEW b, NEW p, p \notin InMemory \cup DOMAIN Configured, ~Elsewhere(b, p)
  PROVE  GetConfig(b, p) = b.conf[ConfigKey(p)]
BY DEF GetConfig, Elsewhere

LEMMA HeldHolds ==
  ASSUME NEW b, NEW p, NEW v, Held(b, p, v)
  PROVE  Holds(b, p, v)
<1>1. /\ InMemory \cap DOMAIN Configured = {}
      /\ "ManageSerURL" \notin InMemory \cup DOMAIN Configured \cup DOMAIN Computed
  BY PlaceAssumption DEF PlaceAssumption
<1>2. CASE p \in InMemory
  <2>1. b.mem[p] = Cut[v]
    BY <1>2 DEF Held
  <2> QED BY <1>1, <1>2, <2>1 DEF Holds
<1>3. CASE p \in DOMAIN Configured
  <2>1. b.conf[Configured[p]] = v
    BY <1>1, <1>3 DEF Held, WrittenKey, Elsewhere
  <2> QED BY <1>1, <1>3, <2>1 DEF Holds
<1>4. CASE p \notin InMemory \cup DOMAIN Configured
  <2>1. CASE Elsewhere(b, p)
    BY <1>1, <1>4, <2>1 DEF Elsewhere, Holds
  <2>2. CASE ~Elsewhere(b, p)
    <3>1. b.conf[ConfigKey(p)] = v
      BY <1>4, <2>2 DEF Held, WrittenKey
    <3>2. GetConfig(b, p) = v
      BY <1>4, <2>2, <3>1, ReadFromKey
    <3> QED BY <1>4, <3>2 DEF Holds
  <2> QED BY <2>1, <2>2
<1> QED BY <1>2, <1>3, <1>4

(* A write as Stored has it, of what is under the keys after it.            *)
LEMMA WritesConf ==
  ASSUME NEW b \in Boxes, NEW k \in Key, NEW v \in Val, NEW effect
  PROVE  LET s == Write(b, k, v, effect) IN
         /\ s.mem = b.mem
         /\ \A r \in Key \ {k} : s.conf[r] = b.conf[r]
         /\ v \in Fits[k] => s.conf[k] = v
         /\ v \notin Fits[k] => s.conf = b.conf
<1>1. b.conf \in [Key -> Val]
  BY DEF Boxes
<1>2. PICK c : c = CfgSetConfig(b.conf, k, v)
  OBVIOUS
<1>3. Write(b, k, v, effect).conf = c /\ Write(b, k, v, effect).mem = b.mem
  BY <1>2 DEF Write, Boxes
<1> QED BY <1>1, <1>2, <1>3, CfgSets

LEMMA StoredIsHeld ==
  ASSUME NEW b \in Boxes, NEW p, NEW v \in Val, NEW s, Stored(s, b, p, v),
         Taken(<<p, v>>)
  PROVE  Held(s, p, v)
<1>1. InMemory \cap DOMAIN Configured = {}
  BY PlaceAssumption DEF PlaceAssumption
<1>2. CASE p \in InMemory
  <2>1. s = [b EXCEPT !.mem[p] = Cut[v]]
    BY <1>1, <1>2 DEF Stored
  <2>2. s.mem[p] = Cut[v]
    BY <1>2, <2>1 DEF Boxes
  <2> QED BY <1>2, <2>2 DEF Held
<1>3. CASE p \in DOMAIN Configured
  <2>1. s = Write(b, Configured[p], v, {}) /\ WrittenKey(p) = Configured[p]
    BY <1>1, <1>3 DEF Stored, WrittenKey
  <2>2. s.conf[WrittenKey(p)] = v
    <3>1. v \in Fits[WrittenKey(p)] /\ WrittenKey(p) \in Key
      BY <1>1, <1>3, WrittenKeyType DEF Taken
    <3> QED BY <2>1, <3>1, WritesConf
  <2> QED BY <1>1, <1>3, <2>2 DEF Held
<1>4. CASE p \notin InMemory \cup DOMAIN Configured
  <2>1. WrittenKey(p) = ConfigKey(p)
    BY <1>4 DEF WrittenKey
  <2>2. CASE s = b /\ GetConfig(b, p) = v
    BY <1>4, <2>1, <2>2, ReadFromKey DEF Held
  <2>3. CASE s = Write(b, ConfigKey(p), v, Effect(p))
    <3>1. s.conf[ConfigKey(p)] = v
      <4>1. v \in Fits[ConfigKey(p)] /\ ConfigKey(p) \in Key
        BY <1>4, <2>1, KeyOfEach DEF Taken
      <4> QED BY <2>3, <4>1, WritesConf
    <3> QED BY <1>4, <2>1, <3>1 DEF Held
  <2> QED BY <1>4, <2>2, <2>3 DEF Stored
<1> QED BY <1>2, <1>3, <1>4

LEMMA StoredElsewhere ==
  ASSUME NEW b \in Boxes, NEW q, NEW w \in Val, NEW s, Stored(s, b, q, w),
         NEW p, NEW v, Held(b, p, v), ~(SamePlace(p, q) /\ Taken(<<q, w>>))
  PROVE  Held(s, p, v)
<1>1. InMemory \cap DOMAIN Configured = {}
  BY PlaceAssumption DEF PlaceAssumption
<1>2. CASE q \in InMemory
  <2>1. s = [b EXCEPT !.mem[q] = Cut[w]]
    BY <1>1, <1>2 DEF Stored
  <2>2. s.conf = b.conf /\ \A r \in InMemory \ {q} : s.mem[r] = b.mem[r]
    BY <2>1 DEF Boxes
  <2>3. p \in InMemory => p # q
    BY <1>2 DEF SamePlace, Taken
  <2> QED BY <2>2, <2>3 DEF Held, Elsewhere
<1>3. CASE q \notin InMemory
  <2>1. s = b \/ \E effect : s = Write(b, WrittenKey(q), w, effect)
    BY <1>3 DEF Stored, WrittenKey
  <2>2. /\ s.mem = b.mem
        /\ \A k \in Key \ {WrittenKey(q)} : s.conf[k] = b.conf[k]
        /\ w \notin Fits[WrittenKey(q)] => s.conf = b.conf
    BY <2>1, WrittenKeyType, WritesConf
  <2>3. p \notin InMemory /\ w \in Fits[WrittenKey(q)]
          => WrittenKey(p) # WrittenKey(q)
    BY <1>3 DEF SamePlace, Taken
  <2>4. s.conf["LocalManageServerUrl"] = b.conf["LocalManageServerUrl"]
    BY <2>2, WrittenKeyType, PlaceAssumption DEF PlaceAssumption
  <2> QED BY <2>2, <2>3, <2>4, WrittenKeyType DEF Held, Elsewhere
<1> QED BY <1>2, <1>3

LEMMA SetConfigHeld ==
  ASSUME NEW b \in Boxes, NEW q, NEW w \in Val
  PROVE  /\ SetConfig(b, q, w) \in Boxes
         /\ Taken(<<q, w>>) => Held(SetConfig(b, q, w), q, w)
         /\ \A p, v : Held(b, p, v) /\ ~(SamePlace(p, q) /\ Taken(<<q, w>>))
                       => Held(SetConfig(b, q, w), p, v)
BY SetConfigStores, StoredType, StoredIsHeld, StoredElsewhere

(* What an entry sets is held if it is taken, and what the entry has no     *)
(* taken target for stays.                                                  *)
LEMMA SetEntryHeld ==
  ASSUME NEW b \in Boxes, NEW e \in Entry(Val), NEW p, NEW v
  PROVE  /\ <<p, v>> \in Targets(e) /\ Taken(<<p, v>>)
              => Held(SetEntry(b, e, SetConfig), p, v)
         /\ Held(b, p, v) /\ (\A t \in Targets(e) : ~(SamePlace(p, t[1]) /\ Taken(t)))
              => Held(SetEntry(b, e, SetConfig), p, v)
<1>1. e.value \in Seq(Val) /\ Len(e.value) >= 1
  BY DEF Entry
<1>2. e.value[1] \in Val /\ (Len(e.value) = 2 => e.value[2] \in Val)
  BY <1>1
<1>3. ASSUME NEW q, NEW w, <<q, w>> \in Targets(e),
             \A t \in Targets(e) : ~(SamePlace(p, t[1]) /\ Taken(t))
      PROVE  ~(SamePlace(p, q) /\ Taken(<<q, w>>))
  <2>1. ~(SamePlace(p, <<q, w>>[1]) /\ Taken(<<q, w>>))
    BY <1>3
  <2> QED BY <2>1
<1>4. CASE e.name # DNSServers
  <2>1. SetEntry(b, e, SetConfig) = SetConfig(b, e.name, e.value[1])
    BY <1>4 DEF SetEntry
  <2>2. Targets(e) = {<<e.name, e.value[1]>>}
    BY <1>4 DEF Targets
  <2>3. <<p, v>> \in Targets(e) => p = e.name /\ v = e.value[1]
    BY <2>2
  <2>4. (\A t \in Targets(e) : ~(SamePlace(p, t[1]) /\ Taken(t)))
          => ~(SamePlace(p, e.name) /\ Taken(<<e.name, e.value[1]>>))
    BY <1>3, <2>2
  <2> QED BY <1>2, <2>1, <2>3, <2>4, SetConfigHeld
<1>5. CASE e.name = DNSServers
  <2>1. PICK s : s = IF Len(e.value) = 2 THEN SetConfig(b, "DNSServer1Real", e.value[2]) ELSE b
    OBVIOUS
  <2>2. SetEntry(b, e, SetConfig) = SetConfig(s, "DNSServer0Real", e.value[1])
    BY <1>5, <2>1 DEF SetEntry
  <2>3. s \in Boxes
    BY <1>2, <2>1, SetConfigHeld
  <2>4. Targets(e) = {<<"DNSServer0Real", e.value[1]>>}
          \cup (IF Len(e.value) = 2 THEN {<<"DNSServer1Real", e.value[2]>>} ELSE {})
    BY <1>5 DEF Targets
  <2>5. ASSUME <<p, v>> \in Targets(e), Taken(<<p, v>>)
        PROVE  Held(SetEntry(b, e, SetConfig), p, v)
    <3>1. CASE p = "DNSServer0Real" /\ v = e.value[1]
      BY <1>2, <2>2, <2>3, <2>5, <3>1, SetConfigHeld
    <3>2. CASE Len(e.value) = 2 /\ p = "DNSServer1Real" /\ v = e.value[2]
      <4>1. Held(s, p, v)
        BY <1>2, <2>1, <2>5, <3>2, SetConfigHeld
      <4>2. ~SamePlace(p, "DNSServer0Real")
        BY <3>2, PlaceAssumption DEF PlaceAssumption, SamePlace, WrittenKey
      <4> QED BY <1>2, <2>2, <2>3, <4>1, <4>2, SetConfigHeld
    <3>3. \/ p = "DNSServer0Real" /\ v = e.value[1]
          \/ Len(e.value) = 2 /\ p = "DNSServer1Real" /\ v = e.value[2]
      BY <2>4, <2>5
    <3> QED BY <3>1, <3>2, <3>3
  <2>6. ASSUME Held(b, p, v),
               \A t \in Targets(e) : ~(SamePlace(p, t[1]) /\ Taken(t))
        PROVE  Held(SetEntry(b, e, SetConfig), p, v)
    <3>1. ~(SamePlace(p, "DNSServer0Real") /\ Taken(<<"DNSServer0Real", e.value[1]>>))
      BY <1>3, <2>4, <2>6
    <3>2. Len(e.value) = 2 =>
            ~(SamePlace(p, "DNSServer1Real") /\ Taken(<<"DNSServer1Real", e.value[2]>>))
      BY <1>3, <2>4, <2>6
    <3>3. Held(s, p, v)
      BY <1>2, <2>1, <2>6, <3>2, SetConfigHeld
    <3> QED BY <1>2, <2>2, <2>3, <3>1, <3>3, SetConfigHeld
  <2> QED BY <2>5, <2>6
<1> QED BY <1>4, <1>5

LEMMA LastIsHeld ==
  ASSUME NEW list \in Seq(Entry(Val)), box \in Boxes,
         NEW i \in 1 .. Len(list), NEW p, NEW v, LastTaken(list, i, <<p, v>>)
  PROVE  Held(SetAll(list), p, v)
<1>1. PICK g : SetSteps(g, list)
  BY SetAllSteps
<1> DEFINE n == Len(list)
           T == {k \in Nat : i + k <= n => Held(g[i + k], p, v)}
<1>2. n \in Nat /\ i \in Nat /\ i <= n /\ SetAll(list) = g[n]
  BY <1>1 DEF SetSteps
<1>3. ASSUME NEW k \in 1 .. n
      PROVE  g[k] = SetEntry(g[k - 1], list[k], SetConfig)
             /\ g[k - 1] \in Boxes /\ list[k] \in Entry(Val)
  <2>1. k - 1 \in 0 .. n
    BY <1>2
  <2> QED BY <1>1, <2>1 DEF SetSteps
<1>4. 0 \in T
  <2>1. Held(g[i], p, v)
    BY <1>3, SetEntryHeld DEF LastTaken
  <2> QED BY <1>2, <2>1
<1>5. ASSUME NEW k \in Nat, k \in T PROVE k + 1 \in T
  <2> SUFFICES ASSUME i + (k + 1) <= n PROVE Held(g[i + (k + 1)], p, v)
    OBVIOUS
  <2> DEFINE j == i + (k + 1)
  <2>1. j \in i + 1 .. n /\ j \in 1 .. n /\ j - 1 = i + k
    BY <1>2
  <2>2. Held(g[j - 1], p, v)
    BY <1>2, <1>5, <2>1
  <2>3. \A u \in Targets(list[j]) : ~(SamePlace(p, u[1]) /\ Taken(u))
    BY <2>1 DEF LastTaken
  <2> HIDE DEF j
  <2>4. Held(g[j], p, v)
    BY <1>3, <2>1, <2>2, <2>3, SetEntryHeld
  <2> QED BY <2>4 DEF j
<1>6. Nat \subseteq T
  <2> HIDE DEF T
  <2> QED BY <1>4, <1>5, Induction
<1>7. n - i \in Nat /\ i + (n - i) = n
  BY <1>2
<1>8. n - i \in T
  BY ONLY <1>6, <1>7
<1> QED BY <1>2, <1>7, <1>8

(* A key that a box has under another value than before, it has from one of *)
(* the first m entries of the list.                                         *)
GivenIn(list, m, k, v) ==
  \E i \in 1 .. m : \E t \in Targets(list[i]) :
    t[1] \notin InMemory /\ WrittenKey(t[1]) = k /\ v = t[2] /\ v \in Fits[k]

LEMMA SetConfigGives ==
  ASSUME NEW b \in Boxes, NEW p, NEW v \in Val, NEW k \in Key,
         SetConfig(b, p, v).conf[k] # b.conf[k]
  PROVE  /\ p \notin InMemory /\ WrittenKey(p) = k
         /\ SetConfig(b, p, v).conf[k] = v /\ v \in Fits[k]
<1>1. PICK s : s = SetConfig(b, p, v)
  OBVIOUS
<1>2. Stored(s, b, p, v) /\ s.conf[k] # b.conf[k]
  BY <1>1, SetConfigStores
<1>3. ASSUME p \in InMemory PROVE FALSE
  <2>1. s = [b EXCEPT !.mem[p] = Cut[v]]
    BY <1>2, <1>3, PlaceAssumption DEF Stored, PlaceAssumption
  <2>2. s.conf = b.conf
    BY <2>1 DEF Boxes
  <2> QED BY <1>2, <2>2
<1>4. s = b \/ \E effect : s = Write(b, WrittenKey(p), v, effect)
  BY <1>2, <1>3 DEF Stored, WrittenKey
<1>5. PICK effect : s = Write(b, WrittenKey(p), v, effect)
  BY <1>2, <1>4
<1>6. /\ \A r \in Key \ {WrittenKey(p)} : s.conf[r] = b.conf[r]
      /\ v \in Fits[WrittenKey(p)] => s.conf[WrittenKey(p)] = v
      /\ v \notin Fits[WrittenKey(p)] => s.conf = b.conf
  BY <1>5, WrittenKeyType, WritesConf
<1> QED BY <1>1, <1>2, <1>3, <1>6

LEMMA SetEntryGives ==
  ASSUME NEW b \in Boxes, NEW e \in Entry(Val), NEW k \in Key, NEW s,
         s = SetEntry(b, e, SetConfig), s.conf[k] # b.conf[k]
  PROVE  \E t \in Targets(e) : /\ t[1] \notin InMemory /\ WrittenKey(t[1]) = k
                              /\ s.conf[k] = t[2] /\ s.conf[k] \in Fits[k]
<1>1. e.value \in Seq(Val) /\ Len(e.value) >= 1
  BY DEF Entry
<1>2. e.value[1] \in Val /\ (Len(e.value) = 2 => e.value[2] \in Val)
  BY <1>1
<1> DEFINE Gives(p, v) == /\ p \notin InMemory /\ WrittenKey(p) = k
                          /\ s.conf[k] = v /\ s.conf[k] \in Fits[k]
<1>3. ASSUME NEW p, NEW v, <<p, v>> \in Targets(e), Gives(p, v)
      PROVE  \E t \in Targets(e) : Gives(t[1], t[2])
  <2>1. Gives(<<p, v>>[1], <<p, v>>[2])
    BY <1>3
  <2> HIDE DEF Gives
  <2> QED BY <1>3, <2>1
<1>4. CASE e.name # DNSServers
  <2>1. s = SetConfig(b, e.name, e.value[1]) /\ <<e.name, e.value[1]>> \in Targets(e)
    BY <1>4 DEF SetEntry, Targets
  <2>2. Gives(e.name, e.value[1])
    BY <1>2, <2>1, SetConfigGives
  <2> HIDE DEF Gives
  <2>3. \E t \in Targets(e) : Gives(t[1], t[2])
    BY <1>3, <2>1, <2>2
  <2> QED BY <2>3 DEF Gives
<1>5. CASE e.name = DNSServers
  <2>1. PICK a : a = IF Len(e.value) = 2 THEN SetConfig(b, "DNSServer1Real", e.value[2]) ELSE b
    OBVIOUS
  <2>2. s = SetConfig(a, "DNSServer0Real", e.value[1]) /\ a \in Boxes
    BY <1>2, <1>5, <2>1, SetConfigType DEF SetEntry
  <2>3. /\ <<"DNSServer0Real", e.value[1]>> \in Targets(e)
        /\ Len(e.value) = 2 => <<"DNSServer1Real", e.value[2]>> \in Targets(e)
    BY <1>5 DEF Targets
  <2>4. CASE s.conf[k] # a.conf[k]
    <3>1. Gives("DNSServer0Real", e.value[1])
      BY <1>2, <2>2, <2>4, SetConfigGives
    <3> HIDE DEF Gives
    <3>2. \E t \in Targets(e) : Gives(t[1], t[2])
      BY <1>3, <2>3, <3>1
    <3> QED BY <3>2 DEF Gives
  <2>5. CASE s.conf[k] = a.conf[k]
    <3>1. Len(e.value) = 2 /\ a = SetConfig(b, "DNSServer1Real", e.value[2])
      BY <2>1, <2>5
    <3>2. Gives("DNSServer1Real", e.value[2])
      BY <1>2, <2>5, <3>1, SetConfigGives
    <3> HIDE DEF Gives
    <3>3. \E t \in Targets(e) : Gives(t[1], t[2])
      BY <1>3, <2>3, <3>1, <3>2
    <3> QED BY <3>3 DEF Gives
  <2> QED BY <2>4, <2>5
<1> QED BY <1>4, <1>5

LEMMA ChangedIsGiven ==
  ASSUME NEW list \in Seq(Entry(Val)), box \in Boxes, NEW k \in Key,
         SetAll(list).conf[k] # box.conf[k]
  PROVE  GivenBy(list, k, SetAll(list).conf[k])
<1>1. PICK g : SetSteps(g, list)
  BY SetAllSteps
<1> DEFINE n == Len(list)
           Explained(m) == g[m].conf[k] # box.conf[k] => GivenIn(list, m, k, g[m].conf[k])
           T == {m \in Nat : m <= n => Explained(m)}
<1>2. n \in Nat /\ SetAll(list) = g[n]
  BY <1>1 DEF SetSteps
<1>3. 0 \in T
  <2>1. g[0].conf = box.conf
    BY <1>1 DEF SetSteps, Unrestarted, Boxes
  <2> QED BY <2>1
<1>4. ASSUME NEW m \in Nat, m \in T PROVE m + 1 \in T
  <2> SUFFICES ASSUME m + 1 <= n PROVE Explained(m + 1)
    OBVIOUS
  <2>1. m + 1 \in 1 .. n /\ m \in 0 .. n /\ (m + 1) - 1 = m /\ Explained(m)
    BY <1>2, <1>4
  <2>2. list[m + 1] \in Entry(Val) /\ g[m] \in Boxes
        /\ g[m + 1] = SetEntry(g[m], list[m + 1], SetConfig)
    BY <1>1, <2>1 DEF SetSteps
  <2>3. CASE g[m + 1].conf[k] = g[m].conf[k]
    <3>1. 1 .. m \subseteq 1 .. m + 1
      OBVIOUS
    <3> QED BY <2>1, <2>3, <3>1 DEF GivenIn
  <2>4. CASE g[m + 1].conf[k] # g[m].conf[k]
    <3>1. PICK s : s = g[m + 1]
      OBVIOUS
    <3>2. \E t \in Targets(list[m + 1]) :
            /\ t[1] \notin InMemory /\ WrittenKey(t[1]) = k
            /\ s.conf[k] = t[2] /\ s.conf[k] \in Fits[k]
      BY <2>2, <2>4, <3>1, SetEntryGives
    <3>3. m + 1 \in 1 .. m + 1
      OBVIOUS
    <3>4. GivenIn(list, m + 1, k, s.conf[k])
      BY <3>2, <3>3 DEF GivenIn
    <3> QED BY <3>1, <3>4
  <2> QED BY <2>3, <2>4
<1>5. Nat \subseteq T
  <2> HIDE DEF T
  <2> QED BY <1>3, <1>4, Induction
<1>6. Explained(n)
  BY <1>2, <1>5
<1> QED BY <1>2, <1>6 DEF GivenIn, GivenBy

-----------------------------------------------------------------------------
(* The invariant.                                                           *)

(* What holds after every step: the types, and the two safety properties,   *)
(* which with the types need no more.                                       *)
RpcInv == TypeOK /\ ChangedIsSaved /\ NotifMatchesFlag

LEMMA InvParts ==
  ASSUME RpcInv
  PROVE  /\ box \in Boxes /\ disk \in [Key -> Val] /\ stand \in Stand
         /\ attr \in Attributes /\ Watched(attr)
<1>1. box \in Boxes /\ disk \in [Key -> Val] /\ stand \in Stand
  BY DEF RpcInv, TypeOK, Boxes, Restarts
<1>2. attr \in Attributes /\ \A p \in Param : attr.notif[p] \in 0 .. 2
  BY DEF RpcInv, TypeOK, Attributes
<1> QED BY <1>1, <1>2 DEF RpcInv, NotifMatchesFlag, Watched

TaskNames == {"TRACERT", "PING", "SPEED_TEST", "FACTORY_RESET"}

(* The part of the types that no property is about.                         *)
PlainType ==
  /\ inSession \in BOOLEAN /\ busy \subseteq {"speed", "loss"}
  /\ tasks \in Seq(TaskNames)
  /\ rpcs \in 0 .. MaxRpc /\ restarts \in 0 .. MaxRestart

(* The same invariant by the names the lemmas use.                          *)
LEMMA PartsOfInv ==
  RpcInv <=> /\ box \in Boxes /\ disk \in [Key -> Val] /\ stand \in Stand
             /\ Watched(attr) /\ ChangedIsSaved /\ PlainType
<1>1. RpcInv => PlainType
  BY DEF RpcInv, TypeOK, PlainType, TaskNames
<1>2. RpcInv => ChangedIsSaved
  BY DEF RpcInv
<1>3. ASSUME box \in Boxes, disk \in [Key -> Val], stand \in Stand,
             Watched(attr), ChangedIsSaved, PlainType
      PROVE  RpcInv
  <2>1. NotifMatchesFlag
    BY <1>3 DEF NotifMatchesFlag, Watched
  <2>2. attr \in [notif : [Param -> 0 .. 2], flag : [Key -> 0 .. 1]]
    <3>1. /\ attr = [notif |-> attr.notif, flag |-> attr.flag]
          /\ attr.notif \in [Param -> Nat] /\ attr.flag \in [Key -> 0 .. 1]
      BY <1>3 DEF Watched, Attributes
    <3>2. attr.notif \in [Param -> 0 .. 2]
      BY <1>3, <3>1 DEF Watched
    <3> QED BY <3>1, <3>2
  <2>3. TypeOK
    BY <1>3, <2>2 DEF TypeOK, PlainType, TaskNames, Boxes, Restarts
  <2> QED BY <1>3, <2>1, <2>3 DEF RpcInv
<1> QED BY <1>1, <1>2, <1>3, InvParts

LEMMA FirstBoxType ==
  ASSUME NEW d \in [Key -> Val]
  PROVE  FirstBox(d) \in Boxes /\ FirstBox(d).conf = d
<1>1. "" \in Val
  BY RpcAssumption DEF RpcAssumption
<1> QED BY <1>1 DEF FirstBox, Boxes

(* The presets of the parameters and those of the keys agree.               *)
LEMMA FirstAttrWatched == Watched(FirstAttr(stand))
<1> DEFINE preset == CASE stand = "CU" -> PresetCu \cap NamedCu
                       [] stand = "CTC" -> PresetCtc \cap NamedOther
                       [] OTHER -> {}
           a == FirstAttr(stand)
<1>1. /\ a.notif = [p \in Param |-> IF p \in preset THEN 2 ELSE 0]
      /\ a.flag = [k \in Key |-> IF stand = "CU" /\ k \in PresetKey THEN 1 ELSE 0]
      /\ a = [notif |-> a.notif, flag |-> a.flag]
  BY DEF FirstAttr
<1> HIDE DEF a, preset
<1>2. a \in Attributes /\ \A p \in Param : a.notif[p] \in 0 .. 2
  BY <1>1 DEF Attributes
<1>3. ASSUME stand = "CU", NEW p \in DOMAIN KeyOf \cap NamedCu, KeyOf[p] # FirstKey
      PROVE  (a.notif[p] # 0) = (a.flag[KeyOf[p]] = 1)
  <2>1. preset = PresetCu \cap NamedCu
    BY <1>3 DEF preset
  <2>2. p \in Param /\ KeyOf[p] \in Key
    BY RpcAssumption, PlaceAssumption DEF RpcAssumption, PlaceAssumption
  <2>3. (a.notif[p] # 0) = (p \in PresetCu)
    BY <1>1, <1>3, <2>1, <2>2
  <2>4. (a.flag[KeyOf[p]] = 1) = (KeyOf[p] \in PresetKey)
    BY <1>1, <1>3, <2>2
  <2>5. p \in PresetCu => KeyOf[p] \in PresetKey
    BY <1>3, KeyAssumption
  <2>6. ASSUME KeyOf[p] \in PresetKey PROVE p \in PresetCu
    <3>1. PICK q \in PresetCu \cap NamedCu : KeyOf[q] = KeyOf[p]
      BY <2>6, KeyAssumption
    <3>2. ConfigKey(q) = KeyOf[p]
      BY <3>1, KeyAssumption DEF ConfigKey
    <3>3. q # p => {p, q} \cap PresetCu = {}
      BY <1>3, <3>2, KeyAssumption
    <3> QED BY <3>1, <3>3
  <2> QED BY <2>3, <2>4, <2>5, <2>6
<1>4. Watched(a)
  BY <1>2, <1>3 DEF Watched
<1> QED BY <1>4 DEF a

LEMMA Bounds == MaxRpc \in Nat /\ MaxRestart \in Nat
BY RpcAssumption, Zenon DEF RpcAssumption

LEMMA InvInit == Init => RpcInv
<1> SUFFICES ASSUME Init PROVE RpcInv
  OBVIOUS
<1>1. disk \in [Key -> Val] /\ stand \in Stand
  BY RpcAssumption DEF RpcAssumption, Init
<1>2. box \in Boxes /\ ChangedIsSaved
  BY <1>1, FirstBoxType DEF Init, ChangedIsSaved
<1>3. Watched(attr)
  BY FirstAttrWatched DEF Init
<1>4. PlainType
  <2>1. tasks = <<>> /\ busy = {} /\ inSession = FALSE /\ rpcs = 0 /\ restarts = 0
    BY DEF Init
  <2>2. <<>> \in Seq(TaskNames)
    OBVIOUS
  <2>3. 0 \in 0 .. MaxRpc /\ 0 \in 0 .. MaxRestart
    BY Bounds
  <2> QED BY <2>1, <2>2, <2>3 DEF PlainType
<1> QED BY <1>1, <1>2, <1>3, <1>4, PartsOfInv

(* An RPC as a whole: a reply; a box that has grown, out of what it was or  *)
(* without the effects of before; attributes that are watched.              *)
Answered ==
  /\ inSession /\ rpcs < MaxRpc /\ rpcs' = rpcs + 1
  /\ UNCHANGED <<stand, disk, inSession, restarts>>
  /\ box' \in Boxes /\ (box' = box \/ Grown(box', Unrestarted))
  /\ Watched(attr)'
  /\ tasks' \in Seq(TaskNames) /\ busy' \subseteq {"speed", "loss"}

LEMMA TasksOfType ==
  ASSUME NEW list
  PROVE  TasksOf(list) \in Seq(TaskNames)
<1>1. ASSUME NEW name \in TaskNames, NEW cond
      PROVE  (IF cond THEN <<name>> ELSE <<>>) \in Seq(TaskNames)
  OBVIOUS
<1>2. "TRACERT" \in TaskNames /\ "PING" \in TaskNames /\ "SPEED_TEST" \in TaskNames
  BY DEF TaskNames
<1>3. PICK a, b, c \in Seq(TaskNames) : TasksOf(list) = a \o b \o c
  BY <1>1, <1>2 DEF TasksOf
<1> QED BY <1>3

LEMMA WatchedSame ==
  ASSUME Watched(attr), UNCHANGED <<stand, attr>>
  PROVE  Watched(attr)'
BY DEF Watched

LEMMA SetParameterValuesAnswers ==
  ASSUME RpcInv, NEW list \in ValueLists, SetParameterValues(list)
  PROVE  Answered
<1>1. list \in Seq(Entry(Val))
  BY ListAssumption DEF ListAssumption
<1>2. box \in Boxes /\ Watched(attr) /\ PlainType
  BY PartsOfInv
<1>3. SetAll(list) \in Boxes /\ Grown(SetAll(list), Unrestarted)
  BY <1>1, <1>2, SetAllGrows
<1>4. TasksOf(list) \in Seq(TaskNames)
  BY TasksOfType
<1>5. Watched(attr)'
  BY <1>2, WatchedSame DEF SetParameterValues, Reply
<1>6. /\ inSession /\ rpcs < MaxRpc /\ rpcs' = rpcs + 1
      /\ UNCHANGED <<stand, disk, inSession, restarts>>
  BY DEF SetParameterValues, Reply
<1>7. CASE Checked("SetParameterValues", list).code # 0
  <2>1. UNCHANGED <<box, tasks, busy>>
    BY <1>7 DEF SetParameterValues
  <2> QED BY <1>2, <1>5, <1>6, <2>1 DEF Answered, PlainType
<1>8. CASE Checked("SetParameterValues", list).code = 0
  <2>1. box' = SetAll(list) /\ tasks' = tasks \o TasksOf(list)
        /\ busy' \in {busy \cup {"loss"}, busy}
    BY <1>8 DEF SetParameterValues
  <2>2. tasks' \in Seq(TaskNames) /\ busy' \subseteq {"speed", "loss"}
    BY <1>2, <1>4, <2>1 DEF PlainType
  <2> QED BY <1>3, <1>5, <1>6, <2>1, <2>2 DEF Answered
<1> QED BY <1>7, <1>8

LEMMA SetParameterAttributesAnswers ==
  ASSUME RpcInv, NEW list \in AttributeLists, SetParameterAttributes(list)
  PROVE  Answered
<1>1. list \in Seq(AttributeEntry)
  BY ListAssumption DEF ListAssumption
<1>2. box \in Boxes /\ Watched(attr) /\ PlainType
  BY PartsOfInv
<1>3. /\ inSession /\ rpcs < MaxRpc /\ rpcs' = rpcs + 1
      /\ UNCHANGED <<stand, disk, inSession, restarts, box, tasks, busy>>
  BY DEF SetParameterAttributes, Reply
<1>4. attr' = attr \/ Watched(attr')
  BY <1>1, <1>2, SetAttributesWatched DEF SetParameterAttributes
<1>5. Watched(attr)'
  <2>1. CASE attr' = attr
    BY <1>2, <1>3, <2>1, WatchedSame
  <2>2. CASE Watched(attr')
    BY <1>3, <2>2 DEF Watched
  <2> QED BY <1>4, <2>1, <2>2
<1> QED BY <1>2, <1>3, <1>5 DEF Answered, PlainType

LEMMA XFvSetupAnswers ==
  ASSUME RpcInv, NEW mac \in Val, NEW stbid \in Val, XFvSetup(mac, stbid)
  PROVE  Answered
<1>1. box \in Boxes /\ Watched(attr) /\ PlainType
  BY PartsOfInv
<1>2. Unrestarted \in Boxes
  BY <1>1 DEF Unrestarted, Boxes
<1> DEFINE s == SetConfig(Unrestarted, "MACAddress", mac)
<1>3. s \in Boxes /\ Grown(s, Unrestarted)
  BY <1>2, SetConfigGrows
<1>4. SetConfig(s, "STBID", stbid) \in Boxes /\ Grown(SetConfig(s, "STBID", stbid), s)
  <2> HIDE DEF s
  <2> QED BY <1>3, SetConfigGrows
<1>5. box' = SetConfig(s, "STBID", stbid)
  BY DEF XFvSetup, Unrestarted
<1> HIDE DEF s
<1>6. box' \in Boxes /\ Grown(box', Unrestarted)
  BY <1>3, <1>4, <1>5, GrownOn
<1>7. /\ inSession /\ rpcs < MaxRpc /\ rpcs' = rpcs + 1
      /\ UNCHANGED <<stand, disk, inSession, restarts, attr, tasks, busy>>
  BY DEF XFvSetup, Reply
<1>8. Watched(attr)'
  BY <1>1, <1>7, WatchedSame
<1> QED BY <1>1, <1>6, <1>7, <1>8 DEF Answered, PlainType

(* The other RPCs change nothing; FactoryReset queues its task.             *)
LEMMA OtherRpcsAnswer ==
  ASSUME RpcInv, Rpc,
         ~(\E list \in ValueLists : SetParameterValues(list)),
         ~(\E list \in AttributeLists : SetParameterAttributes(list)),
         ~(\E mac, stbid \in Val \ BoolText : XFvSetup(mac, stbid))
  PROVE  /\ Answered
         /\ UNCHANGED <<box, attr, busy>>
         /\ reply'.rpc # "SetParameterValues"
         /\ reply'.code # 0 => UNCHANGED tasks
<1>1. box \in Boxes /\ Watched(attr) /\ PlainType
  BY PartsOfInv
<1>2. ASSUME NEW rpc, NEW args, NEW code, NEW items, NEW answers,
             Reply(rpc, args, code, items, answers), rpc # "SetParameterValues",
             UNCHANGED <<box, attr, busy>>,
             UNCHANGED tasks \/ (code = 0 /\ tasks' = Append(tasks, "FACTORY_RESET"))
      PROVE  /\ Answered
             /\ UNCHANGED <<box, attr, busy>>
             /\ reply'.rpc # "SetParameterValues"
             /\ reply'.code # 0 => UNCHANGED tasks
  <2>1. reply'.rpc = rpc /\ reply'.code = code
    BY <1>2 DEF Reply
  <2>2. /\ inSession /\ rpcs < MaxRpc /\ rpcs' = rpcs + 1
        /\ UNCHANGED <<stand, disk, inSession, restarts>>
    BY <1>2 DEF Reply
  <2>3. Watched(attr)'
    BY <1>1, <1>2, <2>2, WatchedSame
  <2>4. tasks' \in Seq(TaskNames)
    BY <1>1, <1>2 DEF PlainType, TaskNames
  <2> QED BY <1>1, <1>2, <2>1, <2>2, <2>3, <2>4 DEF Answered, PlainType
<1>3. CASE \E names \in NameLists : GetParameterValues(names)
  <2>1. PICK names \in NameLists : GetParameterValues(names)
    BY <1>3
  <2>2. \E code, answers : Reply("GetParameterValues", names, code, <<>>, answers)
    BY <2>1 DEF GetParameterValues, GetReply
  <2> QED BY <1>2, <2>1, <2>2 DEF GetParameterValues, GetReply
<1>4. CASE \E names \in NameLists : GetParameterAttributes(names)
  <2>1. PICK names \in NameLists : GetParameterAttributes(names)
    BY <1>4
  <2>2. \E code, answers : Reply("GetParameterAttributes", names, code, <<>>, answers)
    BY <2>1 DEF GetParameterAttributes, GetReply
  <2> QED BY <1>2, <2>1, <2>2 DEF GetParameterAttributes, GetReply
<1>5. CASE \E path \in UNION {Range(names) : names \in NameLists} : GetParameterNames(path)
  <2>1. PICK path : GetParameterNames(path)
    BY <1>5
  <2>2. \E code, answers : Reply("GetParameterNames", <<path>>, code, <<>>, answers)
    BY <2>1 DEF GetParameterNames
  <2> QED BY <1>2, <2>1, <2>2 DEF GetParameterNames
<1>6. CASE FactoryReset
  BY <1>2, <1>6 DEF FactoryReset
<1>7. CASE \E rpc \in {"GetParameterNames", "GetParameterValues",
                       "GetParameterAttributes", "X_FV_Setup"} :
             \E code : MalformedRpc(rpc, code)
  BY <1>2, <1>7 DEF MalformedRpc
<1>8. CASE UnknownRpc
  BY <1>2, <1>8 DEF UnknownRpc
<1> QED BY <1>3, <1>4, <1>5, <1>6, <1>7, <1>8 DEF Rpc

(* Every RPC answers.                                                       *)
LEMMA RpcAnswers ==
  ASSUME RpcInv, Rpc
  PROVE  Answered
<1>1. CASE \E list \in ValueLists : SetParameterValues(list)
  BY <1>1, SetParameterValuesAnswers
<1>2. CASE \E list \in AttributeLists : SetParameterAttributes(list)
  BY <1>2, SetParameterAttributesAnswers
<1>3. CASE \E mac, stbid \in Val \ BoolText : XFvSetup(mac, stbid)
  BY <1>3, XFvSetupAnswers
<1> QED BY <1>1, <1>2, <1>3, OtherRpcsAnswer

(* What an answer leaves is typed and will be saved.                        *)
LEMMA RpcKeepsInv ==
  ASSUME RpcInv, Rpc
  PROVE  RpcInv'
<1>1. Answered
  BY RpcAnswers
<1>2. box \in Boxes /\ disk \in [Key -> Val] /\ stand \in Stand /\ PlainType /\ ChangedIsSaved
  BY PartsOfInv
<1>3. ASSUME box'.conf # disk' PROVE inSession' /\ box'.setFlag
  <2>1. inSession' /\ disk' = disk
    BY <1>1 DEF Answered
  <2>2. CASE box' = box
    BY <1>2, <1>3, <2>1, <2>2 DEF ChangedIsSaved
  <2>3. CASE Grown(box', Unrestarted)
    <3>1. Unrestarted.conf = box.conf /\ (box.setFlag => Unrestarted.setFlag)
      BY <1>2 DEF Unrestarted, Boxes
    <3>2. CASE box'.conf = box.conf
      <4>1. box.setFlag
        BY <1>2, <1>3, <2>1, <3>2 DEF ChangedIsSaved
      <4> QED BY <2>1, <2>3, <3>1, <4>1 DEF Grown
    <3>3. CASE box'.conf # box.conf
      BY <2>1, <2>3, <3>1, <3>3 DEF Grown
    <3> QED BY <3>2, <3>3
  <2> QED BY <1>1, <2>2, <2>3 DEF Answered
<1>4. ChangedIsSaved'
  BY <1>3 DEF ChangedIsSaved
<1>5. /\ box' \in Boxes /\ disk' \in [Key -> Val] /\ stand' \in Stand
      /\ Watched(attr)'
  BY <1>1, <1>2 DEF Answered
<1>6. PlainType'
  <2>1. rpcs' \in 0 .. MaxRpc
    <3>1. rpcs \in 0 .. MaxRpc /\ rpcs < MaxRpc /\ rpcs' = rpcs + 1
      BY <1>1, <1>2 DEF Answered, PlainType
    <3> QED BY <3>1, Bounds
  <2>2. inSession' \in BOOLEAN /\ restarts' \in 0 .. MaxRestart
    BY <1>1, <1>2 DEF Answered, PlainType
  <2> QED BY <1>1, <2>1, <2>2 DEF Answered, PlainType
<1>7. (box \in Boxes /\ disk \in [Key -> Val] /\ stand \in Stand
       /\ Watched(attr) /\ ChangedIsSaved /\ PlainType)'
  BY <1>4, <1>5, <1>6 DEF Boxes
<1> QED BY <1>7, PartsOfInv, PTL

(* Sessions, tasks, tests and restarts keep it too, and count no RPC.       *)
LEMMA AroundKeepsInv ==
  ASSUME RpcInv,
         SessionStart \/ SessionEnd \/ TakeTask \/ SpeedTestEnds \/ LossTestEnds \/ Restart
  PROVE  RpcInv' /\ rpcs' = rpcs
<1>1. /\ box \in Boxes /\ disk \in [Key -> Val] /\ stand \in Stand
      /\ Watched(attr) /\ PlainType /\ ChangedIsSaved
  BY PartsOfInv
<1> SUFFICES /\ box' \in Boxes /\ disk' \in [Key -> Val] /\ stand' = stand
             /\ Watched(attr)' /\ PlainType' /\ ChangedIsSaved' /\ rpcs' = rpcs
  <2>1. (box \in Boxes /\ disk \in [Key -> Val] /\ stand \in Stand
         /\ Watched(attr) /\ ChangedIsSaved /\ PlainType)' /\ rpcs' = rpcs
    BY <1>1 DEF Boxes
  <2> QED BY <2>1, PartsOfInv, PTL
<1>2. CASE SessionStart
  <2>1. Watched(attr)'
    BY <1>1, <1>2, WatchedSame DEF SessionStart
  <2>2. box' \in Boxes /\ box'.conf = box.conf
    BY <1>1, <1>2 DEF SessionStart, Boxes
  <2>3. box.conf = disk
    BY <1>1, <1>2 DEF SessionStart, ChangedIsSaved
  <2> QED BY <1>1, <1>2, <2>1, <2>2, <2>3 DEF SessionStart, ChangedIsSaved, PlainType
<1>3. CASE SessionEnd
  <2>1. Watched(attr)'
    BY <1>1, <1>3, WatchedSame DEF SessionEnd
  <2>2. box.conf \in [Key -> Val]
    BY <1>1 DEF Boxes
  <2>3. box' = box /\ disk' = box.conf
    BY <1>1, <1>3 DEF SessionEnd, ChangedIsSaved
  <2> QED BY <1>1, <1>3, <2>1, <2>2, <2>3 DEF SessionEnd, ChangedIsSaved, PlainType
<1>4. CASE TakeTask
  <2>1. Watched(attr)'
    BY <1>1, <1>4, WatchedSame DEF TakeTask
  <2>2. PlainType'
    <3>1. Tail(tasks) \in Seq(TaskNames)
      BY <1>1, <1>4 DEF TakeTask, PlainType
    <3> QED BY <1>1, <1>4, <3>1 DEF TakeTask, PlainType
  <2> QED BY <1>1, <1>4, <2>1, <2>2 DEF TakeTask, ChangedIsSaved
<1>5. CASE SpeedTestEnds
  <2>1. Watched(attr)'
    BY <1>1, <1>5, WatchedSame DEF SpeedTestEnds
  <2>2. box' \in Boxes /\ box'.conf = box.conf /\ box'.setFlag = box.setFlag
    <3>1. "false" \in Val
      BY RpcAssumption DEF RpcAssumption
    <3> QED BY <1>1, <1>5, <3>1 DEF SpeedTestEnds, Boxes
  <2> QED BY <1>1, <1>5, <2>1, <2>2 DEF SpeedTestEnds, ChangedIsSaved, PlainType
<1>6. CASE LossTestEnds
  <2>1. Watched(attr)'
    BY <1>1, <1>6, WatchedSame DEF LossTestEnds
  <2> QED BY <1>1, <1>6, <2>1 DEF LossTestEnds, ChangedIsSaved, PlainType
<1>7. CASE Restart
  <2>1. box' \in Boxes /\ box'.conf = disk'
    BY <1>1, <1>7, FirstBoxType DEF Restart
  <2>2. Watched(attr)'
    <3>1. stand' = stand /\ attr' = FirstAttr(stand)
      BY <1>7 DEF Restart
    <3> QED BY <3>1, FirstAttrWatched DEF Watched
  <2>3. PlainType'
    <3>1. restarts \in 0 .. MaxRestart /\ restarts < MaxRestart /\ restarts' = restarts + 1
      BY <1>1, <1>7 DEF Restart, PlainType
    <3>2. <<>> \in Seq(TaskNames) /\ restarts' \in 0 .. MaxRestart
      BY <3>1, Bounds
    <3> QED BY <1>1, <1>7, <3>2 DEF Restart, PlainType
  <2> QED BY <1>1, <1>7, <2>1, <2>2, <2>3 DEF Restart, ChangedIsSaved
<1> QED BY <1>2, <1>3, <1>4, <1>5, <1>6, <1>7

LEMMA StutterKeepsInv ==
  ASSUME RpcInv, UNCHANGED vars
  PROVE  RpcInv' /\ rpcs' = rpcs
BY DEF vars, RpcInv, TypeOK, ChangedIsSaved, NotifMatchesFlag, NamedCu

LEMMA InvStep == RpcInv /\ [Next]_vars => RpcInv'
BY RpcKeepsInv, AroundKeepsInv, StutterKeepsInv DEF Next

(* Types, that what was changed will be saved, and that the config process  *)
(* watches the keys of the parameters to be notified, in every state.       *)
THEOREM RpcInvariant == Spec => []RpcInv
<1> QED BY InvInit, InvStep, PTL DEF Spec

(* ChangedIsSaved: a value that is not in the files was set in the session  *)
(* that is on, and that session will save it.                               *)
THEOREM ChangesSaved == Spec => []ChangedIsSaved
<1>1. RpcInv => ChangedIsSaved
  BY DEF RpcInv
<1> QED BY <1>1, RpcInvariant, PTL

(* NotifMatchesFlag: the flags of the keys agree with the notifications the *)
(* ACS asked for, after any lists of any length and any restarts.           *)
THEOREM FlagsMatch == Spec => []NotifMatchesFlag
<1>1. RpcInv => NotifMatchesFlag
  BY DEF RpcInv
<1> QED BY <1>1, RpcInvariant, PTL

(* TypeOK: the types of the variables.                                      *)
THEOREM RpcTypes == Spec => []TypeOK
<1>1. RpcInv => TypeOK
  BY DEF RpcInv
<1> QED BY <1>1, RpcInvariant, PTL

-----------------------------------------------------------------------------
(* What an RPC may do.                                                      *)

(* Only an RPC is counted.                                                  *)
LEMMA CountedIsRpc ==
  ASSUME RpcInv, [Next]_vars, rpcs' > rpcs
  PROVE  Rpc
<1>1. rpcs \in Nat
  BY DEF RpcInv, TypeOK
<1>2. rpcs' # rpcs
  BY <1>1
<1> QED BY <1>2, AroundKeepsInv, StutterKeepsInv DEF Next

(* The RPCs that set are told apart by their replies.                       *)
LEMMA SetValuesReply ==
  ASSUME NEW list, SetParameterValues(list)
  PROVE  reply'.rpc = "SetParameterValues" /\ reply'.args = list
         /\ reply'.code = Checked("SetParameterValues", list).code
BY DEF SetParameterValues, Reply

LEMMA SetAttributesReply ==
  ASSUME NEW list, SetParameterAttributes(list)
  PROVE  reply'.rpc = "SetParameterAttributes" /\ reply'.args = list
         /\ reply'.code = Checked("SetParameterAttributes", list).code
BY DEF SetParameterAttributes, Reply

LEMMA SetupReply ==
  ASSUME NEW mac, NEW stbid, XFvSetup(mac, stbid)
  PROVE  reply'.rpc = "X_FV_Setup" /\ reply'.code = 0
BY DEF XFvSetup, Reply

(* SetAllOrNothing: what is answered with a fault has changed nothing.      *)
THEOREM AllOrNothing == Spec => SetAllOrNothing
<1>1. ASSUME RpcInv, [Next]_vars, rpcs' > rpcs, reply'.code # 0
      PROVE  UNCHANGED <<box, attr, tasks, busy>>
  <2>1. Rpc
    BY <1>1, CountedIsRpc
  <2>2. ASSUME NEW list \in ValueLists, SetParameterValues(list)
        PROVE  UNCHANGED <<box, attr, tasks, busy>>
    <3>1. Checked("SetParameterValues", list).code # 0
      BY <1>1, <2>2, SetValuesReply
    <3> QED BY <2>2, <3>1 DEF SetParameterValues
  <2>3. ASSUME NEW list \in AttributeLists, SetParameterAttributes(list)
        PROVE  UNCHANGED <<box, attr, tasks, busy>>
    <3>1. Checked("SetParameterAttributes", list).code # 0
      BY <1>1, <2>3, SetAttributesReply
    <3> QED BY <2>3, <3>1 DEF SetParameterAttributes
  <2>4. ~(\E mac, stbid \in Val \ BoolText : XFvSetup(mac, stbid))
    BY <1>1, SetupReply
  <2> QED BY <1>1, <2>1, <2>2, <2>3, <2>4, OtherRpcsAnswer
<1>2. RpcInv /\ [Next]_vars
        => [rpcs' > rpcs /\ reply'.code # 0 => UNCHANGED <<box, attr, tasks, busy>>]_vars
  BY <1>1
<1> QED BY <1>2, RpcInvariant, PTL DEF Spec, SetAllOrNothing

(* RestartsOnChange: whatever RPC changes when a report is due restarts     *)
(* what reports it.                                                         *)
THEOREM ChangeRestarts == Spec => RestartsOnChange
<1>1. ASSUME RpcInv, [Next]_vars, rpcs' > rpcs, NEW p \in DOMAIN KeyOf,
             box'.conf[KeyOf[p]] # box.conf[KeyOf[p]]
      PROVE  Effect(p) \subseteq box'.effects
  <2>1. Answered
    BY <1>1, CountedIsRpc, RpcAnswers
  <2>2. Grown(box', Unrestarted)
    BY <1>1, <2>1 DEF Answered
  <2>3. Unrestarted.conf = box.conf
    BY <1>1, PartsOfInv DEF Unrestarted, Boxes
  <2> QED BY <1>1, <2>2, <2>3 DEF Grown
<1>2. RpcInv /\ [Next]_vars
        => [rpcs' > rpcs =>
              \A p \in DOMAIN KeyOf : box'.conf[KeyOf[p]] # box.conf[KeyOf[p]]
                                        => Effect(p) \subseteq box'.effects]_vars
  BY <1>1
<1> QED BY <1>2, RpcInvariant, PTL DEF Spec, RestartsOnChange

(* OnlyMeantChange: a notification that is not what it was is one an entry  *)
(* gives that says it means the change.                                     *)
THEOREM MeantChange == Spec => OnlyMeantChange
<1> DEFINE AskedFor(p) == \E i \in 1 .. Len(reply'.args) :
             /\ reply'.args[i].meant
             /\ \E t \in Targets(reply'.args[i]) : t = <<p, attr'.notif[p]>>
<1>1. ASSUME RpcInv, [Next]_vars, rpcs' > rpcs, NEW p \in Param,
             attr'.notif[p] # attr.notif[p]
      PROVE  AskedFor(p)
  <2>1. Rpc /\ attr' # attr /\ attr \in Attributes
    BY <1>1, CountedIsRpc, InvParts
  <2>2. PICK list \in AttributeLists : SetParameterAttributes(list)
    <3>1. ~(\E list \in ValueLists : SetParameterValues(list))
      BY <2>1 DEF SetParameterValues
    <3>2. ~(\E mac, stbid \in Val \ BoolText : XFvSetup(mac, stbid))
      BY <2>1 DEF XFvSetup
    <3> QED BY <1>1, <2>1, <3>1, <3>2, OtherRpcsAnswer
  <2>3. list \in Seq(AttributeEntry) /\ reply'.args = list
    BY <2>2, SetAttributesReply, ListAssumption DEF ListAssumption
  <2>4. attr' = SetAttributes(list)
    BY <2>1, <2>2 DEF SetParameterAttributes
  <2>5. Given(list, Len(list), p, attr'.notif[p])
    BY <1>1, <2>1, <2>3, <2>4, NotificationGiven
  <2> QED BY <2>3, <2>5 DEF Given, Meant
<1>2. RpcInv /\ [Next]_vars
        => [rpcs' > rpcs => \A p \in Param : attr'.notif[p] # attr.notif[p] => AskedFor(p)]_vars
  <2> HIDE DEF AskedFor
  <2> QED BY <1>1
<1> QED BY <1>2, RpcInvariant, PTL DEF Spec, OnlyMeantChange

(* ChangesAsAsked: both.                                                    *)
THEOREM AsAsked == Spec => ChangesAsAsked
<1> QED BY ChangeRestarts, MeantChange DEF ChangesAsAsked

(* LastValueHolds: after an accepted list of values every parameter has the *)
(* last value of the list that its key has room for, and no key has a new   *)
(* value of which the list knows nothing; for any buffers and any lists.    *)
THEOREM LastValues == Spec => LastValueHolds
<1> DEFINE Lasts ==
      LET list == reply'.args IN
      /\ \A i \in 1 .. Len(list) : \A t \in Targets(list[i]) :
           LastTaken(list, i, t) => Holds(box', t[1], t[2])
      /\ \A k \in Key : box'.conf[k] # box.conf[k] => GivenBy(list, k, box'.conf[k])
<1>1. ASSUME RpcInv, [Next]_vars, rpcs' > rpcs,
             reply'.rpc = "SetParameterValues", reply'.code = 0
      PROVE  Lasts
  <2>1. Rpc /\ box \in Boxes
    BY <1>1, CountedIsRpc, InvParts
  <2>2. PICK list \in ValueLists : SetParameterValues(list)
    <3>1. ~(\E list \in AttributeLists : SetParameterAttributes(list))
      BY <1>1, SetAttributesReply
    <3>2. ~(\E mac, stbid \in Val \ BoolText : XFvSetup(mac, stbid))
      BY <1>1, SetupReply
    <3> QED BY <1>1, <2>1, <3>1, <3>2, OtherRpcsAnswer
  <2>3. list \in Seq(Entry(Val)) /\ reply'.args = list
    BY <2>2, SetValuesReply, ListAssumption DEF ListAssumption
  <2>4. box' = SetAll(list)
    BY <1>1, <2>2, SetValuesReply DEF SetParameterValues
  <2>5. ASSUME NEW i \in 1 .. Len(list), NEW t \in Targets(list[i]), LastTaken(list, i, t)
        PROVE  Holds(box', t[1], t[2])
    <3>1. t = <<t[1], t[2]>>
      BY DEF Targets
    <3>2. Held(box', t[1], t[2])
      BY <2>1, <2>3, <2>4, <2>5, <3>1, LastIsHeld
    <3> QED BY <3>2, HeldHolds
  <2>6. \A k \in Key : box'.conf[k] # box.conf[k] => GivenBy(list, k, box'.conf[k])
    BY <2>1, <2>3, <2>4, ChangedIsGiven
  <2> QED BY <2>3, <2>5, <2>6
<1>2. RpcInv /\ [Next]_vars
        => [rpcs' > rpcs /\ reply'.rpc = "SetParameterValues" /\ reply'.code = 0 => Lasts]_vars
  <2> HIDE DEF Lasts
  <2> QED BY <1>1
<1> QED BY <1>2, RpcInvariant, PTL DEF Spec, LastValueHolds

-----------------------------------------------------------------------------
(* What is answered.  Three more folds: the faults of a list, the           *)
(* parameters below an object, the answers to a list of names.              *)

(* A fold of steps that are known for what is in S, as the function that    *)
(* MapThenFoldSet chooses.                                                  *)
FoldsTo(f, n, S, base, step) ==
  /\ f = [s \in SUBSET (1 .. n) |-> f[s]]
  /\ \A s \in SUBSET (1 .. n) : f[s] \in S
  /\ f[{}] = base
  /\ \A s \in SUBSET (1 .. n) : s # {} =>
       /\ Max(s) \in 1 .. n /\ s \ {Max(s)} \in SUBSET (1 .. n)
       /\ f[s] = step[<<f[s \ {Max(s)}], Max(s)>>]

LEMMA FoldFunctionIs ==
  ASSUME NEW n \in Nat, NEW S, NEW base \in S, NEW step \in [S \X (1 .. n) -> S]
  PROVE  \E f : FoldsTo(f, n, S, base, step)
<1>1. PICK h : Folds(h, n, S, base, step)
  BY FoldSteps
<1> DEFINE f == [s \in SUBSET (1 .. n) |-> h[s]]
<1>2. f = [s \in SUBSET (1 .. n) |-> f[s]]
  OBVIOUS
<1>3. f[{}] = base /\ \A s \in SUBSET (1 .. n) : f[s] \in S
  BY <1>1 DEF Folds
<1>4. ASSUME NEW s \in SUBSET (1 .. n), s # {}
      PROVE  /\ Max(s) \in 1 .. n /\ s \ {Max(s)} \in SUBSET (1 .. n)
             /\ f[s] = step[<<f[s \ {Max(s)}], Max(s)>>]
  <2>1. Max(s) \in 1 .. n
    BY <1>4, MaxIn
  <2>2. s \ {Max(s)} \in SUBSET (1 .. n)
    OBVIOUS
  <2>3. h[s] = step[<<h[s \ {Max(s)}], Max(s)>>]
    BY <1>1, <1>4 DEF Folds
  <2> QED BY <2>1, <2>2, <2>3
<1> HIDE DEF f
<1>5. \A s \in SUBSET (1 .. n) : s # {} =>
        /\ Max(s) \in 1 .. n /\ s \ {Max(s)} \in SUBSET (1 .. n)
        /\ f[s] = step[<<f[s \ {Max(s)}], Max(s)>>]
  BY <1>4
<1>6. FoldsTo(f, n, S, base, step)
  BY <1>2, <1>3, <1>5 DEF FoldsTo
<1> QED BY <1>6

(* The faults that the first pass collects, entry by entry.                 *)
IsFaultFold(f, rpc, list) ==
  f = [s \in SUBSET (1 .. Len(list)) |->
         IF s = {} THEN <<>> ELSE AddFault(rpc, f[s \ {Max(s)}], list[Max(s)])]

LEMMA FaultsUnfold ==
  ASSUME NEW X, NEW list \in Seq(X), NEW rpc, NEW h, IsFaultFold(h, rpc, list)
  PROVE  \E f : IsFaultFold(f, rpc, list) /\ Faults(rpc, list) = f[1 .. Len(list)]
<1> DEFINE F == CHOOSE f : IsFaultFold(f, rpc, list)
<1>1. IsFaultFold(F, rpc, list)
  BY Zenon
<1>2. DOMAIN list = 1 .. Len(list)
  OBVIOUS
<1>3. Faults(rpc, list) = F[1 .. Len(list)]
  BY <1>2 DEF Faults, FoldLeft, MapThenFoldSet, IsFaultFold
<1> HIDE DEF F
<1> QED BY <1>1, <1>3

FaultsSteps(g, rpc, list) ==
  /\ g[0] = <<>>
  /\ \A k \in 0 .. Len(list) : g[k] \in Seq({list[i].name : i \in 1 .. Len(list)} \X Nat)
  /\ \A k \in 1 .. Len(list) : g[k] = AddFault(rpc, g[k - 1], list[k])
  /\ Faults(rpc, list) = g[Len(list)]

LEMMA FaultType ==
  ASSUME NEW rpc, NEW e
  PROVE  EntryFault(rpc, e) \in Nat
<1>1. ASSUME NEW n, NEW v PROVE Fault(rpc, n, v) \in Nat
  <2>1. ValueFault(n, v) \in Nat
    BY DEF ValueFault
  <2>2. AttributeFault(n, v) \in Nat
    BY DEF AttributeFault
  <2> QED BY <2>1, <2>2 DEF Fault
<1> QED BY <1>1 DEF EntryFault

LEMMA FaultsTrace ==
  ASSUME NEW X, NEW list \in Seq(X), NEW rpc
  PROVE  \E g : FaultsSteps(g, rpc, list)
<1> DEFINE n == Len(list)
           N == {list[i].name : i \in 1 .. n}
           S == Seq(N \X Nat)
           step == [x \in S \X (1 .. n) |-> AddFault(rpc, x[1], list[x[2]])]
<1>1. n \in Nat /\ <<>> \in S
  OBVIOUS
<1>2. ASSUME NEW b \in S, NEW k \in 1 .. n
      PROVE  AddFault(rpc, b, list[k]) \in S
  <2>1. <<list[k].name, EntryFault(rpc, list[k])>> \in N \X Nat
    BY FaultType
  <2> HIDE DEF N
  <2> QED BY <2>1 DEF AddFault
<1> HIDE DEF N
<1>3. step \in [S \X (1 .. n) -> S]
  BY <1>2
<1>4. ASSUME NEW b \in S, NEW k \in 1 .. n
      PROVE  step[<<b, k>>] = AddFault(rpc, b, list[k])
  OBVIOUS
<1> HIDE DEF step, S
<1>5. PICK h : FoldsTo(h, n, S, <<>>, step)
  <2> HIDE DEF n
  <2> QED BY <1>1, <1>3, FoldFunctionIs
<1>6. \A s \in SUBSET (1 .. n) :
        h[s] = IF s = {} THEN <<>> ELSE AddFault(rpc, h[s \ {Max(s)}], list[Max(s)])
  BY <1>4, <1>5 DEF FoldsTo
<1>7. IsFaultFold(h, rpc, list)
  <2>1. h = [s \in SUBSET (1 .. n) |-> h[s]]
    BY <1>5 DEF FoldsTo
  <2> QED BY <1>6, <2>1, Zenon DEF IsFaultFold
<1>8. PICK f : IsFaultFold(f, rpc, list) /\ Faults(rpc, list) = f[1 .. n]
  BY <1>7, FaultsUnfold
<1>9. f[{}] = <<>>
  BY <1>8, Zenon DEF IsFaultFold
<1>10. ASSUME NEW s \in SUBSET (1 .. n), s # {}, f[s \ {Max(s)}] \in S
       PROVE  f[s] = step[<<f[s \ {Max(s)}], Max(s)>>]
  <2>1. Max(s) \in 1 .. n
    BY <1>1, <1>10, MaxIn
  <2>2. f[s] = AddFault(rpc, f[s \ {Max(s)}], list[Max(s)])
    BY <1>8, <1>10, Zenon DEF IsFaultFold
  <2> HIDE DEF n
  <2> QED BY <1>4, <1>10, <2>1, <2>2
<1>11. Traces(f, n, S, <<>>, step)
  <2> HIDE DEF n
  <2>1. Follows(f, n, S, <<>>, step)
    BY <1>1, <1>3, <1>9, <1>10 DEF Follows
  <2> QED BY <2>1, FoldTrace
<1> DEFINE g == [k \in 0 .. n |-> f[1 .. k]]
<1>12. ASSUME NEW k \in 1 .. n
       PROVE  g[k] = AddFault(rpc, g[k - 1], list[k])
  <2>1. k - 1 \in 0 .. n /\ k \in 0 .. n
    BY <1>1
  <2>2. f[1 .. k] = AddFault(rpc, f[1 .. k - 1], list[k])
    BY <1>4, <1>11, <2>1 DEF Traces
  <2> QED BY <2>1, <2>2
<1>13. g[0] = <<>> /\ g[n] = Faults(rpc, list) /\ \A k \in 0 .. n : g[k] \in S
  BY <1>1, <1>8, <1>11 DEF Traces
<1> HIDE DEF g
<1>14. FaultsSteps(g, rpc, list)
  BY <1>12, <1>13 DEF FaultsSteps, S, N
<1> QED BY <1>14

(* The names that a list of faults gives.                                   *)
Listed(faults) == {faults[i][1] : i \in 1 .. Len(faults)}

LEMMA AppendListed ==
  ASSUME NEW S, NEW s \in Seq(S), NEW p \in S
  PROVE  Listed(Append(s, p)) = Listed(s) \cup {p[1]}
<1> DEFINE t == Append(s, p)
<1>1. Len(t) = Len(s) + 1 /\ Len(s) \in Nat /\ t[Len(s) + 1] = p
      /\ \A i \in 1 .. Len(s) : t[i] = s[i]
  OBVIOUS
<1>2. 1 .. Len(s) + 1 = (1 .. Len(s)) \cup {Len(s) + 1}
  BY <1>1
<1> HIDE DEF t
<1>3. Listed(t) = {t[i][1] : i \in (1 .. Len(s)) \cup {Len(s) + 1}}
  BY <1>1, <1>2 DEF Listed
<1>4. Listed(t) = {t[i][1] : i \in 1 .. Len(s)} \cup {t[Len(s) + 1][1]}
  BY <1>3
<1>5. {t[i][1] : i \in 1 .. Len(s)} = Listed(s)
  BY <1>1 DEF Listed
<1>6. Listed(t) = Listed(s) \cup {p[1]}
  BY <1>1, <1>4, <1>5
<1> QED BY <1>6 DEF t

(* The names of the entries at fault up to one of them.                     *)
AtFault(rpc, list, k) == {list[i].name : i \in {j \in 1 .. k : EntryFault(rpc, list[j]) # 0}}

LEMMA FaultsListed ==
  ASSUME NEW X, NEW list \in Seq(X), NEW rpc
  PROVE  Listed(Faults(rpc, list)) = AtFault(rpc, list, Len(list))
<1> DEFINE n == Len(list)
           N == {list[i].name : i \in 1 .. Len(list)}
<1>1. PICK g : FaultsSteps(g, rpc, list)
  BY FaultsTrace
<1> DEFINE T == {k \in Nat : k <= n => Listed(g[k]) = AtFault(rpc, list, k)}
<1>2. 0 \in T
  <2>1. g[0] = <<>>
    BY <1>1 DEF FaultsSteps
  <2>2. Listed(<<>>) = {}
    BY DEF Listed
  <2>3. AtFault(rpc, list, 0) = {}
    BY DEF AtFault
  <2> QED BY <2>1, <2>2, <2>3
<1>3. ASSUME NEW k \in Nat, k \in T PROVE k + 1 \in T
  <2> SUFFICES ASSUME k + 1 <= n PROVE Listed(g[k + 1]) = AtFault(rpc, list, k + 1)
    OBVIOUS
  <2> DEFINE e == list[k + 1]
  <2>1. k \in 0 .. n /\ k + 1 \in 1 .. n /\ (k + 1) - 1 = k /\ n \in Nat
    OBVIOUS
  <2>2. Listed(g[k]) = AtFault(rpc, list, k)
    BY <1>3, <2>1
  <2>3. g[k + 1] = AddFault(rpc, g[k], e) /\ g[k] \in Seq(N \X Nat)
    BY <1>1, <2>1 DEF FaultsSteps
  <2>4. 1 .. k + 1 = (1 .. k) \cup {k + 1}
    OBVIOUS
  <2>5. CASE EntryFault(rpc, e) = 0
    <3>1. {j \in 1 .. k + 1 : EntryFault(rpc, list[j]) # 0}
            = {j \in 1 .. k : EntryFault(rpc, list[j]) # 0}
      BY <2>4, <2>5
    <3>2. g[k + 1] = g[k]
      BY <2>3, <2>5 DEF AddFault
    <3> QED BY <2>2, <3>1, <3>2 DEF AtFault
  <2>6. CASE EntryFault(rpc, e) # 0
    <3>1. {j \in 1 .. k + 1 : EntryFault(rpc, list[j]) # 0}
            = {j \in 1 .. k : EntryFault(rpc, list[j]) # 0} \cup {k + 1}
      BY <2>4, <2>6
    <3>2. g[k + 1] = Append(g[k], <<e.name, EntryFault(rpc, e)>>)
      BY <2>3, <2>6 DEF AddFault
    <3>3. e.name \in N /\ EntryFault(rpc, e) \in Nat
      BY <2>1, FaultType
    <3>4. Listed(g[k + 1]) = Listed(g[k]) \cup {e.name}
      <4>1. PICK p \in N \X Nat : p = <<e.name, EntryFault(rpc, e)>>
        BY <3>3
      <4>2. PICK S : S = N \X Nat
        OBVIOUS
      <4>3. g[k] \in Seq(S) /\ p \in S
        BY <2>3, <4>2
      <4> HIDE DEF N, e
      <4>4. Listed(Append(g[k], p)) = Listed(g[k]) \cup {p[1]}
        BY ONLY <4>3, AppendListed
      <4> QED BY <3>2, <4>1, <4>4
    <3>5. AtFault(rpc, list, k + 1) = AtFault(rpc, list, k) \cup {e.name}
      BY <3>1 DEF AtFault
    <3> QED BY <2>2, <3>4, <3>5
  <2> QED BY <2>5, <2>6
<1>4. Nat \subseteq T
  <2> HIDE DEF T
  <2> QED BY <1>2, <1>3, Induction
<1>5. n \in T /\ n \in Nat
  BY <1>4
<1>6. Listed(g[n]) = AtFault(rpc, list, n)
  BY <1>5
<1> QED BY <1>1, <1>6 DEF FaultsSteps

(* A malformed entry, or none.                                              *)
LEMMA FirstBroken ==
  ASSUME NEW X, NEW list \in Seq(X), NEW broken,
         broken = SelectInSeq(list, LAMBDA e : FormFault(e) # 0)
  PROVE  \/ broken \in 1 .. Len(list) /\ FormFault(list[broken]) # 0
         \/ broken = 0 /\ \A i \in 1 .. Len(list) : FormFault(list[i]) = 0
<1> DEFINE I == {i \in 1 .. Len(list) : FormFault(list[i]) # 0}
<1>1. broken = IF I # {} THEN Min(I) ELSE 0
  BY DEF SelectInSeq
<1>2. I \in SUBSET Nat
  OBVIOUS
<1>3. CASE I = {}
  BY <1>1, <1>3
<1>4. CASE I # {}
  <2>1. broken \in I
    <3> HIDE DEF I
    <3> QED BY <1>1, <1>2, <1>4, MinOf
  <2> QED BY <2>1
<1> QED BY <1>3, <1>4

LEMMA FaultOfTarget ==
  ASSUME NEW rpc, NEW e
  PROVE  EntryFault(rpc, e) # 0 <=> \E t \in Targets(e) : Fault(rpc, t[1], t[2]) # 0
<1> DEFINE wrong(t) == Fault(rpc, t[1], t[2]) # 0
<1>1. CASE e.name # DNSServers
  <2>1. Targets(e) = {<<e.name, e.value[1]>>}
    BY <1>1 DEF Targets
  <2>2. EntryFault(rpc, e) = Fault(rpc, e.name, e.value[1])
    BY <1>1 DEF EntryFault
  <2> QED BY <2>1, <2>2
<1>2. CASE e.name = DNSServers /\ Len(e.value) = 2
  <2>1. Targets(e) = {<<"DNSServer0Real", e.value[1]>>, <<"DNSServer1Real", e.value[2]>>}
    BY <1>2 DEF Targets
  <2>2. EntryFault(rpc, e) = IF Fault(rpc, "DNSServer1Real", e.value[2]) # 0
                             THEN Fault(rpc, "DNSServer1Real", e.value[2])
                             ELSE Fault(rpc, "DNSServer0Real", e.value[1])
    BY <1>2 DEF EntryFault
  <2>3. (\E t \in Targets(e) : wrong(t)) <=> \/ wrong(<<"DNSServer0Real", e.value[1]>>)
                                            \/ wrong(<<"DNSServer1Real", e.value[2]>>)
    <3> HIDE DEF wrong
    <3> QED BY <2>1
  <2> QED BY <2>2, <2>3
<1>3. CASE e.name = DNSServers /\ Len(e.value) # 2
  <2>1. Targets(e) = {<<"DNSServer0Real", e.value[1]>>}
    BY <1>3 DEF Targets
  <2>2. EntryFault(rpc, e) = Fault(rpc, "DNSServer0Real", e.value[1])
    BY <1>3 DEF EntryFault
  <2> QED BY <2>1, <2>2
<1> QED BY <1>1, <1>2, <1>3

(* FaultsExplain, of a reply.                                               *)
AskedWrong(rpc, list) ==
  {e.name : e \in {f \in Range(list) : \E t \in Targets(f) : Fault(rpc, t[1], t[2]) # 0}}
Explains(rpc, list, code, items) ==
  IF \E i \in 1 .. Len(list) : FormFault(list[i]) # 0
  THEN code # 0 /\ Listed(items) = {}
  ELSE /\ Listed(items) = AskedWrong(rpc, list)
       /\ (code = 0) = (Listed(items) = {})

LEMMA CheckedExplains ==
  ASSUME NEW X, NEW list \in Seq(X), NEW rpc
  PROVE  Explains(rpc, list, Checked(rpc, list).code, Checked(rpc, list).items)
<1> DEFINE n == Len(list)
           broken == SelectInSeq(list, LAMBDA e : FormFault(e) # 0)
           bad == \E i \in 1 .. n : EntryFault(rpc, list[i]) # 0
           code == Checked(rpc, list).code
           items == Checked(rpc, list).items
<1>1. /\ code = IF broken # 0 THEN FormFault(list[broken]) ELSE IF bad THEN 9003 ELSE 0
      /\ items = IF broken # 0 THEN <<>> ELSE Faults(rpc, list)
  BY DEF Checked
<1>2. \/ broken \in 1 .. n /\ FormFault(list[broken]) # 0
      \/ broken = 0 /\ \A i \in 1 .. n : FormFault(list[i]) = 0
  <2> HIDE DEF broken
  <2>1. \A b : b = SelectInSeq(list, LAMBDA e : FormFault(e) # 0) =>
          \/ b \in 1 .. Len(list) /\ FormFault(list[b]) # 0
          \/ b = 0 /\ \A i \in 1 .. Len(list) : FormFault(list[i]) = 0
    BY FirstBroken
  <2> QED BY <2>1 DEF broken
<1>3. Listed(Faults(rpc, list)) = AtFault(rpc, list, n)
  BY FaultsListed
<1>4. AtFault(rpc, list, n) = AskedWrong(rpc, list)
  <2>1. AtFault(rpc, list, n)
          = {e.name : e \in {f \in Range(list) : EntryFault(rpc, f) # 0}}
    BY DEF AtFault, Range
  <2> QED BY <2>1, FaultOfTarget DEF AskedWrong
<1>5. bad <=> AtFault(rpc, list, n) # {}
  BY DEF AtFault
<1> HIDE DEF broken, bad, code, items
<1>6. CASE broken # 0
  <2>1. broken \in 1 .. n /\ FormFault(list[broken]) # 0
    BY <1>2, <1>6
  <2>2. Listed(<<>>) = {}
    BY DEF Listed
  <2> QED BY <1>1, <1>6, <2>1, <2>2 DEF Explains, code, items
<1>7. CASE broken = 0
  <2>1. \A i \in 1 .. n : FormFault(list[i]) = 0
    BY <1>2, <1>7
  <2>2. Listed(items) = AskedWrong(rpc, list)
    BY <1>1, <1>3, <1>4, <1>7
  <2>3. code = 0 <=> Listed(items) = {}
    BY <1>1, <1>3, <1>5, <1>7
  <2> QED BY <2>1, <2>2, <2>3 DEF Explains, code, items
<1> QED BY <1>6, <1>7

(* The parameters of an object are some of those below it.                  *)
Chosen(found, p) == IF p \in Names THEN Append(found, p) ELSE found

IsChoiceFold(f, n) ==
  f = [s \in SUBSET (1 .. Len(Below[n])) |->
         IF s = {} THEN <<>> ELSE Chosen(f[s \ {Max(s)}], Below[n][Max(s)])]

LEMMA GetParamUnfolds ==
  ASSUME NEW n \in DOMAIN Below \ Names, NEW h, IsChoiceFold(h, n)
  PROVE  \E f : IsChoiceFold(f, n) /\ GetParam(n) = f[1 .. Len(Below[n])]
<1> DEFINE F == CHOOSE f : IsChoiceFold(f, n)
           found == FoldLeft(LAMBDA found, p : IF p \in Names THEN Append(found, p) ELSE found,
                             <<>>, Below[n])
<1>1. IsChoiceFold(F, n)
  BY Zenon
<1>2. Below[n] \in Seq(Param)
  BY ListAssumption DEF ListAssumption
<1>3. DOMAIN Below[n] = 1 .. Len(Below[n])
  BY <1>2
<1>4. found = F[1 .. Len(Below[n])]
  BY <1>3 DEF FoldLeft, MapThenFoldSet, IsChoiceFold, Chosen
<1>5. GetParam(n) = found
  <2> HIDE DEF found
  <2>1. n \notin Names /\ n \in DOMAIN Below \ Names
    OBVIOUS
  <2> QED BY <2>1 DEF GetParam, found
<1> HIDE DEF F, found
<1> QED BY <1>1, <1>4, <1>5

LEMMA BelowObject ==
  ASSUME NEW o \in DOMAIN Below \ Names
  PROVE  GetParam(o) \in Seq(Range(Below[o]))
<1> DEFINE n == Len(Below[o])
           S == Seq(Range(Below[o]))
           step == [x \in S \X (1 .. n) |-> Chosen(x[1], Below[o][x[2]])]
<1>0. Below[o] \in Seq(Param)
  BY ListAssumption DEF ListAssumption
<1>1. n \in Nat /\ <<>> \in S
  BY <1>0
<1>2. ASSUME NEW b \in S, NEW k \in 1 .. n
      PROVE  Chosen(b, Below[o][k]) \in S
  <2>1. Below[o][k] \in Range(Below[o])
    BY <1>0 DEF Range
  <2> QED BY <2>1 DEF Chosen
<1>3. step \in [S \X (1 .. n) -> S]
  BY <1>2
<1>4. ASSUME NEW b \in S, NEW k \in 1 .. n
      PROVE  step[<<b, k>>] = Chosen(b, Below[o][k])
  OBVIOUS
<1> HIDE DEF step, S
<1>5. PICK h : FoldsTo(h, n, S, <<>>, step)
  <2> HIDE DEF n
  <2> QED BY <1>1, <1>3, FoldFunctionIs
<1>6. \A s \in SUBSET (1 .. n) :
        h[s] = IF s = {} THEN <<>> ELSE Chosen(h[s \ {Max(s)}], Below[o][Max(s)])
  BY <1>4, <1>5 DEF FoldsTo
<1>7. IsChoiceFold(h, o)
  <2>1. h = [s \in SUBSET (1 .. n) |-> h[s]]
    BY <1>5 DEF FoldsTo
  <2> QED BY <1>6, <2>1, Zenon DEF IsChoiceFold
<1>8. PICK f : IsChoiceFold(f, o) /\ GetParam(o) = f[1 .. n]
  BY <1>7, GetParamUnfolds
<1>9. f[{}] = <<>>
  BY <1>8, Zenon DEF IsChoiceFold
<1>10. ASSUME NEW s \in SUBSET (1 .. n), s # {}, f[s \ {Max(s)}] \in S
       PROVE  f[s] = step[<<f[s \ {Max(s)}], Max(s)>>]
  <2>1. Max(s) \in 1 .. n
    BY <1>1, <1>10, MaxIn
  <2>2. f[s] = Chosen(f[s \ {Max(s)}], Below[o][Max(s)])
    BY <1>8, <1>10, Zenon DEF IsChoiceFold
  <2> HIDE DEF n
  <2> QED BY <1>4, <1>10, <2>1, <2>2
<1>11. Traces(f, n, S, <<>>, step)
  <2> HIDE DEF n
  <2>1. Follows(f, n, S, <<>>, step)
    BY <1>1, <1>3, <1>9, <1>10 DEF Follows
  <2> QED BY <2>1, FoldTrace
<1>12. f[1 .. n] \in S
  BY <1>1, <1>11 DEF Traces
<1> QED BY <1>8, <1>12 DEF S

LEMMA GetParamType ==
  ASSUME NEW n
  PROVE  /\ Len(GetParam(n)) \in Nat
         /\ GetParam(n) # <<>> => 1 \in 1 .. Len(GetParam(n))
         /\ \A j \in 1 .. Len(GetParam(n)) :
              \/ GetParam(n)[j] = n
              \/ n \in DOMAIN Below /\ GetParam(n)[j] \in Range(Below[n])
<1>1. CASE n \in Names
  <2>1. GetParam(n) = <<n>>
    BY <1>1 DEF GetParam
  <2> QED BY <2>1
<1>2. CASE n \in DOMAIN Below \ Names
  <2>1. PICK S : S = Range(Below[n])
    OBVIOUS
  <2>2. PICK s \in Seq(S) : s = GetParam(n)
    BY <1>2, <2>1, BelowObject
  <2>3. Len(s) \in Nat /\ (s # <<>> => 1 \in 1 .. Len(s)) /\ \A j \in 1 .. Len(s) : s[j] \in S
    OBVIOUS
  <2> QED BY <1>2, <2>1, <2>2, <2>3
<1>3. CASE n \notin Names /\ n \notin DOMAIN Below
  <2>1. GetParam(n) = <<>>
    BY <1>3 DEF GetParam
  <2> QED BY <2>1
<1> QED BY <1>1, <1>2, <1>3

(* The answers to a list of names, name by name.                            *)
IsAnswerFold(f, rpc, names) ==
  f = [s \in SUBSET (1 .. Len(names)) |->
         IF s = {} THEN <<>> ELSE f[s \ {Max(s)}] \o Answers(rpc, names[Max(s)])]

LEMMA AnswersUnfold ==
  ASSUME NEW names \in Seq(STRING), NEW rpc, NEW h, IsAnswerFold(h, rpc, names)
  PROVE  \E f : IsAnswerFold(f, rpc, names) /\ AnswerAll(rpc, names) = f[1 .. Len(names)]
<1> DEFINE F == CHOOSE f : IsAnswerFold(f, rpc, names)
<1>1. IsAnswerFold(F, rpc, names)
  BY Zenon
<1>2. DOMAIN names = 1 .. Len(names)
  OBVIOUS
<1>3. AnswerAll(rpc, names) = F[1 .. Len(names)]
  BY <1>2 DEF AnswerAll, FoldLeft, MapThenFoldSet, IsAnswerFold
<1> HIDE DEF F
<1> QED BY <1>1, <1>3

(* The answers to a name are for what it stands for, and there is one.      *)
AnswerTo(n, answer) == \/ answer[1] = n
                       \/ n \in DOMAIN Below /\ answer[1] \in Range(Below[n])

LEMMA AnswersType ==
  ASSUME NEW rpc, NEW n
  PROVE  /\ Answers(rpc, n) \in Seq(Range(Answers(rpc, n)))
         /\ ~Unknown(n) => \E j \in 1 .. Len(Answers(rpc, n)) : AnswerTo(n, Answers(rpc, n)[j])
<1>1. CASE n = DNSServers
  <2> DEFINE x == <<DNSServers, <<Got(rpc, "DNSServer0Real"), Got(rpc, "DNSServer1Real")>> >>
  <2>1. Answers(rpc, n) = <<x>> /\ x[1] = n
    BY <1>1 DEF Answers
  <2> HIDE DEF x
  <2>2. <<x>> \in Seq({x}) /\ Range(<<x>>) = {x} /\ Len(<<x>>) = 1 /\ <<x>>[1] = x
    BY DEF Range
  <2> QED BY <2>1, <2>2 DEF AnswerTo
<1>3. CASE n # DNSServers /\ rpc = "GetParameterValues" /\ n \in Passwords
  <2> DEFINE x == <<n, "">>
  <2>1. Answers(rpc, n) = <<x>> /\ x[1] = n
    BY <1>3 DEF Answers
  <2> HIDE DEF x
  <2>2. <<x>> \in Seq({x}) /\ Range(<<x>>) = {x} /\ Len(<<x>>) = 1 /\ <<x>>[1] = x
    BY DEF Range
  <2> QED BY <2>1, <2>2 DEF AnswerTo
<1>2. CASE n # DNSServers /\ ~(rpc = "GetParameterValues" /\ n \in Passwords)
  <2> DEFINE m == Len(GetParam(n))
             a == [j \in 1 .. m |-> <<GetParam(n)[j], Got(rpc, GetParam(n)[j])>>]
  <2>1. Answers(rpc, n) = a
    BY <1>2 DEF Answers
  <2>2. m \in Nat /\ (~Unknown(n) => 1 \in 1 .. m)
        /\ \A j \in 1 .. m : AnswerTo(n, <<GetParam(n)[j], Got(rpc, GetParam(n)[j])>>)
    BY <1>2, GetParamType DEF Unknown, AnswerTo
  <2> HIDE DEF m
  <2>3. DOMAIN a = 1 .. m /\ \A j \in 1 .. m : AnswerTo(n, a[j])
    BY <2>2
  <2>4. a = [j \in 1 .. m |-> a[j]]
    OBVIOUS
  <2> HIDE DEF a
  <2>5. a \in [1 .. m -> Range(a)]
    BY <2>3, <2>4 DEF Range
  <2>6. a \in Seq(Range(a)) /\ Len(a) = m
    BY <2>2, <2>5
  <2> QED BY <2>1, <2>2, <2>3, <2>6
<1> QED BY <1>1, <1>2, <1>3

(* A list of known names is answered whole.                                 *)
AnswersSteps(g, X, rpc, names) ==
  /\ \A k \in 0 .. Len(names) : g[k] \in Seq(X)
  /\ \A k \in 1 .. Len(names) : /\ Answers(rpc, names[k]) \in Seq(X)
                                /\ g[k] = g[k - 1] \o Answers(rpc, names[k])
  /\ AnswerAll(rpc, names) = g[Len(names)]

LEMMA AnswersTrace ==
  ASSUME NEW names \in Seq(STRING), NEW rpc
  PROVE  \E g, X : AnswersSteps(g, X, rpc, names)
<1> DEFINE n == Len(names)
           X == UNION {Range(Answers(rpc, names[k])) : k \in 1 .. n}
           S == Seq(X)
           step == [x \in S \X (1 .. n) |-> x[1] \o Answers(rpc, names[x[2]])]
<1>1. n \in Nat /\ <<>> \in S
  OBVIOUS
<1>2. ASSUME NEW k \in 1 .. n PROVE Answers(rpc, names[k]) \in S
  <2>1. PICK T : T = Range(Answers(rpc, names[k]))
    OBVIOUS
  <2>2. T \subseteq X
    BY <2>1
  <2>3. Answers(rpc, names[k]) \in Seq(T)
    BY <2>1, AnswersType
  <2> HIDE DEF X
  <2> QED BY <2>2, <2>3
<1> HIDE DEF X
<1>3. ASSUME NEW b \in S, NEW k \in 1 .. n
      PROVE  b \o Answers(rpc, names[k]) \in S
  BY <1>2
<1>4. step \in [S \X (1 .. n) -> S]
  BY <1>3
<1>5. ASSUME NEW b \in S, NEW k \in 1 .. n
      PROVE  step[<<b, k>>] = b \o Answers(rpc, names[k])
  OBVIOUS
<1> HIDE DEF step, S
<1>6. PICK h : FoldsTo(h, n, S, <<>>, step)
  <2> HIDE DEF n
  <2> QED BY <1>1, <1>4, FoldFunctionIs
<1>7. \A s \in SUBSET (1 .. n) :
        h[s] = IF s = {} THEN <<>> ELSE h[s \ {Max(s)}] \o Answers(rpc, names[Max(s)])
  BY <1>5, <1>6 DEF FoldsTo
<1>8. IsAnswerFold(h, rpc, names)
  <2>1. h = [s \in SUBSET (1 .. n) |-> h[s]]
    BY <1>6 DEF FoldsTo
  <2> QED BY <1>7, <2>1, Zenon DEF IsAnswerFold
<1>9. PICK f : IsAnswerFold(f, rpc, names) /\ AnswerAll(rpc, names) = f[1 .. n]
  BY <1>8, AnswersUnfold
<1>10. f[{}] = <<>>
  BY <1>9, Zenon DEF IsAnswerFold
<1>11. ASSUME NEW s \in SUBSET (1 .. n), s # {}, f[s \ {Max(s)}] \in S
       PROVE  f[s] = step[<<f[s \ {Max(s)}], Max(s)>>]
  <2>1. Max(s) \in 1 .. n
    BY <1>1, <1>11, MaxIn
  <2>2. f[s] = f[s \ {Max(s)}] \o Answers(rpc, names[Max(s)])
    BY <1>9, <1>11, Zenon DEF IsAnswerFold
  <2> HIDE DEF n
  <2> QED BY <1>5, <1>11, <2>1, <2>2
<1>12. Traces(f, n, S, <<>>, step)
  <2> HIDE DEF n
  <2>1. Follows(f, n, S, <<>>, step)
    BY <1>1, <1>4, <1>10, <1>11 DEF Follows
  <2> QED BY <2>1, FoldTrace
<1> DEFINE g == [k \in 0 .. n |-> f[1 .. k]]
<1>13. ASSUME NEW k \in 1 .. n
       PROVE  g[k] = g[k - 1] \o Answers(rpc, names[k])
  <2>1. k - 1 \in 0 .. n /\ k \in 0 .. n
    BY <1>1
  <2>2. f[1 .. k] = f[1 .. k - 1] \o Answers(rpc, names[k])
    BY <1>5, <1>12, <2>1 DEF Traces
  <2> QED BY <2>1, <2>2
<1>14. g[n] = AnswerAll(rpc, names) /\ \A k \in 0 .. n : g[k] \in S
  BY <1>1, <1>9, <1>12 DEF Traces
<1> HIDE DEF g
<1>15. AnswersSteps(g, X, rpc, names)
  BY <1>2, <1>13, <1>14 DEF AnswersSteps, S
<1> QED BY <1>15

LEMMA AnswerAllWhole ==
  ASSUME NEW names \in Seq(STRING), NEW rpc,
         \A i \in 1 .. Len(names) : ~Unknown(names[i])
  PROVE  \A i \in 1 .. Len(names) : \E j \in 1 .. Len(AnswerAll(rpc, names)) :
           AnswerTo(names[i], AnswerAll(rpc, names)[j])
<1> DEFINE n == Len(names)
<1>1. PICK g, X : AnswersSteps(g, X, rpc, names)
  BY AnswersTrace
<1> DEFINE T == {k \in Nat : k <= n => \A i \in 1 .. k : \E j \in 1 .. Len(g[k]) :
                                         AnswerTo(names[i], g[k][j])}
<1>2. 0 \in T
  OBVIOUS
<1>3. ASSUME NEW k \in Nat, k \in T PROVE k + 1 \in T
  <2> SUFFICES ASSUME k + 1 <= n, NEW i \in 1 .. k + 1
               PROVE  \E j \in 1 .. Len(g[k + 1]) : AnswerTo(names[i], g[k + 1][j])
    OBVIOUS
  <2>1. k \in 0 .. n /\ k + 1 \in 1 .. n /\ (k + 1) - 1 = k /\ n \in Nat
    OBVIOUS
  <2>2. PICK s \in Seq(X), t \in Seq(X) : /\ s = g[k] /\ t = Answers(rpc, names[k + 1])
                                          /\ g[k + 1] = s \o t
    BY <1>1, <2>1 DEF AnswersSteps
  <2>3. /\ Len(g[k + 1]) = Len(s) + Len(t) /\ Len(s) \in Nat /\ Len(t) \in Nat
        /\ \A j \in 1 .. Len(s) : g[k + 1][j] = s[j]
        /\ \A j \in 1 .. Len(t) : g[k + 1][Len(s) + j] = t[j]
    <3>1. PICK u : u = s \o t
      OBVIOUS
    <3>2. Len(u) = Len(s) + Len(t) /\ Len(s) \in Nat /\ Len(t) \in Nat
      BY <3>1
    <3>3. \A j \in 1 .. Len(s) : u[j] = s[j]
      BY <3>1
    <3>4. \A j \in 1 .. Len(t) : u[Len(s) + j] = t[j]
      BY <3>1
    <3> QED BY <2>2, <3>1, <3>2, <3>3, <3>4
  <2>4. CASE i = k + 1
    <3>1. PICK j \in 1 .. Len(t) : AnswerTo(names[i], t[j])
      BY <2>1, <2>2, <2>4, AnswersType
    <3>2. Len(s) + j \in 1 .. Len(g[k + 1]) /\ g[k + 1][Len(s) + j] = t[j]
      BY <2>3
    <3> QED BY <3>1, <3>2
  <2>5. CASE i \in 1 .. k
    <3>1. PICK j \in 1 .. Len(s) : AnswerTo(names[i], s[j])
      BY <1>3, <2>1, <2>2, <2>5
    <3>2. j \in 1 .. Len(g[k + 1]) /\ g[k + 1][j] = s[j]
      BY <2>3
    <3> QED BY <3>1, <3>2
  <2> QED BY <2>4, <2>5
<1>4. Nat \subseteq T
  <2> HIDE DEF T
  <2> QED BY <1>2, <1>3, Induction
<1>5. n \in Nat
  OBVIOUS
<1>6. n \in T
  BY ONLY <1>4, <1>5
<1>7. \A i \in 1 .. n : \E j \in 1 .. Len(g[n]) : AnswerTo(names[i], g[n][j])
  BY <1>5, <1>6
<1> QED BY <1>1, <1>7 DEF AnswersSteps

(* What the last reply says, as conditions on any reply.                    *)
SetRpcs == {"SetParameterValues", "SetParameterAttributes"}
GetRpcs == {"GetParameterValues", "GetParameterAttributes"}
WholeReply(r) ==
  IF r.code # 0 THEN r.answers = <<>>
  ELSE \A i \in 1 .. Len(r.args) : \E j \in 1 .. Len(r.answers) :
         AnswerTo(r.args[i], r.answers[j])
GoodReply(r) == /\ r.rpc \in SetRpcs => Explains(r.rpc, r.args, r.code, r.items)
                /\ r.rpc \in GetRpcs => WholeReply(r)

LEMMA RepliesGood == GoodReply(reply) <=> FaultsExplain /\ AnswersWhole
<1>1. FaultsExplain <=> (reply.rpc \in SetRpcs =>
                           Explains(reply.rpc, reply.args, reply.code, reply.items))
  BY DEF FaultsExplain, SetRpcs, Explains, Listed, AskedWrong
<1>2. AnswersWhole <=> (reply.rpc \in GetRpcs => WholeReply(reply))
  BY DEF AnswersWhole, GetRpcs, WholeReply, AnswerTo
<1> QED BY <1>1, <1>2 DEF GoodReply

(* What explains a reply depends on the standard of the box only.           *)
LEMMA GoodStays ==
  ASSUME stand' = stand, NEW r, GoodReply(r), reply' = r
  PROVE  GoodReply(reply)'
<1>1. Explains(r.rpc, r.args, r.code, r.items) => Explains(r.rpc, r.args, r.code, r.items)'
  BY DEF Explains, AskedWrong, Fault, ValueFault, AttributeFault, Names
<1> QED BY <1>1 DEF GoodReply, WholeReply

(* Every reply is good.                                                     *)
LEMMA RpcRepliesGood ==
  ASSUME Rpc
  PROVE  GoodReply(reply)'
<1>0. ASSUME NEW rpc, NEW args, NEW code, NEW items, NEW answers,
             Reply(rpc, args, code, items, answers),
             GoodReply([rpc |-> rpc, args |-> args, code |-> code, items |-> items,
                        answers |-> answers])
      PROVE  GoodReply(reply)'
  BY <1>0, GoodStays DEF Reply
<1>1. ASSUME NEW list \in ValueLists, SetParameterValues(list)
      PROVE  GoodReply(reply)'
  <2> DEFINE check == Checked("SetParameterValues", list)
  <2>1. list \in Seq(Entry(Val))
    BY ListAssumption DEF ListAssumption
  <2>2. Explains("SetParameterValues", list, check.code, check.items)
    BY <2>1, CheckedExplains
  <2>3. Reply("SetParameterValues", list, check.code, check.items, <<>>)
    BY <1>1 DEF SetParameterValues
  <2> HIDE DEF check
  <2> QED BY <1>0, <2>2, <2>3 DEF GoodReply, GetRpcs
<1>2. ASSUME NEW list \in AttributeLists, SetParameterAttributes(list)
      PROVE  GoodReply(reply)'
  <2> DEFINE check == Checked("SetParameterAttributes", list)
  <2>1. list \in Seq(AttributeEntry)
    BY ListAssumption DEF ListAssumption
  <2>2. Explains("SetParameterAttributes", list, check.code, check.items)
    BY <2>1, CheckedExplains
  <2>3. Reply("SetParameterAttributes", list, check.code, check.items, <<>>)
    BY <1>2 DEF SetParameterAttributes
  <2> HIDE DEF check
  <2> QED BY <1>0, <2>2, <2>3 DEF GoodReply, GetRpcs
<1>3. ASSUME NEW names \in NameLists, NEW rpc \in GetRpcs, GetReply(rpc, names)
      PROVE  GoodReply(reply)'
  <2>1. rpc \notin SetRpcs
    BY <1>3 DEF GetRpcs, SetRpcs
  <2>2. CASE \E i \in 1 .. Len(names) : Unknown(names[i])
    <3>1. Reply(rpc, names, 9005, <<>>, <<>>)
      BY <1>3, <2>2 DEF GetReply
    <3> QED BY <1>0, <2>1, <3>1 DEF GoodReply, WholeReply
  <2>3. CASE \A i \in 1 .. Len(names) : ~Unknown(names[i])
    <3>1. Reply(rpc, names, 0, <<>>, AnswerAll(rpc, names))
      BY <1>3, <2>3 DEF GetReply
    <3>2. names \in Seq(STRING)
      BY ListAssumption DEF ListAssumption
    <3>3. \A i \in 1 .. Len(names) : \E j \in 1 .. Len(AnswerAll(rpc, names)) :
            AnswerTo(names[i], AnswerAll(rpc, names)[j])
      BY <2>3, <3>2, AnswerAllWhole
    <3> QED BY <1>0, <2>1, <3>1, <3>3 DEF GoodReply, WholeReply
  <2> QED BY <2>2, <2>3
<1>4. ASSUME NEW rpc, NEW args, NEW code, NEW items, NEW answers,
             Reply(rpc, args, code, items, answers), rpc \notin SetRpcs,
             rpc \notin GetRpcs \/ (code # 0 /\ answers = <<>>)
      PROVE  GoodReply(reply)'
  BY <1>0, <1>4 DEF GoodReply, WholeReply
<1>5. CASE \E names \in NameLists : GetParameterValues(names)
  BY <1>3, <1>5 DEF GetParameterValues, GetRpcs
<1>6. CASE \E names \in NameLists : GetParameterAttributes(names)
  BY <1>3, <1>6 DEF GetParameterAttributes, GetRpcs
<1>7. CASE \E path \in UNION {Range(names) : names \in NameLists} : GetParameterNames(path)
  <2>1. PICK path : GetParameterNames(path)
    BY <1>7
  <2>2. \E code, answers : Reply("GetParameterNames", <<path>>, code, <<>>, answers)
    BY <2>1 DEF GetParameterNames
  <2> QED BY <1>4, <2>2 DEF SetRpcs, GetRpcs
<1>8. CASE \E mac, stbid \in Val \ BoolText : XFvSetup(mac, stbid)
  BY <1>4, <1>8 DEF XFvSetup, SetRpcs, GetRpcs
<1>9. CASE FactoryReset
  BY <1>4, <1>9 DEF FactoryReset, SetRpcs, GetRpcs
<1>10. CASE \E rpc \in {"GetParameterNames", "GetParameterValues",
                        "GetParameterAttributes", "X_FV_Setup"} :
              \E code \in {9003, 9005} : MalformedRpc(rpc, code)
  BY <1>4, <1>10 DEF MalformedRpc, SetRpcs
<1>11. CASE UnknownRpc
  BY <1>4, <1>11 DEF UnknownRpc, SetRpcs, GetRpcs
<1> QED BY <1>1, <1>2, <1>5, <1>6, <1>7, <1>8, <1>9, <1>10, <1>11 DEF Rpc

(* The last reply is good: it names the entries at fault, all of them and   *)
(* no other, or answers every name; for lists of any length.                *)
THEOREM LastReplyGood == Spec => []GoodReply(reply)
<1>1. GoodReply(NoReply)
  BY DEF NoReply, GoodReply, SetRpcs, GetRpcs
<1>2. Init => GoodReply(reply)
  BY <1>1 DEF Init
<1>3. GoodReply(reply) /\ [Next]_vars => GoodReply(reply)'
  <2> SUFFICES ASSUME GoodReply(reply), [Next]_vars PROVE GoodReply(reply)'
    OBVIOUS
  <2>1. CASE Restart
    BY <1>1, <2>1, GoodStays DEF Restart
  <2>2. CASE \/ SessionStart \/ SessionEnd \/ TakeTask \/ SpeedTestEnds
             \/ LossTestEnds \/ UNCHANGED vars
    <3>1. stand' = stand /\ reply' = reply
      BY <2>2 DEF SessionStart, SessionEnd, TakeTask, SpeedTestEnds, LossTestEnds, vars
    <3> QED BY <3>1, GoodStays
  <2> QED BY <2>1, <2>2, RpcRepliesGood DEF Next
<1> QED BY <1>2, <1>3, PTL DEF Spec

(* AnswersInv: types, and what an RPC answers.                              *)
THEOREM AnswersCorrect == Spec => []AnswersInv
<1>1. TypeOK /\ GoodReply(reply) => AnswersInv
  BY RepliesGood DEF AnswersInv
<1> QED BY <1>1, RpcTypes, LastReplyGood, PTL
=============================================================================
