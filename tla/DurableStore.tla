---------------------------- MODULE DurableStore ----------------------------
(***************************************************************************)
(* What the configuration process promises to its clients: values in       *)
(* memory, written at once, over a durable copy, written a whole file at   *)
(* a time.  After a restart memory is what the copy holds, as far as the   *)
(* buffer of a key has room; what is written fits there.                   *)
(***************************************************************************)
CONSTANTS
  Key,        \* the parameters
  Val,        \* their values
  Held,       \* what the buffer of a key holds of a value
  Default,    \* what a key without an entry is loaded as
  Group,      \* the files: sets of keys
  NoEntry,    \* in the copy of a key that its file does not hold
  ResetGroup, \* the file that a factory reset replaces ...
  ResetTo     \* ... and by what

VARIABLES mem, dur

Load(d) == [k \in Key |-> Held[k][IF d[k] = NoEntry THEN Default[k] ELSE d[k]]]

Init == /\ dur \in [Key -> Val \cup {NoEntry}]
        /\ mem = Load(dur)

Committed(g, m) == [k \in Key |-> IF k \in g THEN m[k] ELSE dur[k]]
Reset(lost) == [k \in Key |-> IF k \in lost THEN NoEntry
                              ELSE IF k \in ResetGroup THEN ResetTo[k] ELSE dur[k]]

Write(k) == /\ \E v \in Val : Held[k][v] = v /\ mem' = [mem EXCEPT ![k] = v]
            /\ dur' = dur \/ \E g \in Group : k \in g /\ dur' = Committed(g, mem')

WriteThrough(K) == /\ \E w \in [K -> Val] :
                          dur' = [k \in Key |-> IF k \in K THEN w[k] ELSE dur[k]]
                   /\ UNCHANGED mem

Commit(g) == dur' = Committed(g, mem) /\ UNCHANGED mem

FactoryReset == dur' = Reset({}) /\ UNCHANGED mem

(* The end comes at any time: a commit under way is made or not made; only *)
(* a reset under way may lose entries.                                     *)
Restart == /\ \/ dur' = dur
              \/ \E g \in Group : dur' = Committed(g, mem)
              \/ \E lost \in SUBSET ResetGroup : dur' = Reset(lost)
           /\ mem' = Load(dur')

Next == \/ \E k \in Key : Write(k)
        \/ \E K \in SUBSET Key : WriteThrough(K)
        \/ \E g \in Group : Commit(g)
        \/ FactoryReset \/ Restart

Spec == Init /\ [][Next]_<<mem, dur>>
=============================================================================
