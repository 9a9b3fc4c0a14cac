--------------------------- MODULE MCConfigStore ---------------------------
(* TLC instance of ConfigStore: a parameter in each of config.ini and       *)
(* tr069.ini, the volume in its own file, and one that no file holds, which *)
(* is set silently.  A behaviour touches the two files that a session       *)
(* saves, or the first of them with the two special parameters.             *)
EXTENDS ConfigStore, TLC

CONSTANTS c, t, d, n, v1, v2, long

VARIABLE touched

Parameters == {c, t, d, n}
Values == {v1, v2, long}
\* A text longer than the buffers, of which they hold v2.
Holds == [p \in Parameters |-> [v \in Values |-> IF v = long THEN v2 ELSE v]]
Files == [p \in Param |-> CASE p = c -> "config" [] p = t -> "tr069"
                           [] p = d -> "dynamic" [] OTHER -> "none"]
First == [p \in Param |-> v1]
Volume == {d}
Volatile == {n}

\* A value that is too long comes to the file of one parameter.
OneLong == \A p \in Param \ {c} : file[p] # long

MCInit == /\ Init /\ OneLong
          /\ touched \in {{c, t}, {c, d, n}}
          /\ \A p \in Param \ touched : FileOf[p] # "none" => file[p] = v1

Untouched(p) == /\ memory'[p] = memory[p] /\ file'[p] = file[p] /\ acs'[p] = acs[p]
                /\ p \notin modify_flag' \cup attribute' \cup notify' \cup unreported'

MCNext == /\ Next /\ UNCHANGED touched /\ OneLong'
          /\ \A p \in Param \ touched : Untouched(p)

MCSpec == MCInit /\ [][MCNext]_<<vars, touched>>
=============================================================================
