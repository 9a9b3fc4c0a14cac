--------------------------- MODULE MCTr069Control ---------------------------
(* TLC instances of Tr069Control: the task lists that an RPC may leave and  *)
(* the symmetry of the clients.                                             *)
EXTENDS Tr069Control, TLC

Diagnoses == {<<"PING">>}
SomeRpc == {<<"REBOOT">>, <<"FACTORY_RESET">>, <<"DOWNLOAD">>, <<"TRACERT", "PING">>}
Clients == Permutations(Client)
=============================================================================
