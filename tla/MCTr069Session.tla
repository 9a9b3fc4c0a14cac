--------------------------- MODULE MCTr069Session ---------------------------
(* TLC instances of Tr069Session: the RPCs and the queues it starts with.   *)
EXTENDS Tr069Session

Lists == {<<"REBOOT">>, <<"FACTORY_RESET">>, <<"DOWNLOAD">>, <<"TRACERT", "PING">>}
FewLists == {<<"FACTORY_RESET">>, <<"TRACERT", "PING">>}
Idle == {<<>>}
Starts == {<<>>, <<"PING">>, <<"REBOOT", "UPLOAD">>, <<"SESSION", "FACTORY_RESET", "PING">>}
=============================================================================
