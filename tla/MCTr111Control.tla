-------------------------- MODULE MCTr111Control --------------------------
(* TLC instances of Tr111Control.                                           *)
EXTENDS Tr111Control

CONSTANTS i1, o1
OneIp == {i1}
OneOuter == {o1}
=============================================================================
