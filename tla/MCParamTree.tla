---------------------------- MODULE MCParamTree ----------------------------
(* ParamTree with three components, the text of one of which begins with    *)
(* another one's: parameters with a longer sibling, objects with a longer   *)
(* sibling, and a parameter with the name of an object.                     *)
EXTENDS ParamTree
CONSTANTS a, b, ab

MCComp == {a, b, ab}
MCLonger == {<<ab, a>>}
MCIndex == 1 .. 5
MCNameOf == <<<<b>>, <<a, b>>, <<ab, a>>, <<ab, ab>>, <<ab>>>>

Call(n, x) == [name |-> MCNameOf[n], index |-> x]
MCCommonCalls == <<Call(1, 1)>>
(* tr069_parameter.c:1110-1111: the first call has the name of the second.  *)
MCCtcCalls == <<Call(3, 2), Call(3, 3)>>
MCCuCalls == <<Call(2, 2)>>
MCLastCalls == <<Call(4, 4)>>
=============================================================================
