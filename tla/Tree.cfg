\* Three components with a longer sibling among them; a table and a stack that
\* init and the calls after it fill.
SPECIFICATION Spec
CONSTANTS
  a = a
  b = b
  ab = ab
  Comp <- MCComp
  Longer <- MCLonger
  Index <- MCIndex
  NameOf <- MCNameOf
  CommonCalls <- MCCommonCalls
  CtcCalls <- MCCtcCalls
  CuCalls <- MCCuCalls
  LastCalls <- MCLastCalls
  Stand = {"CTC", "CU", "other"}
  MaxDepth = 2
  MaxParam = 8
  StackSize = 3
  MaxLate = 5
CHECK_DEADLOCK FALSE
INVARIANTS TreeInv LookupsAgree ListsComplete
PROPERTIES RemovesBelow GivenAndFreed
