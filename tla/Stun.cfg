\* One address inside and one outside, credentials asked for once, one answer
\* under way.
CONSTANTS
  i1 = i1
  o1 = o1
  NoAddress = NoAddress
  Ip <- OneIp
  Outer <- OneOuter
  Trans = 2
  RequestId = {1}
  MaxRetry = 1
  MaxFlight = 1
SPECIFICATION FairSpec
INVARIANTS AddressInv AcsKnows
PROPERTIES AnswerIsCurrent Converges
