\* Four parameters, of which a behaviour touches two or three.
CONSTANTS
  c = c
  t = t
  d = d
  n = n
  v1 = v1
  v2 = v2
  long = long
  Missing = Missing
  Param <- Parameters
  Value <- Values
  Cut <- Holds
  FileOf <- Files
  Builtin <- First
  Factory <- First
  Silent <- Volatile
  AtOnce <- Volume
SPECIFICATION MCSpec
INVARIANTS StoreInv ChangeKept AcsValueKept
PROPERTIES ImplementsStore
