\* Senders of both kinds; one identifier is used again while in use, the others
\* are not.  As many functions may invoke functions as there are workers.
CONSTANTS
  Requests = {r1, r2, l1, l2}
  LocalReqs = {l1, l2}
  Keys = {k1, k2, k3}
  SharedKeys = {k1}
  Workers = {w1, w2}
  None = None
SPECIFICATION FairSpec
INVARIANTS
  Consistent
  CallerStillWaits
  StartInOrder
PROPERTIES
  EveryRequestAnswered
