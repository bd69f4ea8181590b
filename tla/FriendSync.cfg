\* One friend, one instance, one change at a time, one device.
SPECIFICATION FairSpec
CONSTANTS
  e1 = e1  i1 = i1  w1 = w1  d1 = d1
  Elem = {e1}
  Instance = {i1}
  Writer = {w1}
  Device = {d1}
  SyncLimit = 2
  MaxVersion = 3
INVARIANTS SyncTypeOK
PROPERTIES IncrementsKeepRight CatchesUp
