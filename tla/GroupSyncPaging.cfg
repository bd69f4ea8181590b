\* One request, two groups, one group per page.
SPECIFICATION SyncSpec
CONSTANTS
  a = a  b = b  s1 = s1
  Elem = {a, b}
  Sync = {s1}
  PageLimit = 1
  SyncLimit = 2
  MaxVersion = 5
INVARIANTS NothingMissing
