\* One gateway, two connections on the same platform, one failure, and a
\* gateway that crashes or shuts down.
SPECIFICATION FairSpec
CONSTANTS
  g1 = g1  c1 = c1  c2 = c2
  Gateway = {g1}
  User = {"u"}
  Platform = {"web"}
  Client = {c1, c2}
  Login <- MCReplace
  Rounds = 2
  MaxConn = 2
  Stops = {"crash", "shutdown"}
  MaxLosses = 1
INVARIANTS TypeOK OfflineIsRepaired ListedWillLeave OpenIsListed
PROPERTIES LiveDoesNotExpire LiveIsShown GhostsFade
