SPECIFICATION FairSpec
CONSTANTS
  etc = etc
  hosts = hosts
  Name = {etc, hosts}
  Dot = Dot
  Manifest <- MCManifest
  MaxInode = 4
  Boot = {b1, b2}
  MaxFailures = 2
  Call = {}
  Target <- MCTarget
  Gone = Gone
  NoBoot = NoBoot
INVARIANTS LinkCounts
PROPERTIES NumbersFresh InitializedIsComplete EventuallyInitialized
