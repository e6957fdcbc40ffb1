SPECIFICATION Spec
CONSTANTS
  etc = etc
  hosts = hosts
  Name = {etc, hosts}
  Dot = Dot
  Manifest <- MCManifest
  MaxInode = 4
  Boot = {b1}
  MaxFailures = 0
  Call = {c1, c2, c3, c4}
  Target <- MCTarget
  Gone = Gone
  NoBoot = NoBoot
SYMMETRY Symmetry
INVARIANTS TypeOK EntriesLead LinkCounts NothingLost
