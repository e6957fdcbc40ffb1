SPECIFICATION FairSpec
CONSTANTS
  Job = {j1, j2}
  Mutator = {m1}
  Toucher = {}
  File = {f1}
  t1 = t1
  Text <- MCText
  Zero = Zero
  MaxFile = 2
  Request <- MCRequest
  ManifestClass <- MCManifestClass
  Generated <- MCGenerated
  MaxBytes = 3
  Retries = 2
  NoContent = NoContent
  Gone = Gone
  NoOwner = NoOwner
PROPERTIES JobsEnd MutationsEnd LeaseFreed
