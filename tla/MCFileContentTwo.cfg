SPECIFICATION Spec
CONSTANTS
  Job = {j1}
  Mutator = {m1, m2}
  Toucher = {}
  File = {f1, f2}
  t1 = t1
  Text <- MCText
  Zero = Zero
  MaxFile = 2
  Request <- MCRequest
  ManifestClass <- MCManifestClass
  Generated <- MCGenerated
  MaxBytes = 3
  Retries = 2
  NoContent = NoContent
  Gone = Gone
  NoOwner = NoOwner
SYMMETRY Symmetry
INVARIANTS BudgetCovers
