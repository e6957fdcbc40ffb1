SPECIFICATION Spec
CONSTANTS
  Job = {j1, j2}
  Mutator = {m1, m2}
  Toucher = {c1}
  File = {f1}
  t1 = t1
  Text <- MCText
  Zero = Zero
  MaxFile = 2
  Request <- MCRequest
  ManifestClass <- MCManifestClass
  Generated <- MCGenerated
  MaxBytes = 3
  Retries = 2
  NoContent = NoContent
  Gone = Gone
  NoOwner = NoOwner
SYMMETRY Symmetry
INVARIANTS TypeOK ContentAgrees LeaseExclusive ResultWasHeld
PROPERTIES CommitsOwned ImplementsRegister
