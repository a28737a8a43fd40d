\* One client and one api-mutate operation, in a first or in a restored epoch.
SPECIFICATION Spec
CONSTANTS
  Edit = {e1}
  Op = {o1}
  Restored = {o1}
  Legacy = {}
  Fix = fix
  ReadOnlySize = 3
  MaxApply = 2
INVARIANTS
  AckedRecoverable
  ProjectionExists
  RepliedSnapshotted
  AppliedOnce
  RestoredNotReplayed
PROPERTIES
  KeepsPromise
  ConditionalWriteIsCurrent
