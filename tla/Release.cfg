\* The release of two versions, from their changelog on.
CONSTANTS
  v10 = v10  v11 = v11
  docs = docs  guide = guide
  x = x  y = y
  OddTag = OddTag  None = None
  Versions <- MCVersions
  References <- MCReferences
  Targets <- MCTargets
  MaxBlocks = 6
  MaxAttempts = 2
SYMMETRY Symmetric
CHECK_DEADLOCK FALSE
SPECIFICATION Spec
INVARIANTS
  NotesStandalone
  LinkBlockDropped
  RefusedForCause
  PublishedHonest
PROPERTIES
  VersionsImmutable
