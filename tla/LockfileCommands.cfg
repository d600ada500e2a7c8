SPECIFICATION Spec
CONSTANTS
  p1 = p1
  p2 = p2
  t1 = t1
  read = read
  write = write
  reader = reader
  admin = admin
  Procs <- MCProcs
  MayCrash <- MCMayCrash
  Unlocking = TRUE
  Tools <- MCTools
  Contents <- MCContents
  Toolsets <- MCToolsets
  Scopes <- MCScopes
  Manifests <- MCManifests
INVARIANTS
  TypeOK
  Exclusive
  ServedAsReviewed
  CheckedIsServed
PROPERTIES
  CommandsKeepUpdates
CONSTRAINT
  Bounds
