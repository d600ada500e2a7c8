\* Two saves and a load at a time; three files in use.
SPECIFICATION Spec
CONSTANTS
  fresh = fresh
  killed = killed
  w1 = w1
  w2 = w2
  r1 = r1
  f1 = f1
  f2 = f2
  f3 = f3
  Writers = {w1, w2}
  Readers = {r1}
  Texts = {fresh, killed}
  Length <- MCLength
  MaxLength = 2
  Fresh = fresh
  Files = {f1, f2, f3}
  None = None
SYMMETRY Symmetry
INVARIANTS
  TypeOK
  WholeUnlessShared
  LoadsWhatWasSaved
PROPERTIES
  ImplementsSavedFile
