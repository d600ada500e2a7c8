SPECIFICATION Spec
CONSTANTS
  t1 = t1
  object = object
  string = string
  Null = Null
  Integer = Integer
  Number = Number
  Array = Array
  NoItems = NoItems
  Down = Down
  Root = ""
  Paths <- MCPaths
  Item <- MCItem
  Below <- MCBelow
  Types <- MCTypes
  Tools <- MCTools
  Bodies <- MCBodies
  Baselines <- MCBaselines
  MinSamples = 3
INVARIANTS
  TypeOK
  LearnsOnlySafely
  KeepsRequired
PROPERTIES
  MergedIsQuiet
  Settles
