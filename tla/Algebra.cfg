SPECIFICATION Spec
CONSTANTS
  MaxIds = 4
  GraphsToWalk <- MCGraphsToWalk
  NaN = NaN
  Infinite = Infinite
  Panic = Panic
  None = None
  Width = 3
  MaxDouble = 2
  Strings = {"", "a", "b"}
  Items = {"x", "y", "z"}
  Shapes <- MCShapes
  Leaves <- MCLeaves
  Others <- MCOthers
  Keys = {"k"}
  Defaults <- MCDefaults
  MaxBuilt = 2
  MaxConstraints = 1
  Bindings <- MCBindings
  Operands <- MCOperands
  Partners <- MCPartners
  MaxDepth = 2
  Elements = {1, 2}
  Declarations <- MCDeclarations
  Axes <- MCAxes
  Orders <- MCOrders
  Entries <- MCEntries
  Coordinates <- MCCoordinates
  Hosts <- MCHosts
  NoHost = NoHost
  NoValue = NoValue
  HexBase = 2
  MaxEdits = 3
INVARIANTS
  WalksSound
  CanonicalSaysTheSame
  ParametersSound
  DerivesTyped
  PlansSound
CHECK_DEADLOCK FALSE
