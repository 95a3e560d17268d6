SPECIFICATION Spec
CONSTANTS
  None = None
  Tops <- MCTops
  Data = {"u", "v", "w"}
  Bases <- MCBases
  Left <- Kinds
  Context <- MCContext
  Ignore <- MCIgnore
  Commands = {c}
  MaxSteps = 2
  MaxStages = 2
  Build = build
  Proot = proot
  Command = command
  Kids = {k1, k2}
  Sources <- MCSources
  Dests <- MCDests
  Turns <- MCTurns
  Stamp <- MCStamp
  MaxFaults = 1
  MaxTurns = 1
  root = root
  room = room
  hall = hall
  world = world
  d1 = d1
  d2 = d2
  d3 = d3
  d4 = d4
  d5 = d5
  out = out
  Components = {"m", "n"}
  Rooms = {root, room, hall}
  RootDir = root
  Host = world
  Layouts <- MCLayouts
  Specs <- MCSpecs
  Swaps <- MCSwaps
  MaxHops = 3
  MaxSwaps = 1
  Dirs = {d1, d2, d3, d4, d5, out}
  Outside = out
  Nil = Nil
  Shapes <- MCShapes
  Budget = 2
  MaxMoves = 2
INVARIANTS TypeOK CleanLayersReplay LayerSettled CommandFinishes MirrorsSource NothingLost PinnedWhereAsked LevelsHold
PROPERTIES StepEnds PruneSpares EndpointSettles RemovesTheTree
CHECK_DEADLOCK FALSE
