SPECIFICATION Spec
CONSTANTS
  None = None
  Tops <- MCTops
  Data = {"u", "v", "w"}
  Bases <- OneBase
  Left <- OneLeft
  Context <- Nowhere
  Ignore <- NoIgnore
  Commands = {c}
  MaxSteps = 1
  MaxStages = 1
  Build = build
  Proot = proot
  Command = command
  Kids = {}
  Sources = {}
  Dests = {}
  Turns <- MCTurns
  Stamp <- MCStamp
  MaxFaults = 1
  MaxTurns = 1
  root = root
  room = room
  hall = hall
  world = world
  d1 = d1
  d2 = d2
  d3 = d3
  d4 = d4
  d5 = d5
  out = out
  Components = {"m", "n"}
  Rooms = {root, room, hall}
  RootDir = root
  Host = world
  Layouts = {}
  Specs <- MCSpecs
  Swaps <- MCSwaps
  MaxHops = 3
  MaxSwaps = 1
  Dirs = {d1, d2, d3, d4, d5, out}
  Outside = out
  Nil = Nil
  Shapes = {}
  Budget = 2
  MaxMoves = 2
CHECK_DEADLOCK FALSE
INVARIANT LayersReplay
