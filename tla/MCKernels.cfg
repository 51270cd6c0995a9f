CONSTANTS
  WarpSize = 4
  Launches <- AllLaunches
  ThreadsPerBlock = 8
  MaxThreads = 8
  MaxLog2 = 4
  PairRows = 8
  ResidentThreads = 16
  MaxBlockDim = 8
  MaxBlockNum = 2
  CtaWarps = 4
  WideRow = 16
  RowPerBlock = 2
  FinalWarps = 3
  FastGrid = 2
  FastForward = {8, 16, 32}
  FastBackward = {16}
  VPT = 4
  PartSize = 4
  BDIMY2 = 2
  BDIMY3 = 4
  PerThread = 8
  EmbThreads = 8
  SmallFeature = 32
  MaxBlockDimY = 2
  IntMax = 15
  MaxGemmN = 7
  EnableTensorOpMath = FALSE
  VecElements = 2
  MaskTile = 2
  Tiles <- SmallTiles
  HeadDim = 2
  WideHeadDim = 3
  PageSize = 2
  ScatterBlock = 8
  ScatterGrid = 2
  ScatterLoop = 1
SPECIFICATION Spec
INVARIANTS TypeOK NoSharedRace ResultsExact
PROPERTY LaunchEnds
VIEW View
