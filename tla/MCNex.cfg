CONSTANTS
  Main = "main"
  Sources <- MCSources
  Words <- MCWords
  NumberOf <- MCNumberOf
  Floats = {"0.5"}
  Strs = {"s_"}
  Paths = {"lib", "util", "main"}
  MAX_REACTIVE_THRESHOLD = 16
  None = None
  InputId = "x"
  Inputs <- MCInputs
  Configs <- MCConfigs
  MaxRuns = 2
SPECIFICATION PipelineSpec
CHECK_DEADLOCK FALSE
INVARIANTS
  WeakestLink
  TraceExplains
  VerifiedOneRun
  FinishedRunVerifies
  
PROPERTY ExecutionEnds
