SPECIFICATION FairSpec
CONSTANTS
  m1 = m1
  m2 = m2
  f1 = f1
  f2 = f2
  f3 = f3
  native = native
  None = None
  Modules = {m1, m2}
  Functions = {f1, f2, f3}
  Natives = {native}
  Home <- MCHome
  FunctionTypes <- MCFunctionTypes
  Type <- MCType
  ParamCount <- MCParamCount
  FunctionIndices = {0, 1, 2}
  FunctionTable <- MCFunctionTable
  TypeIndices = {0, 1}
  TypeTable <- SameTypes
  MaxFrames = 3
  MaxArgs = 1
  MaxOperands = 2
INVARIANTS
  TypeOK
  OneFramePerActivation
  FramesBelongToActivations
  DepthBounded
  HostHasNoFrame
  CalleesTypedUnlessCrossed
PROPERTIES
  CallStackSpec
  TrapsReachHost
