CONSTANTS
  m = m  t = t  d = d  e = e  v0 = v0  v1 = v1
  Memories = {m}
  Tables = {t}
  PageSize = 2
  InitialSize <- MCInitialSize
  Limit <- MCLimit
  Segments = {d, e}
  DataSegments = {d}
  SegmentData <- MCSegmentData
  Values = {v0, v1}
  Zero = v0
  U32 = 4
  Data <- MCData
SPECIFICATION Spec
INVARIANTS TypeOK LoopInBounds
PROPERTIES ImplementsStorage LoopsEnd
