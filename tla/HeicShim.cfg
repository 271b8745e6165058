SPECIFICATION ShimSpec
CONSTANTS
  c1 = c1  c2 = c2  c3 = c3  p1 = p1  p2 = p2  p3 = p3  d1 = d1  d2 = d2  d3 = d3
  Callers <- MCCallers
  Raw <- MCRaw
  Jobs <- MCJobs
  Paths <- MCPaths
  Decodes <- MCDecodes
  Fixed <- MCFixed
  ReuseMax = 2
  LastVersion = 1
  Slots = 1
  Decoders = 2
  Nothing = Nothing
INVARIANTS ShimTypeOK SlotsAccounted FramesAccounted PixelsAreCurrent
PROPERTIES DecodeIsBounded CallsAnswered IsASlotPool OnlyItsOwnEventsForget FramesForgotten
