\* Two sensors and pad formats, or both image nodes and their buffers.
CONSTANTS
  MinWidth = 4
  MaxWidth = 8
  MinHeight = 1
  MaxHeight = 2
  MinRatio = 6
  Ports <- TwoPorts
  Nodes <- Both
  Bufs = {b1}
  BufSizes <- SomeSizes
  Requests <- SomeRequests
  Fmts <- ThreeFmts
  DefaultFmt <- Large
  Src = Src
  Sink = Sink
  NoNode = NoNode
  Scopes <- AllScopes
SPECIFICATION Spec
INVARIANTS
  ConfigCurrent
  NegotiationHolds
  PortMatchesSensor
  DmaFits
