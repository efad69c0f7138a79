SPECIFICATION Spec
CONSTANTS
  HeaderLimit = 13
  MaxBody = 4
  SizeBuffer = 50
  HeadSize = 10
  MaxPiece = 5
  Sources <- AllSources
INVARIANTS
  SegmentationIndependent
  FramingExact
  Delivered
  RowsOnce
  BufferFits
CHECK_DEADLOCK FALSE
