SPECIFICATION FramingSpec
CONSTANTS
  Streams <- AllStreams
  BufferSize = 6
INVARIANTS
  InsideExtent
  MessagesDelivered
PROPERTIES
  ReadToEnd
CHECK_DEADLOCK FALSE
