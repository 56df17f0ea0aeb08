CONSTANTS
  Nil = Nil
  Half = 4
  PerSecond = 4
  Remote = "r0"
  Spans <- MCSpans
  EventId <- MCEventId
  MaxLinks <- MCMaxLinks
  Depth <- MCDepth
  Values <- MCValues
  AttributeValues <- MCAttributeValues
  Recording <- MCRecording
  Conversion <- MCConversion
SPECIFICATION Spec
INVARIANTS
  TypeOK
  EdgesArriveInOrder
  SilenceMeansJoinable
  AttributesArrive
  TimesArrive
CHECK_DEADLOCK FALSE
