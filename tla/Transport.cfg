CONSTANTS
  Nil = Nil
  c1 = c1
  AttributeValues = {}
  Half = 2
  Calls <- MCCalls
  Inputs <- MCWireInputs
  TransportOptions <- MCTransportOptions
  Replies <- MCReplies
SPECIFICATION FairTransportSpec
INVARIANTS
  RequestArrivesIntact
  AnswerIsTheServices
PROPERTIES
  OnlyTheEndpointHoldsACall
  CancelledCallReturns
  HostTimeoutEndsCalls
