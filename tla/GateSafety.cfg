CONSTANTS
  Nil = Nil
  c1 = c1
  AttributeValues = {}
  Half = 3
  Calls <- MCCalls
  Inputs <- MCInputs
SPECIFICATION Spec
INVARIANTS
  TypeOK
  ClosedContractHolds
  BlocksOnlyUnderContract
  StampFitsEveryBudget
  DeferLeavesTime
  AsksOnlyWhileAlive
  AuditTellsWhatHappened
  PanicsOnlyWhenUnwired
PROPERTY
  ImplementsContract
