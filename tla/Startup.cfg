CONSTANTS
  Nil = Nil
  Handles = {"ledger", "web"}
  OtherKeys = {"owner"}
  Capacity = 2
  Probes <- MCProbes
  Raw <- MCRaw
  HandBuilt <- MCHandBuilt
  HandleOf <- MCHandleOf
  ServiceName <- MCServiceName
  HostOptions <- MCHostOptions
SPECIFICATION Spec
INVARIANTS
  VerdictIsTheDocuments
  NoTierWithoutDeclaration
  ProvidersAreTheirOwn
CHECK_DEADLOCK FALSE
