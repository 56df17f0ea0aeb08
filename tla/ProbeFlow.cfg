CONSTANTS
  Nil = Nil
  s1 = s1
  r1 = r1
  card = card
  strict = strict
  bare = bare
  amount = amount
  buyer = buyer
  note = note
  AttributeValues <- MCValues
  Setters <- MCSetters
  Emitters <- MCEmitters
  Policies <- MCPolicies
  Content <- MCContent
  Events <- MCEvents
SPECIFICATION Spec
INVARIANTS
  EndpointSeesWhatItNeeds
  UnaskedMeansUnenforced
  OneEpochUnlessPushed
