CONSTANTS
  Nil = Nil
  c1 = c1
  AttributeValues = {}
  Half = 3
  Calls <- MCCalls
  Inputs <- MCFewInputs
SPECIFICATION Spec
INVARIANT DeferWithoutDeadlineStands
