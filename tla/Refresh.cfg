CONSTANTS
  Nil = Nil
  h1 = h1
  h2 = h2
  zero = zero
  one = one
  MaxPublications = 2
  MaxLosses = 1
  Handlers <- MCHandlers
  Filters <- MCFilters
  DeclaredEpoch <- MCDeclaredEpoch
SPECIFICATION FairSpec
PROPERTIES
  StaleOnlyWhenOvertaken
  StoreCatchesUp
