CONSTANTS
  Nil = Nil
  s1 = s1
  s2 = s2
  r1 = r1
  zero = zero
  one = one
  zeroAgain = zeroAgain
  epochless = epochless
  Filters <- MCFilters
  DeclaredEpoch <- MCDeclaredEpoch
  InitialFilter = Nil
  Setters <- MCOneSetter
  Readers <- MCReaders
  Announcements <- MCAnnouncements
SPECIFICATION Spec
PROPERTY ImplementsEpochStore
