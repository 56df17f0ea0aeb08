CONSTANTS
  Nil = Nil
  s1 = s1
  s2 = s2
  r1 = r1
  zero = zero
  one = one
  zeroAgain = zeroAgain
  epochless = epochless
  Filters <- MCRacingFilters
  DeclaredEpoch <- MCRacingDeclaredEpoch
  InitialFilter = epochless
  Setters <- MCTwoSetters
  Readers <- MCReaders
  Announcements <- MCNoAnnouncements
SPECIFICATION Spec
INVARIANTS
  TypeOK
  ReplyIsTrueOfTheCall
  StampMatchesSnapshot
PROPERTIES
  RedundantSwapNeedsRace
SYMMETRY SetterSymmetry
