--------------------------- MODULE MCFilterStore ----------------------------
(* Small instances of FilterStore.  Every instance also pushes nil.  The racing
   one holds a filter of no epoch first, and pushes it, and two filters that
   both carry epoch 0; the atomic one adds another epoch. *)
EXTENDS FilterStore, TLC

CONSTANTS s1, s2, r1, zero, one, zeroAgain, epochless

MCFilters == {zero, zeroAgain, one, epochless}
MCDeclaredEpoch ==
  zero :> 0 @@ zeroAgain :> 0 @@ one :> 1 @@ epochless :> Nil
MCRacingFilters == {zero, zeroAgain, epochless}
MCRacingDeclaredEpoch == zero :> 0 @@ zeroAgain :> 0 @@ epochless :> Nil
MCTwoSetters == {s1, s2}
MCOneSetter == {s1}
MCReaders == {r1}
MCAnnouncements == {Nil, 0, 1}
MCNoAnnouncements == {}
SetterSymmetry == Permutations(MCTwoSetters)
=============================================================================
