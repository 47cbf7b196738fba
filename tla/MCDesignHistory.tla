--------------------------- MODULE MCDesignHistory ---------------------------
(***************************************************************************)
(* Instances of DesignHistory for TLC.                                     *)
(***************************************************************************)
EXTENDS DesignHistory, TLC

CONSTANTS o1, g1, p1, p2

OneObject == {o1}
OneGroup == {g1}
TwoPlaces == {p1, p2}
OneOrTwo == {1, 2}

PlacesAlike == Permutations(TwoPlaces)
=============================================================================
