------------------------------- MODULE MCScreens -------------------------------
(* Small instances of Screens: two rows, two mutations, every component.  *)
EXTENDS Screens, TLC

ItemSymmetry == Permutations(Items)
=============================================================================
