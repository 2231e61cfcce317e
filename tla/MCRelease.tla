------------------------------ MODULE MCRelease ------------------------------
(***************************************************************************)
(* Two clones race for patch and minor releases of 0.1.0.                  *)
(***************************************************************************)
EXTENDS Release, TLC

CONSTANTS c1, c2

MCClones == {c1, c2}
MCFirstVersion == <<0, 1, 0>>
MCRace == {<<0, 1, 0>>, <<0, 1, 1>>}
MCBumps == {<<0, 1, 0>>, <<0, 1, 1>>, <<0, 1, 2>>, <<0, 2, 0>>}

CloneSymmetry == Permutations(MCClones)
=============================================================================
