---------------------------- MODULE MCLiveReload ----------------------------
EXTENDS LiveReload, TLC

CONSTANTS c1, c2, c3

MCTwo == {c1, c2}
MCThree == {c1, c2, c3}

Symmetry == Permutations(MCThree)
=============================================================================
