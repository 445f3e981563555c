------------------------ MODULE MCCredentialLifecycle ------------------------
EXTENDS CredentialLifecycle, TLC

CONSTANTS p1, p2, p3, s1, s2

MCOne == {p1}
MCTwo == {p1, p2}
MCThree == {p1, p2, p3}
MCServers == {s1, s2}

AllCommands == {"login", "update", "use"}
AllFaults == {"read", "set", "abandoned", "write", "lost", "crash"}

Symmetry == Permutations(MCThree) \cup Permutations(MCServers)
=============================================================================
