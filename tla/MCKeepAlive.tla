---------------------------- MODULE MCKeepAlive ----------------------------
(* KeepAlive for TLC: the unit is such that both clamps of deriveInterval   *)
(* bite, and the longest window plus the longest derived interval just fits *)
(* Grafana's inactive lifetime, as 6d + 12h does 7d.                        *)
EXTENDS KeepAlive, TLC

MCWindows == {1, 4}
MCNoOverrides == {}
MCSymmetry == Permutations(Contexts)
=============================================================================
