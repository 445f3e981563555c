-------------------------- MODULE MCSessionSource --------------------------
(***************************************************************************)
(* Instance of SessionSource for TLC: three goroutines, so that one leads, *)
(* one joins and one comes late; three requests, so that a rotation can    *)
(* follow a failed one. The Keychain's order needs only two goroutines.    *)
(***************************************************************************)
EXTENDS SessionSource

CONSTANTS t1, t2, t3

MCThreads == {t1, t2, t3}

MCPair == {t1, t2}

=============================================================================
