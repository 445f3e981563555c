------------------------------ MODULE MCServe ------------------------------
(* Serve for TLC: two files, two names, two saves at once, and a preview    *)
(* that is started twice next to another one: it has the port that URLs     *)
(* leave out.                                                               *)
EXTENDS Serve, TLC

MCAddresses == {"127.0.0.1", "0.0.0.0", "10.0.0.5", "fe80::1", "grafana.local"}
MCInterfaces == {"127.0.0.1", "10.0.0.5", "fe80::1"}
MCLinkLocal == {"fe80::1"}
MCRuns == Main :> 2 @@ Other :> 1
MCSymmetry == Permutations(Handlers) \cup Permutations(Files) \cup Permutations(Names)
=============================================================================
