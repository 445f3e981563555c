---------------------------- MODULE MCAlertsPull ----------------------------
(* Two folders; the titles A and a are one name to the file system.        *)
EXTENDS AlertsPull, TLC

MCFold == [n \in {"A", "a", "B", "own"} |-> IF n = "a" THEN "A" ELSE n]

Flags(folders, uids, overwrite, ext) ==
    [folders |-> folders, uids |-> uids, overwrite |-> overwrite, ext |-> ext]

MCRequests ==
    {Flags({}, {}, FALSE, ext) : ext \in {"yaml", "json"}}
    \cup {Flags({"f"}, {}, FALSE, "yaml")}
    \cup {Flags({}, {"1", "2"}, FALSE, "json"), Flags({}, {"2"}, FALSE, "yaml"),
          Flags({}, {"1"}, TRUE, "yaml")}

RuleOf(uid) == [uid |-> uid, val |-> 1]
MCGroups == (<<"f", "A">> :> {RuleOf("1")}) @@ (<<"h", "B">> :> {RuleOf("2"), RuleOf("3")})
=============================================================================
