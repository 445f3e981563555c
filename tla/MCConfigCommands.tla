-------------------------- MODULE MCConfigCommands --------------------------
(* ConfigCommands for TLC: two contexts, and commands of each shape that    *)
(* meet on them, with an override of the environment, a --context and a     *)
(* --config among them.                                                     *)
EXTENDS ConfigCommands, TLC

Command(cmd, name, field, value) ==
    [cmd |-> cmd, name |-> name, field |-> field, value |-> value,
     env |-> Unset, context |-> "", file |-> "own"]

SetServer == Command("set", "b", "server", "s1")
SetWindow == Command("set", "default", "window", "6d")
UnsetB == Command("unset", "b", "context", Unset)
UseB == Command("use", "b", "", Unset)
Login == Command("login", "", "", "s1")

MCInvocations ==
    {SetServer, [SetServer EXCEPT !.env = "s2"], [SetServer EXCEPT !.context = "b"],
     SetWindow, [SetWindow EXCEPT !.file = "other", !.env = "s2"],
     Command("set", "b", "context", "s1"), Command("set", "", "current", "b"),
     UnsetB, [UnsetB EXCEPT !.file = "other"], Command("unset", "b", "server", Unset),
     Command("unset", "b", "grafana", Unset), Command("unset", "", "contexts", Unset),
     Command("unset", "", "current", Unset),
     UseB, Login, [Login EXCEPT !.context = "b", !.value = "s2"]}

Two == Config([n \in {"default", "b"} |-> [exists |-> TRUE, server |-> "s1", window |-> "6d"]], "b")
MCInitFiles == {[own |-> Missing, other |-> Torn], [own |-> Two, other |-> Two]}
=============================================================================
