------------------------- MODULE MCResourceCommands -------------------------
(* ResourceCommands for TLC: the pulls and deletes of MCPullDelete, gets and *)
(* edits on the same servers, pushes of trees of up to four files, each with *)
(* what makes a push hard, and pushes of what a pull wrote: nested folders,  *)
(* an object that is stored in another version and one of another tool.      *)
EXTENDS ResourceCommands, MCPullDelete

Supports == {<<"Folder", "v1">>, <<"Folder", "v2">>, <<"Dashboard", "v1">>}

AFolder(uid, parent) ==
    [kind |-> "Folder", version |-> "v1", uid |-> uid, parent |-> parent,
     foreign |-> FALSE]
ADashboard(uid, parent) ==
    [kind |-> "Dashboard", version |-> "v1", uid |-> uid, parent |-> parent,
     foreign |-> FALSE]

NoFile == [kind |-> "missing"]          \* Missing and Unreadable of FSReader
BadFile == [kind |-> "unreadable"]

NestedTree ==
    <<AFolder("c", "b"), ADashboard("d", "c"), AFolder("b", "a"), AFolder("a", "")>>
WideTree ==
    <<AFolder("a", "outside"), AFolder("b", "a"), AFolder("c", "a"),
      [ADashboard("d", "") EXCEPT !.version = "v3"]>>
Cycle ==
    <<AFolder("a", "b"), AFolder("b", "a"), AFolder("c", "b"), ADashboard("d", "")>>
BrokenTree ==
    <<BadFile, AFolder("a", ""), NoFile,
      [ADashboard("d", "a") EXCEPT !.foreign = TRUE]>>
TwoRefs ==
    <<AFolder("a", ""), [AFolder("a", "outside") EXCEPT !.version = "v2"],
      ADashboard("d", "a"), ADashboard("d", "")>>

MCPushTrees == {NestedTree, WideTree, Cycle, BrokenTree, TwoRefs}

MCRequests ==
    {[stopOnError |-> s, dryRun |-> d, includeManaged |-> ~d, supported |-> Supports] :
        s \in BOOLEAN, d \in BOOLEAN}

(* get and edit, and a pull that a push follows.                             *)
Gets == {Line("get", a, e) : a \in Arguments, e \in {"fail", "abort"}}
Edits == {Line("edit", a, "fail") :
             a \in {<<Sel("dashboard", "", "", {u})>> : u \in {"a", "b"}} \cup
                  {<<Sel("dashboards", "", "", {})>>}}

Inner == <<H, "Folder", "g">>
C == <<G, "Dashboard", "c">>
World2 == A :> Old("grafanapi") @@ B :> [Old("") EXCEPT !.stored = "v2"] @@ C :> Old("other")
          @@ F :> Old("grafanapi") @@ Inner :> Old("grafanapi")
World3 == [World2 EXCEPT ![F] = Old("other")]     \* the folder of the folder
MCFolder(kind, name) ==
    CASE kind = "Folder" /\ name = "g" -> "f" [] kind = "Dashboard" /\ name = "a" -> "g"
      [] OTHER -> ""

Backups == {[Line("pull", a, "fail") EXCEPT !.then = "push", !.includeManaged = m] :
               a \in {<<>>, <<Sel("dashboards", G, "v2", {"a", "b"}), Sel("folders", "folder", "", {"f"})>>},
               m \in BOOLEAN}
MCFollowing ==
    {[stopOnError |-> m, dryRun |-> FALSE, includeManaged |-> m, supported |-> {}] : m \in BOOLEAN}

MCAllCases ==
    MCCases
    \cup {[disc |-> d, remote |-> World1, files |-> <<>>, command |-> c] :
              d \in {Plain, Twice}, c \in Gets \cup Edits}
    \cup {[disc |-> Plain, remote |-> World2, files |-> t, command |-> c] :
              t \in {<<>>, Path(Doc(A, "v2")) :> Doc(A, "v2")}, c \in Backups}
    \cup {[disc |-> Plain, remote |-> World3, files |-> <<>>, command |-> c] :
              c \in {b \in Backups : b.args = <<>>}}

ASSUME CasesClearAssumption == CasesAreClear
ASSUME CasesListedAssumption == CasesAreListed
ASSUME BackupsSoundAssumption == BackupsAreSound
=============================================================================
