---------------------------- MODULE MCPullDelete ----------------------------
(* PullDelete for TLC: a server with dashboards in two versions and a group *)
(* of its own, and one where a second group has dashboards too, whose files *)
(* would be those of the first.                                             *)
EXTENDS PullDelete, TLC

G == "dashboard.grafana.app"
H == "folder.grafana.app"
X == "dashboardx.grafana.app"
Secret == "iam.grafana.app"

Group(name, short, preferred, versions) ==
    [name |-> name, short |-> short, preferred |-> preferred, versions |-> versions]
Res(group, version, kind, singular, plural) ==
    [group |-> group, version |-> version, kind |-> kind, singular |-> singular,
     plural |-> plural, usable |-> TRUE]

Boards(group, version) == Res(group, version, "Dashboard", "dashboard", "dashboards")
Users == Res(Secret, "v1", "User", "user", "users")
Sub == [Boards(G, "v1") EXCEPT !.plural = "dashboards/status", !.usable = FALSE]

Plain == [groups |-> <<Group(G, "dashboard", "v1", {"v1", "v2"}), Group(H, "folder", "v1", {"v1"}),
                       Group(Secret, "iam", "v1", {"v1"})>>,
          resources |-> <<Boards(G, "v1"), Sub, Boards(G, "v2"),
                          Res(H, "v1", "Folder", "folder", "folders"), Users>>]
Twice == [groups |-> <<Group(X, "dashboardx", "v1", {"v1"}), Group(G, "dashboard", "v2", {"v1", "v2"})>>,
          resources |-> <<Boards(X, "v1"), Boards(G, "v1"), Boards(G, "v2")>>]
Torn == [Plain EXCEPT !.groups = Tail(@)]

Old(m) == [rev |-> 1, stored |-> "", manager |-> m]
A == <<G, "Dashboard", "a">>
B == <<G, "Dashboard", "b">>
AX == <<X, "Dashboard", "a">>
F == <<H, "Folder", "f">>

World1 == A :> Old("grafanapi") @@ B :> [Old("other") EXCEPT !.stored = "v2"]
          @@ F :> Old("grafanapi") @@ AX :> Old("grafanapi")

Doc(o, version) == [group |-> o[1], kind |-> o[2], name |-> o[3], version |-> version,
                    rev |-> 0, manager |-> "grafanapi"]
Directories == {Path(Doc(A, "v2")) :> Doc(A, "v2") @@ Path(Doc(F, "v1")) :> Doc(F, "v1"),
            Path(Doc(B, "v1")) :> Cut}

Sel(resource, group, version, uids) ==
    [resource |-> resource, group |-> group, version |-> version, uids |-> uids]
Arguments == {<<>>, <<Sel("dashboards", "", "", {})>>,
           <<Sel("dashboard", "", "", {"a"})>>,
           <<Sel("dashboards", G, "v2", {"a", "b"}), Sel("folders", "folder", "", {"f"})>>,
           <<Sel("Dashboard", "dashboard", "", {"b"}), Sel("dashboards", "", "", {})>>,
           <<Sel("users", "", "", {})>>}

Line(name, args, onError) ==
    [name |-> name, args |-> args, onError |-> onError, path |-> FALSE, force |-> FALSE,
     dryRun |-> FALSE, includeManaged |-> FALSE, then |-> "nothing"]
Deletes(onError) ==
    {[Line("delete", a, onError) EXCEPT !.path = p, !.force = f] :
        a \in Arguments, p \in BOOLEAN, f \in BOOLEAN}
Lines ==
    UNION {{Line("pull", a, e) : a \in Arguments} \cup Deletes(e) : e \in {"ignore", "fail", "abort"}}
    \cup {[Line("pull", <<>>, "fail") EXCEPT !.includeManaged = TRUE],
          [Line("delete", <<Sel("dashboards", "", "", {"a"})>>, "fail") EXCEPT !.dryRun = TRUE]}

MCCases == {[disc |-> d, remote |-> World1, files |-> t, command |-> c] :
               d \in {Plain, Twice, Torn}, t \in Directories, c \in Lines}
MCIgnored == {Secret}
=============================================================================
