--------------------------- MODULE MCAlertCommands ---------------------------
(* Bundles and Grafanas of two rule groups, each with what makes a push    *)
(* hard, the rule operations on them, and the queries.                     *)
EXTENDS AlertCommands

A == <<"f", "A">>
B == <<"h", "B">>

Rule(uid, title, val, paused, prov) ==
    [uid |-> uid, title |-> title, val |-> val, paused |-> paused, prov |-> prov]
LocalRule(uid, title, val) == Rule(uid, title, val, FALSE, "")
LocalGroup(id, interval, rules_) ==
    [id |-> id, interval |-> interval, hasOrg |-> FALSE, rules |-> rules_]
RemoteGroup(interval, rules_) == [interval |-> interval, rules |-> rules_]
Point(uid, name, val, secret) == [uid |-> uid, name |-> name, val |-> val, secret |-> secret]
RemotePoint(uid, name, val, secret, prov) ==
    [uid |-> uid, name |-> name, val |-> val, secret |-> secret, prov |-> prov]

Options(stop, dry, ui, uids) ==
    [stopOnError |-> stop, dryRun |-> dry, uiEditable |-> ui, ruleUIDs |-> uids, orgID |-> 1]
Op(op, uids, dry) == [op |-> op, uids |-> uids, dryRun |-> dry]

MCTexts == STRING

MCBundle ==
    [groups |-> <<LocalGroup(A, 1, <<LocalRule("2", "two", 2), LocalRule("1", "one", 2)>>),
                  LocalGroup(B, 2, <<LocalRule("3", "three", 1), LocalRule("", "four", 1)>>)>>,
     points |-> <<Point("p", "mail", 2, Redacted), Point("", "chat", 1, "s")>>,
     tree |-> [val |-> 2, routes |-> {"mail", "chat"}]]
MCGrafana(prov, provB) ==
    [groups |->
        [g \in {A, B} |->
            IF g = A THEN RemoteGroup(1, <<Rule("1", "one", 1, FALSE, prov),
                                           Rule("2", "two", 2, TRUE, prov)>>)
            ELSE RemoteGroup(1, <<Rule("3", "three", 1, FALSE, provB),
                                  Rule("5", "four", 1, FALSE, provB)>>)],
     points |-> {RemotePoint("p", "mail", 1, "s", prov)},
     tree |-> [val |-> 1, routes |-> {}, prov |-> provB],
     folders |-> {"f", "h"}]
MCEmpty ==
    [groups |-> [g \in {A, B} |-> NoGroup], points |-> {},
     tree |-> [val |-> 1, routes |-> {}, prov |-> ""], folders |-> {"f"}]

Query(cmd, uid, folder, state) == [cmd |-> cmd, uid |-> uid, folder |-> folder, state |-> state]
NoQuery == Query("none", "", "", "")

\* Two folders of one title.
MCFolderNames == [f |-> [path |-> "P/R", leaf |-> "R"], h |-> [path |-> "Q/R", leaf |-> "R"]]

Case(local_, options_, grafana, request_) ==
    [local |-> local_, options |-> options_, groups |-> grafana.groups,
     points |-> grafana.points, tree |-> grafana.tree,
     folders |-> grafana.folders, request |-> request_,
     live |-> <<>>, query |-> NoQuery]

NoOp == Op("none", <<>>, FALSE)

MCNoGroups == [groups |-> <<>>, points |-> <<>>, tree |-> NoTree]

MCQueries ==
    {Query("list", "", folder, state) :
        folder \in {"", "f", "h", "P/R", "R"}, state \in {"", "firing", "normal"}}
    \cup {Query("list", "", "", state) : state \in {"unknown", "recording", "unavailable", "x"}}
    \cup {Query("get", uid, "", "") : uid \in {"1", "5", "9"}}

MCCases ==
    \* A whole push, of each kind, onto what the bundle was pulled from.
    {Case(MCBundle, Options(stop, dry, FALSE, {}), MCGrafana("", "api"), NoOp) :
        stop \in BOOLEAN, dry \in BOOLEAN}
    \* Into an instance that has nothing yet, where a folder is missing.
    \cup {Case([MCBundle EXCEPT !.points[1].secret = s, !.groups[1].hasOrg = h],
               [Options(stop, FALSE, TRUE, {}) EXCEPT !.orgID = 0], MCEmpty, NoOp) :
            stop \in BOOLEAN, s \in {"s", Redacted}, h \in BOOLEAN}
    \* Of groups that another provisioner owns in part.
    \cup {Case(MCBundle, Options(FALSE, FALSE, FALSE, {}), MCGrafana("file", "api"), NoOp)}
    \* Of named rules, which are in the bundle and in Grafana, or in neither.
    \cup {Case(MCBundle, Options(FALSE, FALSE, FALSE, uids), MCGrafana("", "api"),
               Op("pause", <<"1", "3">>, FALSE)) :
            uids \in {{"1"}, {"1", "3"}, {"2", "5"}}}
    \* Rule operations, beside a push of one group.
    \cup {Case([MCBundle EXCEPT !.groups = <<@[1]>>, !.points = <<>>, !.tree = NoTree],
               Options(FALSE, FALSE, FALSE, {}), MCGrafana("api", ""), op) :
            op \in {Op("pause", <<"1", "2", "3">>, FALSE), Op("resume", <<"2", "9", "1">>, FALSE),
                    Op("delete", <<"3", "1", "2">>, FALSE), Op("delete", <<"1">>, TRUE),
                    Op("pause", <<"1">>, TRUE)}}
    \* Queries, beside a push that moves the rule 3 to the other group, and makes 1
    \* a recording rule.
    \cup {[Case([MCBundle EXCEPT !.groups =
                       <<LocalGroup(A, 1, <<LocalRule("1", "one", 0), LocalRule("3", "three", 1)>>)>>,
                    !.points = <<>>, !.tree = NoTree],
                 Options(FALSE, FALSE, FALSE, {}), MCGrafana("", ""), NoOp)
              EXCEPT !.groups[B].rules[2].val = 0, !.live = live_, !.query = query_] :
            live_ \in {[u \in {"1", "3"} |-> IF u = "1" THEN "firing" ELSE "inactive"],
                       [u \in {"5"} |-> "inactive"]},
            query_ \in MCQueries}

ASSUME BundlesFullAssumption == BundlesAreFull
ASSUME BundlesTakeableAssumption == BundlesTakeable
=============================================================================
