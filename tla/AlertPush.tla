------------------------------ MODULE AlertPush ------------------------------
(***************************************************************************)
(* alerts.Push (internal/alerts/push.go, and the Pull it starts with): what*)
(* the bundle names is fetched, planned, and written in phases, contact    *)
(* points first, then the policy tree, then the rule groups, one by one    *)
(* with StopOnError and else concurrently. With ruleUIDs the push is about *)
(* those rules only.                                                       *)
(*                                                                         *)
(* One action is one request and its answer. The bound on the requests in  *)
(* flight is left out: it only restricts the order of the answers, which is*)
(* arbitrary here.                                                         *)
(***************************************************************************)
EXTENDS AlertPlan

CONSTANT Faults   \* "request": a request fails, with or without effect;
                  \* "session": the session dies; "forbidden": a folder may
                  \* not be read

VARIABLES
    local,      \* the bundle
    options,    \* PushOptions: [stopOnError, dryRun, uiEditable, ruleUIDs, orgID]
    groups,     \* Grafana's rule groups by their id
    points,     \* Grafana's contact points
    tree,       \* Grafana's policy tree
    folders,    \* the uids of Grafana's folders
    session,    \* Grafana accepts the session cookie
    phase,      \* the phase of the push
    todo,       \* what the phase has still to handle
    refs,       \* the rule groups that the push is about
    remote,     \* what was fetched: [groups, points, tree]
    plan,       \* the changes of the plan
    blocked,    \* the folders that checkFolders ruled out
    applied,    \* result.Applied
    failed,     \* result.Failed: [change, err], where err is "401", "error" (a
                \* request that failed), "rejected" (by Grafana), "refused"
                \* (never sent) or "folder"
    returned    \* the error that Push returns: "nil", "error" or "401"

grafanaVars == <<groups, points, tree, folders, session>>
pushVars == <<phase, todo, refs, remote, plan, blocked, applied, failed, returned>>

Scoped == options.ruleUIDs # {}
StopOnError == options.stopOnError /\ ~options.dryRun

\* The bundle that is pushed.
Pushed ==
    IF ~Scoped THEN local
    ELSE [groups |->
            LET found == Those(local.groups,
                               {i \in DOMAIN local.groups : local.groups[i].id \in refs})
            IN  [i \in DOMAIN found |->
                    SyntheticGroup(found[i].id, remote.groups[found[i].id], local,
                                   options.ruleUIDs)],
          points |-> <<>>, tree |-> NoTree]

Group(id) == CHOOSE g \in Elements(Pushed.groups) : g.id = id

Init ==
    /\ phase = "start"
    /\ todo = {} /\ refs = {}
    /\ remote = [groups |-> <<>>, points |-> {}, tree |-> NoTree]
    /\ plan = {} /\ blocked = {}
    /\ applied = {} /\ failed = {}
    /\ returned = "nil"

Return(err) == phase' = "done" /\ returned' = err

\* How a request may fail: the dead session, or any other error.
Errors ==
    (IF session THEN {} ELSE {"401"})
    \cup (IF session /\ "request" \in Faults THEN {"error"} ELSE {})

RequestFails ==
    /\ \E err \in Errors : Return(err)
    /\ UNCHANGED <<todo, refs, remote, plan, blocked, applied, failed>>

-----------------------------------------------------------------------------
(* Fetching                                                                *)

\* Push refuses a rule that the bundle does not hold, before any request.
Start ==
    /\ phase = "start"
    /\ IF \E uid \in options.ruleUIDs : Holders(local, uid) = {}
       THEN Return("error") /\ UNCHANGED <<todo, refs>>
       ELSE /\ phase' = IF Scoped THEN "lookup" ELSE "fetch"
            /\ refs' = IF Scoped THEN {} ELSE {g.id : g \in Elements(local.groups)}
            /\ todo' = IF Scoped THEN options.ruleUIDs ELSE refs'
            /\ UNCHANGED returned
    /\ UNCHANGED <<remote, plan, blocked, applied, failed>>

\* ruleGroupRefs: which group holds a named rule. An unknown uid is an error.
Lookup ==
    /\ phase = "lookup"
    /\ \/ \E uid \in todo :
            LET holders == {g \in DOMAIN groups : uid \in Uids(groups[g].rules)}
            IN  /\ session
                /\ IF holders = {}
                   THEN Return("error") /\ UNCHANGED <<todo, refs>>
                   ELSE /\ refs' = refs \cup holders
                        /\ IF todo = {uid}
                           THEN phase' = "fetch" /\ todo' = refs'
                           ELSE todo' = todo \ {uid} /\ UNCHANGED phase
                        /\ UNCHANGED returned
                /\ UNCHANGED <<remote, plan, blocked, applied, failed>>
       \/ RequestFails

\* fetchGroups, in any order. A group that does not exist is left out.
FetchGroup ==
    /\ phase = "fetch" /\ todo # {}
    /\ \/ \E g \in todo :
            /\ session
            /\ remote' = [remote EXCEPT !.groups =
                  [h \in DOMAIN @ \cup {g} |-> IF h = g THEN groups[g] ELSE @[h]]]
            /\ todo' = todo \ {g}
            /\ UNCHANGED <<phase, refs, plan, blocked, applied, failed, returned>>
       \/ RequestFails

FetchPoints ==
    /\ phase = "fetch" /\ todo = {} /\ ~Scoped
    /\ \/ /\ session
          /\ remote' = [remote EXCEPT !.points = points]
          /\ phase' = "fetchTree"
          /\ UNCHANGED <<todo, refs, plan, blocked, applied, failed, returned>>
       \/ RequestFails

FetchTree ==
    /\ phase = "fetchTree"
    /\ \/ /\ session
          /\ remote' = [remote EXCEPT !.tree = tree]
          /\ phase' = "plan"
          /\ UNCHANGED <<todo, refs, plan, blocked, applied, failed, returned>>
       \/ RequestFails

-----------------------------------------------------------------------------
(* Planning                                                                *)

\* requireRules and scopeBundles: each named rule is still in a fetched group,
\* which is the one that the bundle has it in.
InPlace(uid) ==
    \E g \in refs :
        uid \in Uids(remote.groups[g].rules) /\ \E h \in Holders(local, uid) : h.id = g

Offends(change) ==
    ScopedOffence(change,
                  GroupDetail(Group(change.id), remote.groups[change.id]),
                  options.ruleUIDs)

\* The plan, its unchanged entries recorded.
MakePlan ==
    /\ \/ phase = "plan"
       \/ phase = "fetch" /\ todo = {} /\ Scoped
    /\ IF \/ ~Scoped /\ PlanPointsFails(local.points, remote.points)
          \/ Scoped /\ \E uid \in options.ruleUIDs : ~InPlace(uid)
          \/ Scoped /\ \E c \in Plan(Pushed, remote) : Offends(c)
       THEN Return("error") /\ UNCHANGED <<todo, plan, applied>>
       ELSE /\ plan' = Plan(Pushed, remote)
            /\ applied' = {c \in plan' : c.action = "Unchanged"}
            /\ phase' = "points"
            /\ todo' = plan' \ applied'
            /\ UNCHANGED returned
    /\ UNCHANGED <<refs, remote, blocked, failed>>

-----------------------------------------------------------------------------
(* Writing. todo is the changes of the plan that have still to be recorded *)

TodoOf(kind) == {c \in todo : c.kind = kind}

\* record, for one change of a phase that goes one by one: the push stops at
\* the first error with StopOnError, and at a dead session.
Record(change, err) ==
    /\ todo' = todo \ {change}
    /\ IF err = "nil"
       THEN applied' = applied \cup {change} /\ UNCHANGED <<failed, phase, returned>>
       ELSE /\ failed' = failed \cup {[change |-> change, err |-> err]}
            /\ IF StopOnError \/ err = "401"
               THEN Return(IF err = "401" THEN err ELSE "error")
               ELSE UNCHANGED <<phase, returned>>
            /\ UNCHANGED applied

RecordNoStop(change, err) ==
    /\ todo' = todo \ {change}
    /\ IF err = "nil"
       THEN applied' = applied \cup {change} /\ UNCHANGED failed
       ELSE failed' = failed \cup {[change |-> change, err |-> err]} /\ UNCHANGED applied
    /\ UNCHANGED <<phase, returned>>

\* Concurrent writes all end, whatever becomes of the others; a dead session is
\* what the push returns after them.
RecordOutcome(change, err) ==
    /\ todo' = todo \ {change}
    /\ IF err = "nil"
       THEN applied' = applied \cup {change} /\ UNCHANGED failed
       ELSE failed' = failed \cup {[change |-> change, err |-> err]} /\ UNCHANGED applied
    /\ returned' = IF err = "401" THEN err ELSE returned
    /\ UNCHANGED phase

RecordIn(change, err) ==
    IF phase = "groups" /\ ~StopOnError THEN RecordOutcome(change, err)
                                        ELSE Record(change, err)

\* The outcomes of one write: it may be refused before it is sent (with the
\* header "refused"), only planned, answered, or fail with or without effect.
Write(change, header, allowed, effect, noEffect) ==
    \/ header = "refused" /\ RecordIn(change, "refused") /\ noEffect
    \/ header # "refused" /\ options.dryRun /\ RecordIn(change, "nil") /\ noEffect
    \/ /\ header # "refused" /\ ~options.dryRun
       /\ \/ session /\ allowed /\ effect /\ RecordIn(change, "nil")
          \/ session /\ ~allowed /\ noEffect /\ RecordIn(change, "rejected")
          \/ /\ session /\ allowed /\ "request" \in Faults
             /\ effect /\ RecordIn(change, "error")
          \/ \E err \in Errors : noEffect /\ RecordIn(change, err)

\* createContactPoint and updateContactPoint: the marker is no secret to create.
PointHeader(point) ==
    IF Matches(point, remote.points) = {}
    THEN IF point.secret = Redacted THEN "refused" ELSE CreateHeader(options.uiEditable)
    ELSE ProvenanceHeader((CHOOSE p \in Matches(point, remote.points) : TRUE).prov)

\* The first contact point of the bundle that is still to be written.
NextPoint ==
    LET pending == {i \in DOMAIN local.points :
                       \E c \in TodoOf("ContactPoint") : c.id = PointID(local.points[i])}
    IN  local.points[CHOOSE i \in pending : \A j \in pending : i <= j]

PushContactPoint ==
    /\ phase = "points" /\ TodoOf("ContactPoint") # {}
    /\ LET point == NextPoint
           change == CHOOSE c \in TodoOf("ContactPoint") : c.id = PointID(point)
           header == PointHeader(point)
           found == Matches(point, remote.points)
           uid == IF found = {} THEN point.uid ELSE (CHOOSE p \in found : TRUE).uid
           after == IF found = {} THEN PostPoint(points, point, header)
                    ELSE PutPoint(points, uid, point, header)
           allowed == IF found = {}
                      THEN \A p \in points : p.uid # point.uid
                      ELSE MayPutPoint(points, uid, header)
       IN  Write(change, header, allowed, points' = after, UNCHANGED points)
    /\ UNCHANGED <<refs, remote, plan, blocked, groups, tree, folders, session>>

NextPhase(from, kind, to) ==
    /\ phase = from /\ TodoOf(kind) = {}
    /\ phase' = to
    /\ UNCHANGED <<todo, refs, remote, plan, blocked, applied, failed, returned,
                   grafanaVars>>

PushPolicyTree ==
    /\ phase = "tree" /\ TodoOf("PolicyTree") # {}
    /\ LET change == CHOOSE c \in TodoOf("PolicyTree") : TRUE
           header == ProvenanceHeader(remote.tree.prov)
       IN  Write(change, header, MayPutTree(tree, points, local.tree, header),
                 tree' = PutTree(local.tree, header), UNCHANGED tree)
    /\ UNCHANGED <<refs, remote, plan, blocked, groups, points, folders, session>>

FolderOf(change) == change.id[1]

\* checkFolders: a missing or unreadable folder blocks its groups, any other
\* error ends the push.
CheckFolders ==
    /\ phase = "folders" /\ TodoOf("RuleGroup") # {}
    /\ \/ /\ session
          /\ \E unreadable \in SUBSET {FolderOf(c) : c \in TodoOf("RuleGroup")} :
                /\ unreadable # {} => "forbidden" \in Faults
                /\ blocked' = unreadable \cup
                      ({FolderOf(c) : c \in TodoOf("RuleGroup")} \ folders)
          /\ phase' = "blocked"
          /\ UNCHANGED <<todo, refs, remote, plan, applied, failed, returned>>
       \/ RequestFails
    /\ UNCHANGED grafanaVars

InBlocked(change) == FolderOf(change) \in blocked

\* The groups in those folders are recorded as failed: the code goes through them in
\* order, which matters to nothing but the report, and here they come in any.
RecordBlocked ==
    /\ phase = "blocked"
    /\ LET refused == {c \in TodoOf("RuleGroup") : InBlocked(c)}
       IN  IF refused = {}
           THEN phase' = "groups" /\ UNCHANGED <<todo, failed, applied, returned>>
           ELSE \E c \in refused : Record(c, "folder")
    /\ UNCHANGED <<refs, remote, plan, blocked, grafanaVars>>

\* ruleGroupHeader and requireOrgID.
GroupHeader(g) ==
    LET held == remote.groups[g.id].rules
    IN  IF held = <<>> /\ options.orgID = 0 /\ ~g.hasOrg THEN "refused"
        ELSE IF held = <<>> THEN CreateHeader(options.uiEditable)
        ELSE GroupProvenanceHeader(held)

AnyGroups ==
    {g \in Elements(Pushed.groups) : \E c \in TodoOf("RuleGroup") : c.id = g.id}

\* The next group of the bundle with StopOnError, and else any.
NextGroups ==
    LET pending == {i \in DOMAIN Pushed.groups :
                       \E c \in TodoOf("RuleGroup") : c.id = Pushed.groups[i].id}
    IN  {Pushed.groups[i] : i \in
            {i \in pending : StopOnError => \A j \in pending : i <= j}}

PushRuleGroup ==
    /\ phase = "groups"
    /\ \E g \in NextGroups :
          LET change == CHOOSE c \in TodoOf("RuleGroup") : c.id = g.id
              header == GroupHeader(g)
          IN  Write(change, header, MayPutGroup(groups, folders, g.id, g, header),
                    groups' = PutGroup(groups, g.id, g, header), UNCHANGED groups)
    /\ UNCHANGED <<refs, remote, plan, blocked, points, tree, folders, session>>

Finish ==
    /\ phase = "groups" /\ TodoOf("RuleGroup") = {}
    /\ Return(returned)
    /\ UNCHANGED <<todo, refs, remote, plan, blocked, applied, failed, grafanaVars>>

Fetch == (Start \/ Lookup \/ FetchGroup \/ FetchPoints \/ FetchTree \/ MakePlan)
         /\ UNCHANGED grafanaVars

Apply ==
    \/ PushContactPoint
    \/ NextPhase("points", "ContactPoint", "tree")
    \/ PushPolicyTree
    \/ NextPhase("tree", "PolicyTree", IF TodoOf("RuleGroup") = {} THEN "groups" ELSE "folders")
    \/ CheckFolders \/ RecordBlocked
    \/ PushRuleGroup \/ Finish

Next == Fetch \/ Apply

=============================================================================
