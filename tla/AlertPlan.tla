------------------------------ MODULE AlertPlan ------------------------------
(***************************************************************************)
(* What a push of a bundle would do and whether it may: the plan           *)
(* (internal/alerts/diff.go), the provenance header of a write             *)
(* (provenance.go) and the rule-scoped bundle (scope.go).                  *)
(*                                                                         *)
(* A local bundle is [groups, points, tree]: a sequence of [id, interval,  *)
(* rules, hasOrg], a sequence of contact points and a tree or NoTree. A    *)
(* group's id is <<folder uid, title>>. A line of a plan's detail is a     *)
(* marker and what it is about.                                            *)
(***************************************************************************)
EXTENDS GrafanaAlerting

NoTree == [val |-> 0, routes |-> {}]

Elements(seq) == {seq[i] : i \in DOMAIN seq}

-----------------------------------------------------------------------------
(* Rule groups                                                             *)

\* What equalRules compares: the rule as it would be sent.
Content(r) == [uid |-> r.uid, title |-> r.title, val |-> r.val, paused |-> r.paused]

SharedRuleUIDs(rules, other) ==
    LET shared == Those(rules, {i \in DOMAIN rules : rules[i].uid \in Uids(other)})
    IN  [i \in DOMAIN shared |-> shared[i].uid]

AnyOrder(rules, other) == TRUE

SameRuleOrder(rules, other) ==
    SharedRuleUIDs(rules, other) = SharedRuleUIDs(other, rules)

\* The remote rules that a rule without a uid would replace, by their title.
ReplacedRules(rule, locals, remote) ==
    {r \in RuleSet(remote) :
        rule.uid = NoUid /\ r.title = rule.title /\ r.uid \notin Uids(locals)}

RuleDetails(locals, remote) ==
    {<<"+", r.title, r.uid>> : r \in {r \in RuleSet(locals) : r.uid \notin Uids(remote)}}
    \cup {<<"!", r.title, r.uid>> :
            r \in UNION {ReplacedRules(rule, locals, remote) : rule \in RuleSet(locals)}}
    \cup {<<"~", r.title, r.uid>> :
            r \in {r \in RuleSet(locals) :
                      /\ r.uid \in Uids(remote)
                      /\ Content(r) # Content(RuleWith(remote, r.uid))}}
    \cup {<<"-", r.title, r.uid>> : r \in {r \in RuleSet(remote) : r.uid \notin Uids(locals)}}

GroupDetail(local, remote) ==
    RuleDetails(local.rules, remote.rules)
    \cup (IF local.interval # remote.interval THEN {<<"~", "interval", "">>} ELSE {})
    \cup (IF SameRuleOrder(local.rules, remote.rules) THEN {}
          ELSE {<<"~", "rule order", "">>})

ActionFor(equal) == IF equal THEN "Unchanged" ELSE "Update"

PlanGroup(local, remote) ==
    [kind |-> "RuleGroup", id |-> local.id,
     action |-> IF remote = NoGroup THEN "Create"
                ELSE ActionFor(GroupDetail(local, remote) = {})]

-----------------------------------------------------------------------------
(* Contact points and the policy tree                                      *)

\* matchContactPoint: by uid, or else by name.
Matches(point, remote) ==
    {p \in remote : IF point.uid # NoUid THEN p.uid = point.uid ELSE p.name = point.name}

PointID(point) == <<IF point.uid # NoUid THEN point.uid ELSE point.name>>

EqualNames(local, remote) == local.name = remote.name

\* equalContactPoints: the marker is equal to any secret.
EqualPoints(local, remote) ==
    /\ local.name = remote.name /\ local.val = remote.val
    /\ local.secret \in {remote.secret, Redacted}

\* A name of several points, or two entries for one point, fail the plan.
PlanPointsFails(points, remote) ==
    \/ \E i \in DOMAIN points : Cardinality(Matches(points[i], remote)) > 1
    \/ \E i \in DOMAIN points, j \in DOMAIN points :
          i # j /\ Matches(points[i], remote) \cap Matches(points[j], remote) # {}

PlanPoint(point, remote) ==
    [kind |-> "ContactPoint", id |-> PointID(point),
     action |-> IF Matches(point, remote) = {} THEN "Create"
                ELSE ActionFor(\A p \in Matches(point, remote) : EqualPoints(point, p))]

PlanTree(local, remote) ==
    [kind |-> "PolicyTree", id |-> <<"policies">>,
     action |-> ActionFor(local.val = remote.val /\ local.routes = remote.routes)]

\* Plan, for a bundle and what was fetched of it.
Plan(local, remote) ==
    {PlanPoint(p, remote.points) : p \in Elements(local.points)}
    \cup {PlanTree(t, remote.tree) : t \in {local.tree} \ {NoTree}}
    \cup {PlanGroup(g, remote.groups[g.id]) : g \in Elements(local.groups)}

-----------------------------------------------------------------------------
(* Provenance: the header of a write, or "refused"                         *)

CreateHeader(uiEditable) == IF uiEditable THEN "true" ELSE "omit"

ProvenanceHeader(stored) ==
    CASE stored = "" -> "true"
      [] stored = "api" -> "omit"
      [] OTHER -> "refused"

\* One header for all rules of a group, which must agree.
GroupProvenanceHeader(rules) ==
    LET provs == {r.prov : r \in RuleSet(rules)}
    IN  CASE provs = {} -> "true"
          [] Cardinality(provs) = 1 -> ProvenanceHeader(CHOOSE p \in provs : TRUE)
          [] OTHER -> "refused"

-----------------------------------------------------------------------------
(* A push of named rules                                                   *)

\* locateLocalRules: the first group of the bundle that holds the rule.
Holders(local, uid) == {g \in Elements(local.groups) : uid \in Uids(g.rules)}

\* syntheticGroup: the fetched group, the named rules replaced by the bundle's.
SyntheticGroup(id, remote, local, uids) ==
    [id |-> id, interval |-> remote.interval, hasOrg |-> TRUE,
     rules |-> [i \in DOMAIN remote.rules |->
                   LET uid == remote.rules[i].uid
                   IN  IF uid \in uids
                       THEN RuleWith((CHOOSE g \in Holders(local, uid) : TRUE).rules, uid)
                       ELSE remote.rules[i]]]

\* scopedOffence, for one entry of the plan and its detail.
ScopedOffence(change, detail, uids) ==
    \/ change.kind # "RuleGroup" \/ change.action = "Create"
    \/ change.action = "Update" /\ detail = {}
    \/ \E line \in detail : line[1] # "~" \/ line[3] \notin uids

=============================================================================
