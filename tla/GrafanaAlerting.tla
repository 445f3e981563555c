--------------------------- MODULE GrafanaAlerting ---------------------------
(***************************************************************************)
(* Grafana's alerting as the provisioning API shows it, modelled from how  *)
(* internal/alerts uses it: what a request requires, and what it leaves.   *)
(*                                                                         *)
(* A rule group is an interval and a sequence of rules; Grafana has no     *)
(* group without rules. A rule has a uid, a title, whether it is paused,   *)
(* val for the rest of its contents, and its provenance: "" (editable in   *)
(* the UI), "api", or the name of another provisioner. A request carries   *)
(* X-Disable-Provenance ("true") or not ("omit").                          *)
(***************************************************************************)
EXTENDS Naturals, Sequences, FiniteSets

NoGroup == [interval |-> 0, rules |-> <<>>]
NoUid == ""
Redacted == "[REDACTED]"

RuleSet(rules) == {rules[i] : i \in DOMAIN rules}
Uids(rules) == {r.uid : r \in RuleSet(rules)} \ {NoUid}
RuleWith(rules, uid) == CHOOSE r \in RuleSet(rules) : r.uid = uid

\* A write may keep the provenance or turn "" into "api", nothing else.
Permits(stored, header) ==
    \/ stored = ""
    \/ stored = "api" /\ header = "omit"

Stamp(header) == IF header = "true" THEN "" ELSE "api"

\* Grafana gives a new rule a uid, here its title.
Stored(rule, header) ==
    [uid |-> IF rule.uid = NoUid THEN rule.title ELSE rule.uid,
     title |-> rule.title, val |-> rule.val, paused |-> rule.paused,
     prov |-> Stamp(header)]

\* The elements of a sequence at the positions kept, in their order.
Those(seq, kept) ==
    LET upTo[n \in 0..Len(seq)] ==
            IF n = 0 THEN <<>>
            ELSE IF n \in kept THEN Append(upTo[n - 1], seq[n]) ELSE upTo[n - 1]
    IN  upTo[Len(seq)]

Without(group, uids) ==
    LET rules == group.rules
        left == Those(rules, {i \in DOMAIN rules : rules[i].uid \notin uids})
    IN  IF left = <<>> THEN NoGroup ELSE [group EXCEPT !.rules = left]

\* PUT of a rule group: it is replaced, and takes rules from other groups.
MayPutGroup(groups, folders, g, body, header) ==
    /\ g[1] \in folders
    /\ \A r \in RuleSet(groups[g].rules) : Permits(r.prov, header)
    /\ \A h \in DOMAIN groups : \A r \in RuleSet(groups[h].rules) :
          r.uid \in Uids(body.rules) => Permits(r.prov, header)

PutGroup(groups, g, body, header) ==
    [h \in DOMAIN groups |->
        IF h # g THEN Without(groups[h], Uids(body.rules))
        ELSE IF body.rules = <<>> THEN NoGroup
        ELSE [interval |-> body.interval,
              rules |-> [i \in DOMAIN body.rules |-> Stored(body.rules[i], header)]]]

\* DELETE of a rule.
MayDelete(groups, uid, header) ==
    \E h \in DOMAIN groups : \E r \in RuleSet(groups[h].rules) :
        r.uid = uid /\ Permits(r.prov, header)

DeleteRule(groups, uid) == [h \in DOMAIN groups |-> Without(groups[h], {uid})]

\* A contact point has a uid, a name, val and a secret. PUT of the point uid;
\* the marker keeps the secret. POST of a new one.
MayPutPoint(points, uid, header) ==
    \E p \in points : p.uid = uid /\ Permits(p.prov, header)

PutPoint(points, uid, body, header) ==
    LET old == CHOOSE p \in points : p.uid = uid
    IN  (points \ {old}) \cup
        {[uid |-> uid, name |-> body.name, val |-> body.val,
          secret |-> IF body.secret = Redacted THEN old.secret ELSE body.secret,
          prov |-> Stamp(header)]}

PostPoint(points, body, header) ==
    points \cup
        {[uid |-> IF body.uid = NoUid THEN body.name ELSE body.uid,
          name |-> body.name, val |-> body.val, secret |-> body.secret,
          prov |-> Stamp(header)]}

\* PUT of the policy tree: it may only route to contact points that exist.
MayPutTree(tree, points, body, header) ==
    /\ Permits(tree.prov, header)
    /\ body.routes \subseteq {p.name : p \in points}

PutTree(body, header) ==
    [val |-> body.val, routes |-> body.routes, prov |-> Stamp(header)]

=============================================================================
