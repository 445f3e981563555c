---------------------------- MODULE AlertCommands ----------------------------
(***************************************************************************)
(* `alerts push`, one of `alerts rules delete`, `pause` and `resume`, and  *)
(* one of `alerts rules list` and `get` running against the same Grafana,  *)
(* in which others edit too and the session of all may die.                *)
(***************************************************************************)
EXTENDS AlertPush

CONSTANTS
    Cases,       \* the situations to start from: [local, options, groups,
                 \* points, tree, folders, live, request, query]
    MaxEdits,    \* how often others edit, or Grafana evaluates a rule
    Texts,       \* uids, names and whatever else is a text
    FolderNames  \* see AlertQueries

VARIABLES
    request, step, queue, rules, body, outcome, stopped,   \* see RuleOps
    live, query, asked, definitions, answer,               \* see AlertQueries
    edits,       \* the edits of others so far
    disturbed,   \* history: rules were changed since the push started, not by it
    ever, always \* history: the facts that were true at some moment of the
                 \* query, and at every moment of it

O == INSTANCE RuleOps
Q == INSTANCE AlertQueries
E == INSTANCE Errors

opVars == <<request, step, queue, rules, body, outcome, stopped>>
queryVars == <<query, asked, definitions, answer>>
inputVars == <<local, options>>
vars == <<inputVars, grafanaVars, pushVars, opVars, live, queryVars, edits,
          disturbed, ever, always>>

ASSUME EditsAssumption == MaxEdits \in Nat
ASSUME TextsAssumption == {"", "api"} \subseteq Texts

AlertInit ==
    /\ \E case \in Cases :
          /\ local = case.local /\ options = case.options
          /\ groups = case.groups /\ points = case.points
          /\ tree = case.tree /\ folders = case.folders
          /\ request = case.request
          /\ live = case.live /\ query = case.query
    /\ session = TRUE
    /\ edits = 0 /\ disturbed = FALSE
    /\ Init
    /\ O!Init
    /\ Q!Init
    /\ ever = (IF asked = "ask" THEN Q!Facts ELSE {})
    /\ always = ever

Disturb == disturbed' = (disturbed \/ (phase # "start" /\ groups' # groups))

PushStep ==
    /\ Next
    /\ UNCHANGED <<inputVars, opVars, live, queryVars, edits, disturbed>>

OpStep ==
    /\ O!Next
    /\ Disturb
    /\ UNCHANGED <<inputVars, points, tree, folders, session, pushVars, live, queryVars,
                   edits>>

QueryStep ==
    /\ Q!Next
    /\ UNCHANGED <<inputVars, grafanaVars, pushVars, opVars, live, edits, disturbed>>

\* Others edit a rule or delete it.
Edit ==
    /\ edits < MaxEdits
    /\ edits' = edits + 1
    /\ \E g \in DOMAIN groups :
          \/ \E i \in DOMAIN groups[g].rules :
                groups' = [groups EXCEPT ![g].rules[i].val = 9]
          \/ \E r \in RuleSet(groups[g].rules) : groups' = DeleteRule(groups, r.uid)
    /\ Disturb
    /\ UNCHANGED <<inputVars, points, tree, folders, session, pushVars, opVars, live,
                   queryVars>>

\* Grafana evaluates a rule, which only a query tells.
Evaluate ==
    /\ edits < MaxEdits /\ asked # "done"
    /\ edits' = edits + 1
    /\ \E d \in Q!Definitions : \E state \in {"inactive", "firing"} :
          live' = [u \in DOMAIN live \cup {d.uid} |-> IF u = d.uid THEN state ELSE live[u]]
    /\ UNCHANGED <<inputVars, grafanaVars, pushVars, opVars, queryVars, disturbed>>

SessionDies ==
    /\ "session" \in Faults /\ session
    /\ session' = FALSE
    /\ UNCHANGED <<inputVars, groups, points, tree, folders, pushVars, opVars, live,
                   queryVars, edits, disturbed>>

\* What is true from the first request of the query to its last.
Observe ==
    LET uidsOf(facts) == {fact.uid : fact \in facts}
        gone == {Q!Gone(u) : u \in uidsOf(ever) \ uidsOf(Q!Facts')}
    IN  /\ ever' = CASE asked = "ask" -> Q!Facts'
                     [] asked = "states" -> ever \cup Q!Facts' \cup gone
                     [] OTHER -> ever
        /\ always' = CASE asked = "ask" -> Q!Facts'
                       [] asked = "states" -> always \cap Q!Facts'
                       [] OTHER -> always

AlertNext == (PushStep \/ OpStep \/ QueryStep \/ Edit \/ Evaluate \/ SessionDies) /\ Observe

Spec == AlertInit /\ [][AlertNext]_vars

-----------------------------------------------------------------------------
(* Exit statuses                                                           *)

\* The plan's order, in which sortResult leaves the changes.
Rank(c) ==
    CASE c.kind = "ContactPoint" ->
            CHOOSE i \in DOMAIN local.points : PointID(local.points[i]) = c.id
      [] c.kind = "PolicyTree" -> Len(local.points) + 1
      [] OTHER -> Len(local.points) + 1
                  + CHOOSE i \in DOMAIN local.groups : local.groups[i].id = c.id

\* What is in the chain of an error that ends a command.
Chains(err) ==
    CASE err = "401" -> {<<"APIError 401">>}
      [] err = "error" -> {<<"url.Error">>, <<"APIError 403">>, <<"APIError">>,
                           <<"ErrRuleNotFound">>, <<>>}
      [] OTHER -> {<<"APIError">>, <<>>}

ErrorExits(err) ==
    IF err = "nil" THEN {"0"} ELSE {E!ExitStatus(error) : error \in Chains(err)}

FirstFailed ==
    CHOOSE f \in failed : \A h \in failed : Rank(f.change) <= Rank(h.change)

\* runPush and reportPush, when failures are to fail the command (--on-error
\* fail, abort) and when they are to be ignored.
PushExits(failOnErrors) ==
    IF returned # "nil" THEN ErrorExits(returned)
    ELSE IF failOnErrors /\ ~options.dryRun /\ failed # {} THEN ErrorExits(FirstFailed.err)
    ELSE {"0"}

\* runRuleOp and reportRuleOp, which wraps the error of the first failed rule.
RuleOpExits ==
    LET failures == Those(request.uids, {i \in DOMAIN request.uids :
                                            outcome[request.uids[i]] \in {"error", "401"}})
    IN  IF stopped # "nil" THEN ErrorExits(stopped)
        ELSE IF failures # <<>> THEN ErrorExits(outcome[Head(failures)])
        ELSE {"0"}

-----------------------------------------------------------------------------
(* Properties                                                              *)

ByPush == pushVars' # pushVars
ByPause == step = "put" /\ step' # step
FailedChanges == {f.change : f \in failed}
FailedOf(kind) == {f \in failed : f.change.kind = kind}

\* What the uids of a local rule are once Grafana has it.
Sent(rules_) == [i \in DOMAIN rules_ |-> Content(Stored(rules_[i], "omit"))]

\* Every variable has its type.
TypeOK ==
    /\ phase \in {"start", "lookup", "fetch", "fetchTree", "plan", "points", "tree",
                  "folders", "blocked", "groups", "done"}
    /\ refs \subseteq DOMAIN groups /\ DOMAIN remote.groups \subseteq DOMAIN groups
    /\ \A c \in plan \cup applied \cup FailedChanges :
          /\ c.kind \in {"ContactPoint", "PolicyTree", "RuleGroup"}
          /\ c.action \in {"Create", "Update", "Unchanged"}
    /\ \A f \in failed : f.err \in {"401", "error", "rejected", "refused", "folder"}
    /\ returned \in {"nil", "error", "401"}
    /\ step \in {"resolve", "apply", "put", "done"}
    /\ outcome \in [Elements(request.uids) -> {"none", "changed", "unchanged", "error", "401"}]
    /\ stopped \in {"nil", "401"} /\ (stopped # "nil" => step = "done")
    /\ session \in BOOLEAN /\ disturbed \in BOOLEAN /\ edits \in 0..MaxEdits
    /\ asked \in {"ask", "states", "done"} /\ answer.err \in {"nil", "error", "401"}
    /\ \A row \in answer.rows : row.state \in Q!KnownStates

\* What a PUT did to a rule group, as the lines of a plan.
Effect(before, after) ==
    {<<"+", r.title>> : r \in {r \in RuleSet(after.rules) : r.uid \notin Uids(before.rules)}}
    \cup {<<"-", r.title>> : r \in {r \in RuleSet(before.rules) : r.uid \notin Uids(after.rules)}}
    \cup {<<"~", r.title>> :
            r \in {r \in RuleSet(after.rules) :
                     \E q \in RuleSet(before.rules) : q.uid = r.uid /\ Content(q) # Content(r)}}
    \cup (IF before.interval = after.interval THEN {} ELSE {<<"~", "interval">>})
    \cup (IF \E i, j \in DOMAIN before.rules, k, l \in DOMAIN after.rules :
                /\ i < j /\ k < l
                /\ before.rules[i].uid = after.rules[l].uid
                /\ before.rules[j].uid = after.rules[k].uid
          THEN {<<"~", "rule order">>} ELSE {})

\* The plan, and so a dry run, says of each rule group exactly what its PUT is
\* going to do: nothing for an unchanged one, every rule that it deletes, and
\* no line more, whoever wrote the two groups.
PlanForetellsWrites ==
    phase \in {"points", "tree", "folders", "blocked"} /\ ~disturbed =>
        \A c \in {c \in plan : c.kind = "RuleGroup" /\ c.action # "Create"} :
            LET g == Group(c.id)
                lines == GroupDetail(g, groups[c.id])
                put == PutGroup(groups, c.id, g, GroupHeader(g))[c.id]
            IN  /\ Effect(groups[c.id], put) =
                      {<<line[1], line[2]>> : line \in {l \in lines : l[1] # "!"}}
                /\ (c.action = "Unchanged") <=> [put EXCEPT !.rules = Sent(@)] =
                      [groups[c.id] EXCEPT !.rules = Sent(@)]

\* The same group but for the named rules.
SameBut(before, after, uids) ==
    /\ Len(before.rules) = Len(after.rules) /\ before.interval = after.interval
    /\ \A i \in DOMAIN before.rules :
          \/ before.rules[i] = after.rules[i]
          \/ before.rules[i].uid \in uids /\ after.rules[i].uid = before.rules[i].uid

\* A push of named rules and a pause write whole rule groups, and still change
\* only the named rules: no edit, removal or reordering of another rule in the
\* files reaches Grafana, nor does one in Grafana since the bundle was pulled
\* get lost, except in the window between the fetch and the PUT.
SiblingsUntouched ==
    [][/\ ByPush /\ Scoped /\ ~disturbed =>
             \A g \in DOMAIN groups : SameBut(groups[g], groups'[g], options.ruleUIDs)
       /\ ByPause /\ groups[O!Ref] = body =>
             /\ \A g \in DOMAIN groups : SameBut(groups[g], groups'[g], Elements(request.uids))
             /\ \A i \in DOMAIN body.rules :
                   groups'[O!Ref].rules[i] \in
                       {body.rules[i], [body.rules[i] EXCEPT !.paused = O!Paused]}]_vars

\* A push that is not cut short reports each change of its plan exactly once,
\* blocked folders for the groups in them and only those. A dead session is what
\* it returns, also where writes run concurrently and errors are to be ignored.
ResultAccounts ==
    /\ applied \cap FailedChanges = {}
    /\ \A f, h \in failed : f.change = h.change => f = h
    /\ \A f \in FailedOf("RuleGroup") : (f.err = "folder") <=> FolderOf(f.change) \in blocked
    /\ phase = "done" =>
          /\ applied \cup FailedChanges \subseteq plan
          /\ returned = "nil" => applied \cup FailedChanges = plan
          /\ (\E f \in failed : f.err = "401") => returned = "401"

\* While nobody else writes, Grafana rejects nothing that the push sends: the
\* provenance headers fit, and a contact point is there before the policy tree
\* that routes to it, unless that contact point failed. (If a rule that the bundle
\* takes from another group is editable in the UI, and its tree routes to contact
\* points that it has: BundlesTakeable.)
NothingIsRejected ==
    (\E f \in failed : f.err = "rejected") /\ ~disturbed =>
        FailedOf("ContactPoint") # {}

\* What is reported as applied is what Grafana has, and a push that applied all
\* of its plan has nothing left to do: pushing again plans no write. (A rule
\* without a uid is planned again, since the file does not learn its uid.)
PushConverges ==
    /\ NothingIsRejected
    /\ phase = "done" /\ ~disturbed /\ ~options.dryRun =>
          /\ \A c \in applied :
                /\ c.kind = "RuleGroup" =>
                      /\ groups[c.id].interval = Group(c.id).interval
                      /\ Sent(groups[c.id].rules) = Sent(Group(c.id).rules)
                /\ c.kind = "PolicyTree" => tree.val = local.tree.val
                /\ c.kind = "ContactPoint" =>
                      \E p \in Elements(local.points), q \in points :
                          PointID(p) = c.id /\ q.name = p.name /\ q.val = p.val
          /\ plan # {} /\ applied = plan
             /\ (\A g \in Elements(local.groups) : \A r \in RuleSet(g.rules) : r.uid # NoUid)
             => \A c \in Plan(Pushed, [groups |-> groups, points |-> points, tree |-> tree]) :
                   c.action = "Unchanged"

\* With --on-error abort the first failure ends the push: everything before it
\* in the order of the bundle was applied, and nothing after it was written.
\* A group in a blocked folder fails before any group is written.
AbortIsPrefix ==
    StopOnError =>
        \A f \in failed :
            /\ phase = "done" /\ returned # "nil" /\ failed = {f}
            /\ \A c \in plan :
                  /\ Rank(c) > Rank(f.change) => c \notin applied \/ c.action = "Unchanged"
                  /\ Rank(c) < Rank(f.change)
                     /\ (f.err = "folder" => c.kind # "RuleGroup")
                     => c \in applied

\* The marker for a secret never becomes the secret.
NoRedactedSecretStored == \A p \in points : p.secret # Redacted

\* A script tells from the exit status what has to be done: 2, log in again, if
\* and only if a request met the dead session, whichever of several writes that
\* was and whatever --on-error says, and 0 only if all of what was asked for is
\* done, or errors are to be ignored.
ExitSaysWhatToDo ==
    /\ phase = "done" =>
          \A failOnErrors \in BOOLEAN : \A exit \in PushExits(failOnErrors) :
              /\ exit = "2" <=> returned = "401" \/ \E f \in failed : f.err = "401"
              /\ exit = "0" /\ failOnErrors /\ ~options.dryRun => applied = plan
    /\ step = "done" =>
          \A exit \in RuleOpExits :
              /\ exit = "2" <=> \E u \in DOMAIN outcome : outcome[u] = "401"
              /\ exit = "0" =>
                    \A u \in DOMAIN outcome : outcome[u] \in {"changed", "unchanged"}

\* Whatever else happens to the group: a rule that is reported as changed is
\* then gone, or in the state that was asked for, and one that is reported as
\* unchanged was in it.
OutcomeIsTrue ==
    [][~request.dryRun =>
          \A u \in DOMAIN outcome :
              outcome'[u] # outcome[u] /\ outcome'[u] \in {"changed", "unchanged"} =>
                  LET now == {r \in UNION {RuleSet(groups'[g].rules) : g \in DOMAIN groups} :
                                 r.uid = u}
                  IN  IF request.op = "delete" THEN now = {}
                      ELSE now # {} /\ \A r \in now : r.paused = O!Paused]_vars

Satisfied(fact) ==
    /\ \/ query.folder \in {"", fact.folder}
       \/ fact.named /\ Q!InFolder(query.folder, fact.folder, FolderNames[fact.folder])
    /\ Q!StateFilter \in {"", fact.state}

\* A query that succeeds has told the truth, although its two requests are
\* answered at different moments and the second may fail: every rule that is
\* there all along and satisfies the filters is listed, in the state it is in
\* or as unavailable; and a rule is listed in a folder, with the names of a
\* folder, and in a state that it was in at some moment. An empty list is no
\* outage. (Only a folder of whose rules none was evaluated is found by its uid
\* alone. A rule that is moved meanwhile may have the names of the other folder,
\* and one that ceases to be an alert is "unknown".)
AnswersAreHonest ==
    asked = "done" /\ query.cmd # "none" /\ answer.err = "nil" =>
        /\ \A fact \in always :
              query.cmd = "list" /\ Satisfied(fact) =>
                    \E row \in answer.rows :
                        row.uid = fact.uid /\ row.state \in {fact.state, "unavailable"}
        /\ \A row \in answer.rows :
              LET facts == {fact \in ever : fact.uid = row.uid}
                  places == {fact.folder : fact \in {fact \in facts : fact.state # "gone"}}
              IN  /\ \E fact \in facts :
                        \/ row.state \in {fact.state, "unavailable"}
                        \/ row.state = "unknown" /\ fact.state \in {"gone", "recording"}
                  /\ row.folder \in places
                  /\ \E place \in places :
                        /\ row.names \in {Q!NoNames, FolderNames[place]}
                        /\ Q!InFolder(query.folder, row.folder, FolderNames[place])

-----------------------------------------------------------------------------
(* What the properties rest on                                             *)

GrafanaRule == [uid : Texts \ {NoUid}, title : Texts \ {NoUid}, val : Nat,
                paused : BOOLEAN, prov : Texts]
GrafanaGroup == [interval : Nat, rules : Seq(GrafanaRule)]
BundleRule == [uid : Texts, title : Texts \ {NoUid}, val : Nat, paused : BOOLEAN,
               prov : Texts]
GrafanaPoint == [uid : Texts, name : Texts, val : Nat, secret : Texts \ {Redacted},
                 prov : Texts]
BundlePoint == [uid : Texts, name : Texts, val : Nat, secret : Texts]
PolicyTree == [val : Nat, routes : SUBSET Texts]
GrafanaTree == [val : Nat, routes : SUBSET Texts, prov : Texts]
PushOptions == [stopOnError : BOOLEAN, dryRun : BOOLEAN, uiEditable : BOOLEAN,
                ruleUIDs : SUBSET (Texts \ {NoUid}), orgID : Nat]
RuleRequest == [op : {"delete", "pause", "resume", "none"}, uids : Seq(Texts \ {NoUid}),
                dryRun : BOOLEAN]
RuleQuery == [cmd : {"list", "get", "none"}, uid : Texts, folder : Texts, state : Texts]

\* Grafana's rules are apart: a uid is that of one rule. The uids that it will give
\* to the rules of the bundle that have none are nobody else's.
MayHold(bundle, g, uid) ==
    \A h \in Elements(bundle.groups) : \A r \in RuleSet(h.rules) :
        r.uid = NoUid /\ r.title = uid => h.id = g

\* A uid that Grafana has given before is not one that it will give.
IsOld(bundle, uid) ==
    \A h \in Elements(bundle.groups) : \A r \in RuleSet(h.rules) : r.uid = NoUid => r.title # uid

HeldIn(bundle, g, group) ==
    /\ group \in GrafanaGroup
    /\ \A i, j \in DOMAIN group.rules : group.rules[i].uid = group.rules[j].uid => i = j
    /\ \A i \in DOMAIN group.rules : MayHold(bundle, g, group.rules[i].uid)
    /\ group.rules = <<>> => group = NoGroup

RulesApart(groups_) ==
    \A g, h \in DOMAIN groups_ : \A r \in RuleSet(groups_[g].rules), q \in RuleSet(groups_[h].rules) :
        r.uid = q.uid => g = h

IsGrafana(groups_, bundle) ==
    RulesApart(groups_) /\ \A g \in DOMAIN groups_ : HeldIn(bundle, g, groups_[g])

\* ReadBundle refuses a bundle that has a group, a rule or a contact point twice.
IsBundle(bundle, ids) ==
    /\ bundle \in [groups : Seq([id : ids, interval : Nat, hasOrg : BOOLEAN, rules : Seq(BundleRule)]),
                   points : Seq(BundlePoint), tree : PolicyTree]
    /\ \A i, j \in DOMAIN bundle.points :
          PointID(bundle.points[i]) = PointID(bundle.points[j]) => i = j
    /\ \A i, j \in DOMAIN bundle.groups :
          /\ bundle.groups[i].id = bundle.groups[j].id => i = j
          /\ \A k \in DOMAIN bundle.groups[i].rules, l \in DOMAIN bundle.groups[j].rules :
                Stored(bundle.groups[i].rules[k], "omit").uid
                    = Stored(bundle.groups[j].rules[l], "omit").uid
                => i = j /\ k = l

IsCase(case) ==
    /\ IsBundle(case.local, DOMAIN case.groups) /\ IsGrafana(case.groups, case.local)
    /\ \A g \in DOMAIN case.groups : \A i \in DOMAIN case.groups[g].rules :
          IsOld(case.local, case.groups[g].rules[i].uid)
    /\ case.options \in PushOptions /\ case.request \in RuleRequest /\ case.query \in RuleQuery
    /\ case.points \subseteq GrafanaPoint /\ case.tree \in GrafanaTree
    /\ case.request.op = "none" => case.request.uids = <<>>
    /\ case.query.cmd = "get" => case.query.folder = "" /\ case.query.state = ""
    /\ \A u \in DOMAIN case.live : case.live[u] \in {"firing", "inactive"}

ASSUME CasesAssumption == \A case \in Cases : IsCase(case)

\* A group without rules may be in a bundle: its PUT deletes the group, of which a plan
\* may say that the interval changes.
BundlesAreFull == \A case \in Cases : \A g \in Elements(case.local.groups) : g.rules # <<>>

\* A bundle of which Grafana takes everything: a rule that it moves is editable in the
\* UI, its tree routes to its own contact points, and one of these without a uid is
\* told by its name, and will get a new uid.
MovesFreely(bundle, g, rules_) ==
    \A h \in Elements(bundle.groups) : \A r \in RuleSet(rules_) :
        h.id # g /\ r.uid \in Uids(h.rules) => r.prov = ""

NamesApart(bundle, held) ==
    \A i \in DOMAIN bundle.points :
        bundle.points[i].uid = NoUid =>
            /\ \A p \in held : p.uid # bundle.points[i].name
            /\ \A j \in DOMAIN bundle.points :
                  bundle.points[j].name = bundle.points[i].name => i = j

IsTakeable(case) ==
    /\ \A g \in DOMAIN case.groups : MovesFreely(case.local, g, case.groups[g].rules)
    /\ case.local.tree.routes \subseteq {p.name : p \in Elements(case.local.points)}
    /\ IsFiniteSet(case.points)
    /\ \A p, q \in case.points : p.uid = q.uid => p = q
    /\ NamesApart(case.local, case.points)

BundlesTakeable == \A case \in Cases : IsTakeable(case)

\* What the commands were given, and what Grafana holds, stays of its kind.
GrafanaInv ==
    /\ IsBundle(local, DOMAIN groups) /\ IsGrafana(groups, local)
    /\ options \in PushOptions /\ request \in RuleRequest /\ query \in RuleQuery
    /\ request.op = "none" => request.uids = <<>>
    /\ query.cmd = "get" => query.folder = "" /\ query.state = ""
    /\ points \subseteq GrafanaPoint /\ tree \in GrafanaTree
    /\ \A u \in DOMAIN live : live[u] \in {"firing", "inactive"}

\* What was fetched is what Grafana held, and of a group of a scoped push which is
\* still to be written, what it holds.
Early == phase \in {"start", "lookup", "fetch", "fetchTree", "plan"}
Writing == phase \in {"points", "tree", "folders", "blocked", "groups"}

FetchedInv ==
    /\ remote = [groups |-> remote.groups, points |-> remote.points, tree |-> remote.tree]
    /\ \A g \in DOMAIN remote.groups : HeldIn(local, g, remote.groups[g])
    /\ Scoped /\ phase \notin {"start", "done"} =>
          \A uid \in options.ruleUIDs : Holders(local, uid) # {}
    /\ phase = "start" => DOMAIN remote.groups = {}
    /\ phase = "fetch" => todo \subseteq refs /\ refs \ todo \subseteq DOMAIN remote.groups
    /\ phase \in {"fetchTree", "plan"} \/ plan # {} => refs \subseteq DOMAIN remote.groups
    /\ ~Scoped /\ phase # "start" => \A g \in Elements(local.groups) : g.id \in refs
    /\ Scoped /\ ~disturbed =>
          \A g \in DOMAIN remote.groups :
              Early \/ (Writing /\ \E c \in TodoOf("RuleGroup") : c.id = g) =>
                  groups[g] = remote.groups[g]

\* Each change of the plan is still to be written, or applied, or failed, in the order
\* of the phases.
PlanInv ==
    /\ plan # {} => plan \subseteq Plan(Pushed, remote)
    /\ Early => plan = {} /\ applied = {} /\ failed = {} /\ blocked = {}
    /\ Writing =>
          /\ todo \cup applied \cup FailedChanges = plan
          /\ todo \cap (applied \cup FailedChanges) = {}
          /\ phase # "points" => TodoOf("ContactPoint") = {}
          /\ phase \notin {"points", "tree"} => TodoOf("PolicyTree") = {}
          /\ phase \in {"points", "tree", "folders"} => blocked = {}
          /\ phase \in {"points", "tree", "folders", "blocked"} =>
                /\ \A f \in FailedOf("RuleGroup") : f.err = "folder" /\ phase = "blocked"
                /\ returned = "nil"
          /\ \A f \in failed : f.err = "401" => returned = "401"
          /\ phase = "groups" => \A c \in TodoOf("RuleGroup") : ~InBlocked(c)
    /\ Early => returned = "nil"

\* With StopOnError, what was written comes before what is still to be.
OrderInv ==
    StopOnError /\ Writing =>
        /\ failed = {}
        /\ \A c \in todo, d \in applied : d.action # "Unchanged" => Rank(d) < Rank(c)

\* A pause keeps the group as it was fetched until it is sent.
OpInv ==
    /\ request.op = "none" => step = "done"
    /\ queue \in Seq(Elements(request.uids))
    /\ rules \in Seq([uid : Elements(request.uids), ref : DOMAIN groups, prov : Texts])
    /\ step = "put" =>
          /\ request.op \in {"pause", "resume"} /\ ~request.dryRun /\ rules # <<>>
          /\ HeldIn(local, O!Ref, body)
          /\ O!Targets(body) # <<>>
          /\ GroupProvenanceHeader(body.rules) # "refused"

\* A rule without an outcome is still to be looked up or to be handled, as long as the
\* session lives, and one of the group that is sent is to be flipped in it.
OutcomeInv ==
    /\ stopped = "401" <=> \E u \in DOMAIN outcome : outcome[u] = "401"
    /\ step # "resolve" /\ stopped = "nil" => queue = <<>>
    /\ step = "done" /\ stopped = "nil" => rules = <<>>
    /\ stopped = "nil" =>
          \A u \in DOMAIN outcome :
              outcome[u] = "none" =>
                  \/ u \in Elements(queue)
                  \/ \E i \in DOMAIN rules :
                        /\ rules[i].uid = u
                        /\ step = "put" /\ rules[i].ref = O!Ref => u \in Elements(O!Targets(body))

\* What a query knows of its first request, until the second.
AskedInv ==
    asked = "states" =>
        /\ Q!Facts \subseteq ever /\ always \subseteq Q!Facts
        /\ \A fact \in ever :
              Q!Gone(fact.uid) \in ever \/ \E now \in Q!Facts : now.uid = fact.uid
        /\ \A d \in definitions : \E fact \in ever :
              /\ fact.uid = d.uid /\ fact.folder = d.folder /\ fact.state # "gone"
              /\ fact.state = "recording" <=> d.recording
        /\ query.cmd = "list" =>
              \A fact \in always : \E d \in definitions :
                  /\ d.uid = fact.uid /\ d.folder = fact.folder
                  /\ fact.state = "recording" <=> d.recording

Inv == TypeOK /\ ResultAccounts /\ NoRedactedSecretStored /\ ExitSaysWhatToDo
       /\ GrafanaInv /\ FetchedInv /\ PlanInv /\ OrderInv /\ OpInv /\ OutcomeInv /\ AskedInv

=============================================================================
