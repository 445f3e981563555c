------------------------------- MODULE RuleOps -------------------------------
(***************************************************************************)
(* `alerts rules delete`, `pause` and `resume` (internal/alerts/           *)
(* ruleops.go): the named rules are all looked up first, and then deleted  *)
(* one by one, or paused a rule group at a time, with one PUT of the whole *)
(* group. One action is one request and its answer.                        *)
(***************************************************************************)
EXTENDS AlertPlan

CONSTANT Faults   \* "request": a request may fail, with or without effect

VARIABLES
    groups,     \* Grafana's rule groups by their id
    folders,    \* the uids of Grafana's folders
    session,    \* Grafana accepts the session cookie
    request,    \* [op: "delete", "pause", "resume" or "none", uids, dryRun]
    step,       \* "resolve", "apply", "put" or "done"
    queue,      \* the uids that have still to be looked up, in their order
    rules,      \* the rules that have still to be handled: [uid, ref, prov]
    body,       \* the group whose rules are flipped, as it was fetched
    outcome,    \* of each uid: "none", "changed", "unchanged" or its error
    stopped     \* the error that is returned: "nil" or "401"

opVars == <<request, step, queue, rules, body, outcome, stopped>>

Paused == request.op = "pause"

Init ==
    /\ step = IF request.op = "none" THEN "done" ELSE "resolve"
    /\ queue = request.uids   \* dedupeUIDs: no uid twice
    /\ rules = <<>> /\ body = NoGroup
    /\ outcome = [uid \in Elements(request.uids) |-> "none"]
    /\ stopped = "nil"

Errors ==
    (IF session THEN {} ELSE {"401"})
    \cup (IF session /\ "request" \in Faults THEN {"error"} ELSE {})

\* record: the outcome of several rules, which a dead session cuts short after
\* the first of them.
RecordAll(seq, what) == [u \in DOMAIN outcome |-> IF u \in Elements(seq) THEN what ELSE outcome[u]]

RecordError(seq, err) ==
    /\ outcome' = RecordAll(IF err = "401" THEN <<Head(seq)>> ELSE seq, err)
    /\ stopped' = IF err = "401" THEN err ELSE stopped

NextStep(err, to) == step' = IF err = "401" THEN "done" ELSE to

HolderOf(uid) == {g \in DOMAIN groups : uid \in Uids(groups[g].rules)}

\* resolve, for the next uid.
Resolve ==
    /\ step = "resolve" /\ queue # <<>>
    /\ LET uid == Head(queue)
       IN  \/ /\ session
              /\ IF HolderOf(uid) = {}
                 THEN RecordError(<<uid>>, "error") /\ UNCHANGED rules
                 ELSE /\ \E g \in HolderOf(uid) :
                            rules' = Append(rules,
                               [uid |-> uid, ref |-> g,
                                prov |-> RuleWith(groups[g].rules, uid).prov])
                      /\ UNCHANGED <<outcome, stopped>>
              /\ UNCHANGED step
           \/ \E err \in Errors :
                 RecordError(<<uid>>, err) /\ NextStep(err, "resolve") /\ UNCHANGED rules
    /\ queue' = Tail(queue)
    /\ UNCHANGED <<groups, request, body>>

Resolved ==
    /\ step = "resolve" /\ queue = <<>>
    /\ step' = "apply"
    /\ UNCHANGED <<groups, request, queue, rules, body, outcome, stopped>>

\* The outcomes of one write for the rules seq; see AlertPush.
Write(seq, header, allowed, after) ==
    \/ /\ \/ header = "refused"
          \/ header # "refused" /\ ~request.dryRun /\ session
             /\ (~allowed \/ "request" \in Faults)
       /\ RecordError(seq, "error") /\ step' = "apply" /\ UNCHANGED groups
    \/ /\ header # "refused" /\ request.dryRun
       /\ outcome' = RecordAll(seq, "changed") /\ step' = "apply"
       /\ UNCHANGED <<groups, stopped>>
    \/ /\ header # "refused" /\ ~request.dryRun /\ session /\ allowed
       /\ groups' = after /\ step' = "apply"
       /\ \/ outcome' = RecordAll(seq, "changed") /\ UNCHANGED stopped
          \/ "request" \in Faults /\ RecordError(seq, "error")
    \/ /\ header # "refused" /\ ~request.dryRun /\ ~session
       /\ RecordError(seq, "401") /\ step' = "done" /\ UNCHANGED groups

\* deleteRule.
DeleteNamedRule ==
    /\ step = "apply" /\ request.op = "delete" /\ rules # <<>>
    /\ LET rule == Head(rules)
           header == ProvenanceHeader(rule.prov)
       IN  Write(<<rule.uid>>, header, MayDelete(groups, rule.uid, header),
                 DeleteRule(groups, rule.uid))
    /\ rules' = Tail(rules)
    /\ UNCHANGED <<request, queue, body>>

-----------------------------------------------------------------------------
(* Pausing                                                                 *)

\* groupBatches: the rules of the first group that has still to be handled.
Ref == Head(rules).ref
UidsOf(seq) == [i \in DOMAIN seq |-> seq[i].uid]
Batch == UidsOf(Those(rules, {i \in DOMAIN rules : rules[i].ref = Ref}))
RestOfRules == Those(rules, {i \in DOMAIN rules : rules[i].ref # Ref})

Holds(group, uid) == uid \in Uids(group.rules)

\* pauseTargets: the rules of the batch that the group holds in the other state.
Targets(group) ==
    Those(Batch, {i \in DOMAIN Batch :
                     /\ Holds(group, Batch[i])
                     /\ RuleWith(group.rules, Batch[i]).paused # Paused})

OutcomesUnlessPaused(group) ==
    [u \in DOMAIN outcome |->
        IF u \in Elements(Batch) /\ u \notin Elements(Targets(group))
        THEN "unchanged" ELSE outcome[u]]

Outcomes(group) ==
    [u \in DOMAIN outcome |->
        IF u \notin Elements(Batch) THEN outcome[u]
        ELSE IF ~Holds(group, u) THEN "error"
        ELSE IF RuleWith(group.rules, u).paused = Paused THEN "unchanged"
        ELSE outcome[u]]

\* pauseGroup up to the PUT. A group that does not exist fails its rules, and
\* so does one whose provenance refuses the write.
FetchBatch ==
    /\ step = "apply" /\ request.op # "delete" /\ rules # <<>>
    /\ \/ /\ session
          /\ LET group == groups[Ref]
                 seq == Targets(group)
             IN  /\ outcome' =
                       [u \in DOMAIN outcome |->
                           IF u \in Elements(seq)
                           THEN IF GroupProvenanceHeader(group.rules) = "refused" THEN "error"
                                ELSE IF request.dryRun THEN "changed"
                                ELSE outcome[u]
                           ELSE Outcomes(group)[u]]
                 /\ IF \/ seq = <<>> \/ request.dryRun
                       \/ GroupProvenanceHeader(group.rules) = "refused"
                    THEN rules' = RestOfRules /\ UNCHANGED <<step, body>>
                    ELSE step' = "put" /\ body' = group /\ UNCHANGED rules
          /\ UNCHANGED stopped
       \/ \E err \in Errors :
             /\ RecordError(Batch, err) /\ NextStep(err, "apply")
             /\ rules' = RestOfRules /\ UNCHANGED body
    /\ UNCHANGED <<groups, request, queue>>

AllFlipped(group) ==
    [group EXCEPT !.rules = [i \in DOMAIN @ |-> [@[i] EXCEPT !.paused = Paused]]]

Flipped(group) ==
    [group EXCEPT !.rules =
        [i \in DOMAIN @ |->
            IF @[i].uid \in Elements(Targets(group))
            THEN [@[i] EXCEPT !.paused = Paused] ELSE @[i]]]

\* putPausedGroup.
PutBatch ==
    /\ step = "put"
    /\ LET header == GroupProvenanceHeader(body.rules)
           flipped == Flipped(body)
       IN  Write(Targets(body), header,
                 MayPutGroup(groups, folders, Ref, flipped, header),
                 PutGroup(groups, Ref, flipped, header))
    /\ rules' = RestOfRules
    /\ body' = NoGroup
    /\ UNCHANGED <<request, queue>>

Finish ==
    /\ step = "apply" /\ rules = <<>>
    /\ step' = "done"
    /\ UNCHANGED <<groups, request, queue, rules, body, outcome, stopped>>

Next ==
    \/ Resolve \/ Resolved \/ DeleteNamedRule \/ FetchBatch \/ PutBatch \/ Finish

=============================================================================
