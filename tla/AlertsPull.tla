------------------------------ MODULE AlertsPull ------------------------------
(***************************************************************************)
(* `alerts pull`, run again and again on one directory: the whole          *)
(* instance, some folders, or the groups of named rules. Others change     *)
(* Grafana while a pull runs; the user edits and renames files between     *)
(* pulls; a pull may be cut short at any of its writes.                    *)
(***************************************************************************)
EXTENDS BundleFiles

CONSTANTS
    Folders, Titles,
    OwnNames,    \* names a user may give to a file
    Requests,    \* [folders, uids, overwrite, ext]: the flags of a pull
    InitGroups,  \* Grafana's rule groups at the start
    MaxPulls, MaxEdits

VARIABLES
    groups,      \* Grafana's rule groups: those that exist, to sets of [uid, val]
    org,         \* Grafana's contact points and policy tree, [points, policies]
    dir,         \* the bundle directory
    request, phase,
    todo,        \* the uids to look up, the groups to fetch, or the docs to write
    holders,     \* the groups that hold the named rules, or the listed ones
    fetched,     \* the docs of the groups that were fetched
    tops,        \* the contact points and the policy tree that were fetched
    stage, open, \* how far the rewriting of a file is, and the doc of that file
    result,
    before,      \* history: dir when the pull began
    snap,        \*          groups and org when it began
    disturbed,   \*          whether either changed since
    moved,       \*          whether a rule ever changed its group
    pulls, edits \* how many there were, for the bounds

pullVars == <<request, phase, todo, holders, fetched, tops, stage, open, result>>
historyVars == <<before, snap, disturbed, moved>>
vars == <<groups, org, dir, pullVars, historyVars, pulls, edits>>

GroupIds == Folders \X Titles
Rule == [uid : STRING, val : Nat]
GroupDoc == [group : GroupIds, rules : (SUBSET Rule) \ {{}}]

\* What Grafana holds: no group is empty, and a uid is that of one rule.
IsGroups(held) ==
    /\ DOMAIN held \subseteq GroupIds
    /\ held \in [DOMAIN held -> (SUBSET Rule) \ {{}}]
    /\ \A g, h \in DOMAIN held : \A r \in held[g], q \in held[h] :
          r.uid = q.uid => g = h /\ r = q

ASSUME GroupsAssumption == IsGroups(InitGroups)
ASSUME PullAssumption ==
    /\ MaxPulls \in Nat /\ MaxEdits \in Nat
    /\ Titles \cup OwnNames \subseteq DOMAIN Fold
    /\ \A r \in Requests :
          /\ r.ext \in Exts /\ r.folders \subseteq Folders
          /\ r.uids # {} => r.folders = {}
          /\ r.overwrite => r.uids # {}

ByRule == request.uids # {}
InFolders(group) == request.folders = {} \/ group[1] \in request.folders
PrunedFolders == IF request.folders = {} THEN Folders ELSE request.folders

Init ==
    /\ groups = InitGroups /\ org = [points |-> 1, policies |-> 1]
    /\ dir = EmptyDir
    /\ request \in Requests
    /\ phase = "idle" /\ result = "none"
    /\ todo = {} /\ holders = {} /\ fetched = {} /\ tops = org
    /\ stage = "ready" /\ open = {}
    /\ before = dir /\ snap = [groups |-> groups, org |-> org]
    /\ disturbed = FALSE /\ moved = FALSE
    /\ pulls = 0 /\ edits = 0

-----------------------------------------------------------------------------
(* The command                                                             *)

\* What follows a phase once it has nothing left to do.
PruneFirst(p) ==
    CASE p = "check" -> IF ByRule THEN "write" ELSE "prune"
      [] p = "prune" -> "write"
      [] p = "write" -> IF ByRule THEN "idle" ELSE "points"
      [] p = "points" -> "policies"
      [] p = "policies" -> "idle"

After(p) ==
    CASE p = "check" -> "write"
      [] p = "write" -> IF ByRule THEN "idle" ELSE "prune"
      [] p = "prune" -> "points"
      [] p = "points" -> "policies"
      [] p = "policies" -> "idle"

Leave(p) ==
    /\ phase' = After(p)
    /\ result' = IF After(p) = "idle" THEN "ok" ELSE result

End(outcome) ==
    /\ phase' = "idle" /\ result' = outcome
    /\ stage' = "ready" /\ open' = {}
    /\ UNCHANGED <<request, todo, holders, fetched, tops>>

\* Pull: the uids are looked up one by one, otherwise the rules are listed.
Start ==
    /\ phase = "idle" /\ pulls < MaxPulls
    /\ pulls' = pulls + 1
    /\ request' \in Requests
    /\ phase' = IF request'.uids # {} THEN "lookup" ELSE "list"
    /\ todo' = request'.uids
    /\ holders' = {} /\ fetched' = {} /\ result' = "none"
    /\ before' = dir /\ snap' = [groups |-> groups, org |-> org] /\ disturbed' = FALSE
    /\ UNCHANGED <<groups, org, dir, tops, stage, open, moved, edits>>

\* GetAlertRule: an unknown uid ends the pull.
Lookup ==
    /\ phase = "lookup"
    /\ \E u \in todo :
          LET held == {g \in DOMAIN groups : \E r \in groups[g] : r.uid = u}
          IN  \/ /\ held = {}
                 /\ End("refused")
              \/ /\ held # {}
                 /\ holders' = holders \cup held
                 /\ IF todo = {u} THEN phase' = "fetch" /\ todo' = holders'
                                  ELSE phase' = phase /\ todo' = todo \ {u}
                 /\ UNCHANGED <<request, fetched, tops, stage, open, result>>
    /\ UNCHANGED <<groups, org, dir, historyVars, pulls, edits>>

\* GetAlertRules, filtered by folder.
ListRules ==
    /\ phase = "list"
    /\ holders' = {g \in DOMAIN groups : InFolders(g)}
    /\ todo' = holders' /\ phase' = "fetch"
    /\ UNCHANGED <<groups, org, dir, request, fetched, tops, stage, open, result,
                   historyVars, pulls, edits>>

\* One of the concurrent fetches. A group that is gone is just absent.
FetchGroup ==
    /\ phase = "fetch"
    /\ \E g \in todo :
          /\ todo' = todo \ {g}
          /\ fetched' = fetched \cup
                {[group |-> h, rules |-> groups[h]] : h \in {g} \cap DOMAIN groups}
    /\ UNCHANGED <<groups, org, dir, request, phase, holders, tops, stage, open, result,
                   historyVars, pulls, edits>>

\* Each named rule is in a fetched group.
AllHeld == \A u \in request.uids : \E d \in fetched : u \in UidsIn(d)

\* All groups are there: requireRules, or the contact points and the policies.
FetchRest ==
    /\ phase = "fetch" /\ todo = {}
    /\ IF AllHeld
       THEN /\ tops' = IF ByRule THEN tops ELSE org
            /\ phase' = "check"
            /\ UNCHANGED <<request, todo, holders, fetched, stage, open, result>>
       ELSE End("refused")
    /\ UNCHANGED <<groups, org, dir, historyVars, pulls, edits>>

RequestFails ==
    /\ phase \in {"lookup", "list", "fetch"}
    /\ End("failed")
    /\ UNCHANGED <<groups, org, dir, historyVars, pulls, edits>>

\* Everything is checked before the first write.
Check ==
    /\ phase = "check"
    /\ IF \/ Collide(fetched, request.ext)
          \/ /\ ByRule
             /\ \E d \in fetched : Refuses(dir, d, request.ext, request.uids, request.overwrite)
       THEN End("refused")
       ELSE /\ Leave("check")
            /\ todo' = fetched
            /\ UNCHANGED <<request, holders, fetched, tops, stage, open>>
    /\ UNCHANGED <<groups, org, dir, historyVars, pulls, edits>>

\* os.WriteFile truncates the file, then writes it.
WriteGroupFile ==
    /\ phase = "write"
    /\ \/ /\ stage = "ready" /\ stage' = "cut"
          /\ \E d \in todo :
                /\ open' = {d} /\ todo' = todo \ {d}
                /\ dir' = WriteGroup(dir, d.group, request.ext, CutDoc)
       \/ /\ stage = "cut" /\ stage' = "ready"
          /\ open' = {} /\ todo' = todo
          /\ \E d \in open : dir' = WriteGroup(dir, d.group, request.ext, d)
    /\ UNCHANGED <<groups, org, request, phase, holders, fetched, tops, result,
                   historyVars, pulls, edits>>

\* pruneGroupFiles removes one file.
PruneFile ==
    /\ phase = "prune"
    /\ \E s \in Prunable(dir, PrunedFolders, fetched, request.ext) :
          dir' = RemoveFile(dir, s)
    /\ UNCHANGED <<groups, org, pullVars, historyVars, pulls, edits>>

\* writeTopLevelFile for the part of this phase: remove, truncate, write.
RewriteTop ==
    /\ phase \in Parts
    /\ \/ /\ stage = "ready" /\ stage' = "removed"
          /\ dir' = RemoveTop(dir, phase)
       \/ /\ stage = "removed" /\ stage' = "cut"
          /\ dir' = WriteTop(dir, phase, request.ext, CutTop)
       \/ /\ stage = "cut" /\ stage' = "written"
          /\ dir' = WriteTop(dir, phase, request.ext, tops[phase])
    /\ UNCHANGED <<groups, org, request, phase, todo, holders, fetched, tops, open,
                   result, historyVars, pulls, edits>>

PhaseDone ==
    /\ \/ phase = "write" /\ todo = {} /\ stage = "ready"
       \/ phase = "prune" /\ Prunable(dir, PrunedFolders, fetched, request.ext) = {}
       \/ phase \in Parts /\ stage = "written"
    /\ Leave(phase)
    /\ todo' = IF phase' = "write" THEN fetched ELSE {}
    /\ stage' = "ready"
    /\ UNCHANGED <<groups, org, dir, request, holders, fetched, tops, open,
                   historyVars, pulls, edits>>

\* A file operation fails, or the process is killed.
Interrupt ==
    /\ phase \in {"write", "prune"} \cup Parts
    /\ End("interrupted")
    /\ UNCHANGED <<groups, org, dir, historyVars, pulls, edits>>

PullNext ==
    \/ Start \/ Lookup \/ ListRules \/ FetchGroup \/ FetchRest \/ RequestFails
    \/ Check \/ WriteGroupFile \/ PruneFile \/ RewriteTop \/ PhaseDone \/ Interrupt

-----------------------------------------------------------------------------
(* Others                                                                  *)

WithRules(newGroups) == Restrict(newGroups, {g \in DOMAIN newGroups : newGroups[g] # {}})

\* Someone edits a rule in Grafana, deletes it, or moves it to another group.
EditInGrafana ==
    /\ edits < MaxEdits /\ edits' = edits + 1
    /\ \E g \in DOMAIN groups : \E r \in groups[g] :
          \/ /\ r.val = 1
             /\ groups' = [groups EXCEPT ![g] = (@ \ {r}) \cup {[r EXCEPT !.val = 2]}]
             /\ UNCHANGED moved
          \/ /\ groups' = WithRules([groups EXCEPT ![g] = @ \ {r}])
             /\ UNCHANGED moved
          \/ \E h \in GroupIds \ {g} :
                LET left == [groups EXCEPT ![g] = @ \ {r}]
                    joined == IF h \in DOMAIN left THEN left[h] \cup {r} ELSE {r}
                IN  groups' = WithRules(With(left, h, joined)) /\ moved' = TRUE
    /\ disturbed' = TRUE
    /\ UNCHANGED <<org, dir, pullVars, before, snap, pulls>>

\* The contact points or the policy tree change.
EditTopInGrafana ==
    /\ edits < MaxEdits /\ edits' = edits + 1
    /\ \E part \in Parts : org' = [org EXCEPT ![part] = @ + 1]
    /\ disturbed' = TRUE
    /\ UNCHANGED <<groups, dir, pullVars, before, snap, moved, pulls>>

\* The user edits a rule in a file, or gives a file another name, between pulls.
EditFile ==
    /\ phase = "idle" /\ edits < MaxEdits /\ edits' = edits + 1
    /\ \E s \in DOMAIN dir.rules :
          LET file == dir.rules[s]
          IN  \/ \E r \in file.doc.rules :
                    dir' = [dir EXCEPT !.rules[s].doc.rules =
                                (@ \ {r}) \cup {[r EXCEPT !.val = 3]}]
              \/ \E name \in OwnNames :
                    LET t == <<s[1], Fold[name], s[3]>>
                    IN  /\ t \notin DOMAIN dir.rules
                        /\ dir' = [dir EXCEPT !.rules =
                              With(Restrict(@, DOMAIN @ \ {s}), t, [file EXCEPT !.name = name])]
    /\ result' = "none"
    /\ UNCHANGED <<groups, org, request, phase, todo, holders, fetched, tops, stage, open,
                   historyVars, pulls>>

Next == PullNext \/ EditInGrafana \/ EditTopInGrafana \/ EditFile

Spec == Init /\ [][Next]_vars

-----------------------------------------------------------------------------
(* Properties                                                              *)

\* Files of a directory are found under the names they show.
IsDir(d) ==
    /\ d = [rules |-> d.rules, points |-> d.points, policies |-> d.policies]
    /\ IsFiniteSet(DOMAIN d.rules)
    /\ \A s \in DOMAIN d.rules :
          /\ d.rules[s] \in [name : DOMAIN Fold, doc : GroupDoc \cup {CutDoc}]
          /\ s \in Folders \X {Fold[d.rules[s].name]} \X Exts
    /\ \A part \in Parts : DOMAIN d[part] \subseteq Exts

\* Every variable has its type.
TypeOK ==
    /\ IsGroups(groups)
    /\ {org, tops} \subseteq [points : Nat \ {0}, policies : Nat \ {0}]
    /\ IsDir(dir) /\ IsDir(before)
    /\ request \in Requests
    /\ phase \in {"idle", "lookup", "list", "fetch", "check", "write", "prune"} \cup Parts
    /\ holders \subseteq GroupIds
    /\ fetched \subseteq GroupDoc /\ {d.group : d \in fetched} \subseteq holders
    /\ stage \in {"ready", "removed", "cut", "written"}
    /\ result \in {"none", "ok", "refused", "failed", "interrupted"}
    /\ pulls \in 0..MaxPulls /\ edits \in 0..MaxEdits

Snapshot(ids) == {[group |-> g, rules |-> snap.groups[g]] : g \in ids}
In(entries) == [s \in entries |-> dir.rules[s]]
Outside(d) == {s \in DOMAIN d.rules : ~InFolders(s)}

\* A pull that succeeds leaves in its part of the directory what Grafana held,
\* and that can be read back, whatever was there: files of another extension,
\* renamed, half-written, re-titled in another case or of groups that are gone.
\* The rest of the directory is what it was.
PullIsSnapshot ==
    result = "ok" /\ ~disturbed =>
        IF ByRule
        THEN \A d \in Snapshot({g \in DOMAIN snap.groups :
                                \E r \in snap.groups[g] : r.uid \in request.uids}) :
                LET s == GroupEntry(d.group, request.ext)
                IN  s \in DOMAIN dir.rules /\ dir.rules[s].doc = d
        ELSE LET inside == DOMAIN dir.rules \ Outside(dir)
             IN  /\ {dir.rules[s].doc : s \in inside} =
                        Snapshot({g \in DOMAIN snap.groups : InFolders(g)})
                 /\ Cardinality(inside) = Cardinality({dir.rules[s].doc : s \in inside})
                 /\ Outside(dir) = Outside(before)
                 /\ \A s \in Outside(dir) : dir.rules[s] = before.rules[s]
                 /\ \A part \in Parts : dir[part] = Only(request.ext, snap.org[part])
                 /\ Outside(dir) = {} => Readable(dir)

\* A pull that is refused or cannot fetch leaves the directory as it was. One
\* of named rules removes nothing and touches only the files of their groups,
\* and there, without --overwrite, loses nothing but what was in those rules.
LocalWorkKept ==
    /\ result \in {"refused", "failed"} => dir = before
    /\ ByRule /\ (phase # "idle" \/ result # "none") =>
          /\ \A part \in Parts : dir[part] = before[part]
          /\ \A s \in DOMAIN before.rules :
                LET old == before.rules[s].doc
                    new == dir.rules[s].doc
                IN  /\ s \in DOMAIN dir.rules
                    /\ \/ new = old
                       \/ /\ new = CutDoc /\ result # "ok"
                          /\ \E d \in fetched : d.group = old.group /\ s = GroupEntry(d.group, request.ext)
                       \/ /\ new.group = old.group
                          /\ new.group \in holders
                          /\ request.overwrite
                             \/ Others(new, request.uids) = Others(old, request.uids)

Lacking(d) == {part \in Parts : d[part] = <<>> \/ CutTop \in Range(d[part])}

\* While a pull rewrites a readable bundle, and wherever it is cut short, what
\* it keeps stays there, in its old or its new version: the one file that is
\* being written aside, no group and no part is missing, which the next push
\* would take for a group to delete or a part that is not managed.
NothingVanishes ==
    Readable(before) /\ (phase # "idle" \/ result # "none") =>
        /\ \A s \in DOMAIN before.rules :
              LET old == before.rules[s].doc
                  fresh == {d \in fetched : d.group = old.group}
              IN  fresh # {} \/ ByRule \/ ~InFolders(s) =>
                    \/ Docs(dir) \cap ({old} \cup fresh) # {}
                    \/ \E t \in DOMAIN dir.rules :
                          t = GroupEntry(old.group, request.ext) /\ dir.rules[t].doc = CutDoc
        /\ Cardinality({s \in DOMAIN dir.rules : dir.rules[s].doc = CutDoc}) <= 1
        /\ Lacking(before) = {} => Cardinality(Lacking(dir)) <= 1

\* docs/guides/alerting.md: "Rename a file freely". A bundle that can be read
\* stays so when rules are pulled into it that were never moved in Grafana.
RenameFreely ==
    result = "ok" /\ Readable(before) /\ ~moved => Readable(dir)

-----------------------------------------------------------------------------
(* What the properties rest on                                             *)

\* How far a command is; that nothing is written while it reads or if it gives up.
ControlInv ==
    /\ phase # "idle" => result = "none"
    /\ phase = "lookup" => ByRule
    /\ phase \in {"list", "prune"} \cup Parts => ~ByRule
    /\ phase \notin {"write"} \cup Parts => stage = "ready"
    /\ IF phase = "write"
       THEN \/ stage = "ready" /\ open = {}
            \/ stage = "cut" /\ \E d \in fetched \ todo : open = {d}
       ELSE open = {}
    /\ phase \in {"lookup", "list", "fetch", "check"} \/ result \in {"refused", "failed"} =>
          dir = before

\* Each group that was asked for is fetched once at most.
FetchInv ==
    /\ \A d, e \in fetched : d.group = e.group => d = e
    /\ phase \in {"lookup", "list"} => fetched = {}
    /\ phase = "fetch" => todo \subseteq holders /\ \A d \in fetched : d.group \notin todo
    /\ ~ByRule => \A g \in holders : InFolders(g)

\* If nobody changes Grafana, what was asked for and fetched is what it holds.
Fetching == phase = "fetch"
Fetched == phase \in {"check", "write", "prune"} \cup Parts \/ result = "ok"
Holding(u) == {g \in DOMAIN groups : \E r \in groups[g] : r.uid = u}

SnapInv ==
    ~disturbed =>
        /\ snap = [groups |-> groups, org |-> org]
        /\ holders \subseteq DOMAIN groups
        /\ \A d \in fetched : d.group \in DOMAIN groups /\ d.rules = groups[d.group]
        /\ phase = "lookup" => \A u \in request.uids \ todo : Holding(u) \subseteq holders
        /\ Fetching \/ Fetched =>
              IF ByRule THEN \A u \in request.uids : Holding(u) \subseteq holders
                        ELSE holders = {g \in DOMAIN groups : InFolders(g)}
        /\ Fetching => \A g \in holders \ todo : \E d \in fetched : d.group = g
        /\ Fetched => \A g \in holders : \E d \in fetched : d.group = g
        /\ Fetched /\ ~ByRule => tops = org

\* Once it writes, and wherever it is cut short: the files still to be written are as
\* they were, those that were written hold what was fetched, but for one; the others
\* are as they were or, after all is written, removed.
Wrote == phase \in {"write", "prune"} \cup Parts \/ result \in {"ok", "interrupted"}
Entry(d) == GroupEntry(d.group, request.ext)
Same(s) ==
    /\ s \in DOMAIN dir.rules <=> s \in DOMAIN before.rules
    /\ s \in DOMAIN dir.rules => dir.rules[s] = before.rules[s]
Pruned(s) ==
    /\ s \notin DOMAIN dir.rules /\ ~ByRule /\ InFolders(s)
    /\ phase # "write" /\ todo = {} /\ \A d \in fetched : dir.rules[Entry(d)].doc = d

ChecksInv ==
    Wrote =>
        /\ ~Collide(fetched, request.ext)
        /\ ByRule => \A d \in fetched :
              ~Refuses(before, d, request.ext, request.uids, request.overwrite)
        /\ todo \subseteq fetched
        /\ phase \in {"prune"} \cup Parts \/ result = "ok" => todo = {}

FilesInv ==
    Wrote =>
        /\ \A d \in todo : Same(Entry(d))
        /\ \A d \in fetched \ todo :
              /\ Entry(d) \in DOMAIN dir.rules
              /\ dir.rules[Entry(d)].doc \in {d, CutDoc}
              /\ dir.rules[Entry(d)].doc = CutDoc => open = {d} \/ result = "interrupted"
        /\ \A d, e \in fetched \ todo :
              dir.rules[Entry(d)].doc = CutDoc /\ dir.rules[Entry(e)].doc = CutDoc => d = e
        /\ \A s \in (DOMAIN dir.rules \cup DOMAIN before.rules) \ {Entry(d) : d \in fetched} :
              Same(s) \/ Pruned(s)
        /\ phase \in Parts \/ (result = "ok" /\ ~ByRule) =>
              Prunable(dir, PrunedFolders, fetched, request.ext) = {}

Fresh(part) == Only(request.ext, tops[part])
Rewritten(part) ==
    /\ stage = "ready" => dir[part] = before[part]
    /\ stage = "written" => dir[part] = Fresh(part)

TopsInv ==
    /\ (ByRule /\ Wrote) \/ phase \in {"write", "prune"} =>
          \A part \in Parts : dir[part] = before[part]
    /\ phase = "points" => Rewritten("points") /\ dir.policies = before.policies
    /\ phase = "policies" => dir.points = Fresh("points") /\ Rewritten("policies")
    /\ result = "ok" /\ ~ByRule => \A part \in Parts : dir[part] = Fresh(part)
    /\ result = "interrupted" =>
          \E part \in Parts : \A other \in Parts \ {part} :
              dir[other] \in {before[other], Fresh(other)}

\* As long as no user gives a file the name of another group, a file is found under
\* the name of its group, or under one that is no group's.
OwnNamesApart == \A name \in OwnNames, title \in Titles : Fold[name] # Fold[title]
Placed(d) ==
    \A s \in DOMAIN d.rules :
        LET doc == d.rules[s].doc
        IN  doc # CutDoc => s = GroupEntry(doc.group, s[3]) \/ \A title \in Titles : s[2] # Fold[title]
PlacesInv == OwnNamesApart => Placed(dir) /\ Placed(before)

Inv ==
    /\ TypeOK /\ LocalWorkKept
    /\ ControlInv /\ FetchInv /\ SnapInv /\ ChecksInv /\ FilesInv /\ TopsInv /\ PlacesInv

=============================================================================
