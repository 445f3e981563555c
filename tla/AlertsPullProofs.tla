-------------------------- MODULE AlertsPullProofs --------------------------
(***************************************************************************)
(* Proofs about AlertsPull: what a pull leaves in its directory, wherever  *)
(* it is cut short and whatever was there.                                 *)
(***************************************************************************)
EXTENDS AlertsPull, FiniteSetTheorems, TLAPS

-----------------------------------------------------------------------------
(* What the file operations do to a directory                              *)

\* A document of a group has rules, and is what its fields say.
LEMMA GroupDocs ==
    /\ \A doc \in GroupDoc :
          /\ doc.group \in GroupIds /\ doc.rules \subseteq Rule /\ doc.rules # {}
          /\ doc = [group |-> doc.group, rules |-> doc.rules]
    /\ \A group \in GroupIds, rules \in SUBSET Rule :
          rules # {} => [group |-> group, rules |-> rules] \in GroupDoc
<1>1. ASSUME NEW doc \in GroupDoc
      PROVE  /\ doc.group \in GroupIds /\ doc.rules \in (SUBSET Rule) \ {{}}
             /\ doc = [group |-> doc.group, rules |-> doc.rules]
    BY DEF GroupDoc
<1>2. \A S : S \in (SUBSET Rule) \ {{}} <=> S \subseteq Rule /\ S # {}
    BY Zenon
<1>3. ASSUME NEW group \in GroupIds, NEW rules \in (SUBSET Rule) \ {{}}
      PROVE  [group |-> group, rules |-> rules] \in GroupDoc
    BY DEF GroupDoc
<1> QED
    BY <1>1, <1>2, <1>3

LEMMA OtherRules ==
    ASSUME NEW doc \in GroupDoc, NEW rules
    PROVE  [doc EXCEPT !.rules = rules] = [group |-> doc.group, rules |-> rules]
    BY DEF GroupDoc

\* A half-written file declares no group.
LEMMA CutIsNoGroup == CutDoc \notin GroupDoc /\ CutDoc.rules = {}
    BY GroupDocs DEF CutDoc

\* The entry of a group is one of the directory.
LEMMA Entries ==
    ASSUME NEW g \in GroupIds, NEW ext \in Exts
    PROVE  /\ GroupEntry(g, ext) \in Folders \X {Fold[g[2]]} \X Exts
           /\ g[2] \in Titles
    BY DEF GroupIds, GroupEntry

\* What makes a directory.
LEMMA MakesDir ==
    ASSUME NEW rules, NEW points, NEW policies, IsFiniteSet(DOMAIN rules),
           \A s \in DOMAIN rules :
              /\ rules[s] \in [name : DOMAIN Fold, doc : GroupDoc \cup {CutDoc}]
              /\ s \in Folders \X {Fold[rules[s].name]} \X Exts,
           DOMAIN points \subseteq Exts, DOMAIN policies \subseteq Exts,
           NEW e, e = [rules |-> rules, points |-> points, policies |-> policies]
    PROVE  IsDir(e)
<1>1. e.rules = rules /\ e.points = points /\ e.policies = policies
    OBVIOUS
<1>2. \A part \in Parts : DOMAIN e[part] \subseteq Exts
    BY <1>1 DEF Parts
<1> QED
    BY <1>1, <1>2 DEF IsDir

\* WriteGroup changes one entry, and leaves a directory.
LEMMA WriteGroupDoes ==
    ASSUME NEW d, IsDir(d), NEW g \in GroupIds, NEW ext \in Exts,
           NEW doc \in GroupDoc \cup {CutDoc},
           NEW s, s = GroupEntry(g, ext),
           NEW e, e = WriteGroup(d, g, ext, doc)
    PROVE  /\ IsDir(e)
           /\ DOMAIN e.rules = DOMAIN d.rules \cup {s}
           /\ e.rules[s].doc = doc
           /\ \A t \in DOMAIN d.rules \ {s} : e.rules[t] = d.rules[t]
           /\ e.points = d.points /\ e.policies = d.policies
<1> DEFINE name == IF s \in DOMAIN d.rules THEN d.rules[s].name ELSE g[2]
           new == With(d.rules, s, [name |-> name, doc |-> doc])
<1>1. e = [rules |-> new, points |-> d.points, policies |-> d.policies]
    BY DEF IsDir, WriteGroup
<1>2. /\ DOMAIN new = DOMAIN d.rules \cup {s}
      /\ new[s] = [name |-> name, doc |-> doc]
      /\ \A t \in DOMAIN d.rules \ {s} : new[t] = d.rules[t]
    BY DEF With
<1>3. name \in DOMAIN Fold /\ s \in Folders \X {Fold[name]} \X Exts
  <2>1. CASE s \in DOMAIN d.rules
      BY <2>1 DEF IsDir
  <2>2. CASE s \notin DOMAIN d.rules
      BY <2>2, Entries, PullAssumption
  <2> QED BY <2>1, <2>2
<1>4. IsFiniteSet(DOMAIN new)
    BY <1>2, FS_AddElement DEF IsDir
<1>5. IsDir(e)
  <2> HIDE DEF new, name
  <2>1. \A t \in DOMAIN new :
          /\ new[t] \in [name : DOMAIN Fold, doc : GroupDoc \cup {CutDoc}]
          /\ t \in Folders \X {Fold[new[t].name]} \X Exts
      BY <1>2, <1>3 DEF IsDir
  <2>2. \A part \in Parts : DOMAIN e[part] \subseteq Exts
      BY <1>1 DEF IsDir, Parts
  <2> QED BY <1>1, <1>4, <2>1, <2>2 DEF IsDir
<1> QED
    BY <1>1, <1>2, <1>5

\* RemoveFile removes one entry.
LEMMA RemoveFileDoes ==
    ASSUME NEW d, IsDir(d), NEW s, NEW e, e = RemoveFile(d, s)
    PROVE  /\ IsDir(e)
           /\ DOMAIN e.rules = DOMAIN d.rules \ {s}
           /\ \A t \in DOMAIN e.rules : e.rules[t] = d.rules[t]
           /\ e.points = d.points /\ e.policies = d.policies
<1> DEFINE new == Restrict(d.rules, DOMAIN d.rules \ {s})
<1>1. e = [rules |-> new, points |-> d.points, policies |-> d.policies]
    BY DEF IsDir, RemoveFile
<1>2. DOMAIN new = DOMAIN d.rules \ {s} /\ \A t \in DOMAIN new : new[t] = d.rules[t]
    BY DEF Restrict
<1>3. IsFiniteSet(DOMAIN new)
    BY <1>2, FS_RemoveElement DEF IsDir
<1> HIDE DEF new
<1>4. \A t \in DOMAIN new :
          /\ new[t] \in [name : DOMAIN Fold, doc : GroupDoc \cup {CutDoc}]
          /\ t \in Folders \X {Fold[new[t].name]} \X Exts
    BY <1>2 DEF IsDir
<1>5. \A part \in Parts : DOMAIN e[part] \subseteq Exts
    BY <1>1 DEF IsDir, Parts
<1> QED
    BY <1>1, <1>2, <1>3, <1>4, <1>5 DEF IsDir

\* Rewriting one of the two top-level files leaves all else alone.
WithTop(d, part, content) == [d EXCEPT ![part] = content]

LEMMA TopChange ==
    ASSUME NEW d, IsDir(d), NEW part \in Parts, NEW content, DOMAIN content \subseteq Exts,
           NEW e, e = WithTop(d, part, content)
    PROVE  /\ IsDir(e)
           /\ e.rules = d.rules /\ e[part] = content
           /\ \A other \in Parts \ {part} : e[other] = d[other]
<1>1. CASE part = "points"
  <2>1. e = [rules |-> d.rules, points |-> content, policies |-> d.policies]
      BY <1>1 DEF IsDir, WithTop
  <2> QED BY <2>1, <1>1 DEF IsDir, Parts
<1>2. CASE part = "policies"
  <2>1. e = [rules |-> d.rules, points |-> d.points, policies |-> content]
      BY <1>2 DEF IsDir, WithTop
  <2> QED BY <2>1, <1>2 DEF IsDir, Parts
<1> QED
    BY <1>1, <1>2 DEF Parts

\* The user edits a rule of a file.
WithEdit(d, s, r) ==
    [d EXCEPT !.rules[s].doc.rules = (@ \ {r}) \cup {[r EXCEPT !.val = 3]}]

LEMMA EditRuleDoes ==
    ASSUME NEW d, IsDir(d), NEW s \in DOMAIN d.rules, NEW r \in d.rules[s].doc.rules,
           NEW e, e = WithEdit(d, s, r)
    PROVE  /\ IsDir(e)
           /\ DOMAIN e.rules = DOMAIN d.rules
           /\ \A t \in DOMAIN d.rules : e.rules[t].doc.group = d.rules[t].doc.group
           /\ \A t \in DOMAIN d.rules : d.rules[t].doc = CutDoc => e.rules[t].doc = CutDoc
<1> DEFINE old == d.rules[s]
           rules == (old.doc.rules \ {r}) \cup {[r EXCEPT !.val = 3]}
           file == [name |-> old.name, doc |-> [group |-> old.doc.group, rules |-> rules]]
           new == [d.rules EXCEPT ![s] = file]
<1>1. old.name \in DOMAIN Fold /\ old.doc \in GroupDoc
      /\ old = [name |-> old.name, doc |-> old.doc]
    BY CutIsNoGroup DEF IsDir
<1>2. rules \in SUBSET Rule /\ rules # {}
  <2>1. old.doc.rules \subseteq Rule
      BY <1>1, GroupDocs
  <2>2. [r EXCEPT !.val = 3] \in Rule
      BY <2>1 DEF Rule
  <2> QED BY <2>1, <2>2
<1>3. file.doc \in GroupDoc
    BY <1>1, <1>2, GroupDocs
<1>4. e = [rules |-> new, points |-> d.points, policies |-> d.policies]
  <2>2. [old EXCEPT !.doc.rules = (@ \ {r}) \cup {[r EXCEPT !.val = 3]}] = file
    <3>1. [old.doc EXCEPT !.rules = rules] = file.doc
        BY <1>1, OtherRules
    <3>2. [old EXCEPT !.doc = file.doc] = file
        BY <1>1
    <3> QED BY <3>1, <3>2
  <2>3. e = [d EXCEPT !.rules = [@ EXCEPT ![s] = file]]
      BY <2>2 DEF WithEdit
  <2> QED BY <2>3 DEF IsDir
<1>5. DOMAIN new = DOMAIN d.rules /\ new[s] = file
      /\ \A t \in DOMAIN d.rules \ {s} : new[t] = d.rules[t]
    OBVIOUS
<1>6. \A t \in DOMAIN new :
          /\ new[t] \in [name : DOMAIN Fold, doc : GroupDoc \cup {CutDoc}]
          /\ t \in Folders \X {Fold[new[t].name]} \X Exts
  <2>1. file \in [name : DOMAIN Fold, doc : GroupDoc \cup {CutDoc}] /\ file.name = old.name
      BY <1>1, <1>3
  <2> HIDE DEF new, file
  <2> QED BY <1>5, <2>1 DEF IsDir
<1>7. DOMAIN d.points \subseteq Exts /\ DOMAIN d.policies \subseteq Exts /\ IsFiniteSet(DOMAIN new)
    BY <1>5 DEF IsDir, Parts
<1>8. e.rules = new /\ file.doc.group = old.doc.group
    BY <1>4
<1> HIDE DEF new, file
<1>9. IsDir(e)
    BY <1>4, <1>6, <1>7, MakesDir
<1> QED
    BY <1>1, <1>5, <1>8, <1>9, CutIsNoGroup

\* The user gives a file another name that no file has.
Moved(s, name) == <<s[1], Fold[name], s[3]>>
WithName(d, s, name) ==
    [d EXCEPT !.rules =
        With(Restrict(@, DOMAIN @ \ {s}), Moved(s, name), [d.rules[s] EXCEPT !.name = name])]

LEMMA RenameDoes ==
    ASSUME NEW d, IsDir(d), NEW s \in DOMAIN d.rules, NEW name \in OwnNames,
           NEW t, t = Moved(s, name), t \notin DOMAIN d.rules,
           NEW e, e = WithName(d, s, name)
    PROVE  /\ IsDir(e)
           /\ DOMAIN e.rules = (DOMAIN d.rules \ {s}) \cup {t}
           /\ \A u \in DOMAIN d.rules \ {s} : e.rules[u] = d.rules[u]
           /\ t[2] = Fold[name]
<1> DEFINE file == [name |-> name, doc |-> d.rules[s].doc]
           kept == Restrict(d.rules, DOMAIN d.rules \ {s})
           new == With(kept, t, file)
<1>1. [d.rules[s] EXCEPT !.name = name] = file
    BY DEF IsDir
<1>2. e = [rules |-> new, points |-> d.points, policies |-> d.policies]
    BY <1>1 DEF IsDir, WithName
<1>3. /\ DOMAIN new = (DOMAIN d.rules \ {s}) \cup {t}
      /\ new[t] = file
      /\ \A u \in DOMAIN d.rules \ {s} : new[u] = d.rules[u]
    BY DEF With, Restrict
<1>4. IsFiniteSet(DOMAIN new)
  <2>1. IsFiniteSet(DOMAIN d.rules \ {s})
      BY FS_RemoveElement DEF IsDir
  <2>2. IsFiniteSet((DOMAIN d.rules \ {s}) \cup {t})
      BY <2>1, FS_AddElement
  <2> QED BY <1>3, <2>2
<1>5. file \in [name : DOMAIN Fold, doc : GroupDoc \cup {CutDoc}] /\ file.name = name
    BY PullAssumption DEF IsDir
<1>6. t \in Folders \X {Fold[name]} \X Exts
    BY DEF IsDir, Moved
<1> HIDE DEF new, file
<1>7. \A u \in DOMAIN new :
          /\ new[u] \in [name : DOMAIN Fold, doc : GroupDoc \cup {CutDoc}]
          /\ u \in Folders \X {Fold[new[u].name]} \X Exts
    BY <1>3, <1>5, <1>6 DEF IsDir
<1>8. DOMAIN d.points \subseteq Exts /\ DOMAIN d.policies \subseteq Exts
    BY DEF IsDir, Parts
<1>9. IsDir(e)
    BY <1>2, <1>4, <1>7, <1>8, MakesDir
<1>10. e.rules = new /\ t[2] = Fold[name]
    BY <1>2 DEF Moved
<1> QED
    BY <1>3, <1>9, <1>10

-----------------------------------------------------------------------------
(* What may happen to Grafana's groups                                     *)

\* Groups without rules do not exist.
LEMMA WithRulesDoes ==
    ASSUME NEW held, DOMAIN held \subseteq GroupIds,
           \A g \in DOMAIN held : held[g] \subseteq Rule,
           \A g, h \in DOMAIN held : \A r \in held[g], q \in held[h] :
              r.uid = q.uid => g = h /\ r = q
    PROVE  IsGroups(WithRules(held))
<1> DEFINE new == WithRules(held)
<1>1. /\ DOMAIN new = {g \in DOMAIN held : held[g] # {}}
      /\ new = [g \in DOMAIN new |-> held[g]]
    BY DEF WithRules, Restrict
<1>2. \A g \in DOMAIN new : new[g] = held[g] /\ new[g] \in (SUBSET Rule) \ {{}}
    BY <1>1
<1> HIDE DEF new
<1>3. new \in [DOMAIN new -> (SUBSET Rule) \ {{}}]
    BY <1>1, <1>2
<1> QED
    BY <1>1, <1>2, <1>3 DEF IsGroups, new

\* An edited rule keeps its uid.
LEMMA EditedRule ==
    ASSUME NEW r \in Rule
    PROVE  [r EXCEPT !.val = 2] \in Rule /\ [r EXCEPT !.val = 2].uid = r.uid
    BY DEF Rule

LEMMA RuleIsEdited ==
    ASSUME IsGroups(groups), NEW g \in DOMAIN groups, NEW r \in groups[g],
           NEW new, new = [groups EXCEPT ![g] = (@ \ {r}) \cup {[r EXCEPT !.val = 2]}]
    PROVE  IsGroups(new)
<1> DEFINE q == [r EXCEPT !.val = 2]
<1>1. \A h \in DOMAIN groups : groups[h] \subseteq Rule /\ groups[h] # {}
    BY DEF IsGroups
<1>2. q \in Rule /\ q.uid = r.uid
    BY <1>1, EditedRule
<1>3. /\ DOMAIN new = DOMAIN groups /\ new[g] = (groups[g] \ {r}) \cup {q}
      /\ \A h \in DOMAIN groups \ {g} : new[h] = groups[h]
      /\ new = [h \in DOMAIN new |-> new[h]]
    OBVIOUS
<1> HIDE DEF q
<1>4. \A h \in DOMAIN new : new[h] \in (SUBSET Rule) \ {{}}
    BY <1>1, <1>2, <1>3
<1>5. new \in [DOMAIN new -> (SUBSET Rule) \ {{}}]
    BY <1>3, <1>4
<1>6. ASSUME NEW h \in DOMAIN new, NEW i \in DOMAIN new, NEW a \in new[h], NEW b \in new[i],
             a.uid = b.uid
      PROVE  h = i /\ a = b
  <2>1. \A j \in DOMAIN new : \A c \in new[j] : (c \in groups[j] /\ c # r) \/ (c = q /\ j = g)
      BY <1>3, <1>1 DEF IsGroups
  <2> QED BY <2>1, <1>2, <1>3, <1>6 DEF IsGroups
<1> QED
    BY <1>3, <1>5, <1>6 DEF IsGroups

\* Deleted, or moved, no rule is in two places.
LEMMA LessIsGroups ==
    ASSUME IsGroups(groups), NEW r, NEW left, DOMAIN left = DOMAIN groups,
           \A h \in DOMAIN groups : left[h] = groups[h] \ {r}
    PROVE  IsGroups(WithRules(left))
<1>1. \A h \in DOMAIN left : left[h] \subseteq Rule
    BY DEF IsGroups
<1>2. \A h, i \in DOMAIN left : \A a \in left[h], b \in left[i] : a.uid = b.uid => h = i /\ a = b
    BY DEF IsGroups
<1>3. DOMAIN left \subseteq GroupIds
    BY DEF IsGroups
<1> QED
    BY <1>1, <1>2, <1>3, WithRulesDoes

LEMMA RuleIsDeleted ==
    ASSUME IsGroups(groups), NEW g \in DOMAIN groups, NEW r \in groups[g],
           NEW left, left = [groups EXCEPT ![g] = @ \ {r}]
    PROVE  /\ IsGroups(WithRules(left))
           /\ DOMAIN left = DOMAIN groups
           /\ \A h \in DOMAIN groups : left[h] = groups[h] \ {r}
<1>1. DOMAIN left = DOMAIN groups /\ left[g] = groups[g] \ {r}
      /\ \A h \in DOMAIN groups \ {g} : left[h] = groups[h]
    OBVIOUS
<1>2. \A h \in DOMAIN groups : left[h] = groups[h] \ {r}
    BY <1>1 DEF IsGroups
<1> QED
    BY <1>1, <1>2, LessIsGroups

LEMMA RuleIsMoved ==
    ASSUME IsGroups(groups), NEW g \in DOMAIN groups, NEW r \in groups[g],
           NEW h \in GroupIds,
           NEW left, left = [groups EXCEPT ![g] = @ \ {r}],
           NEW joined, joined = IF h \in DOMAIN left THEN left[h] \cup {r} ELSE {r}
    PROVE  IsGroups(WithRules(With(left, h, joined)))
<1> DEFINE new == With(left, h, joined)
<1>1. DOMAIN left = DOMAIN groups /\ \A i \in DOMAIN groups : left[i] = groups[i] \ {r}
    BY RuleIsDeleted
<1>2. /\ DOMAIN new = DOMAIN groups \cup {h}
      /\ \A i \in DOMAIN new : \A a \in new[i] :
            (a = r /\ i = h) \/ (i \in DOMAIN groups /\ a \in groups[i] /\ a # r)
    BY <1>1 DEF With
<1> HIDE DEF new
<1>3. \A i \in DOMAIN new : new[i] \subseteq Rule
    BY <1>2 DEF IsGroups
<1>4. \A i, j \in DOMAIN new : \A a \in new[i], b \in new[j] : a.uid = b.uid => i = j /\ a = b
    BY <1>2 DEF IsGroups
<1>5. DOMAIN new \subseteq GroupIds
    BY <1>2 DEF IsGroups
<1> QED
    BY <1>3, <1>4, <1>5, WithRulesDoes DEF new

LEMMA GroupsEdited ==
    ASSUME IsGroups(groups), EditInGrafana
    PROVE  IsGroups(groups')
<1>1. PICK g \in DOMAIN groups : \E r \in groups[g] :
          \/ groups' = [groups EXCEPT ![g] = (@ \ {r}) \cup {[r EXCEPT !.val = 2]}]
          \/ groups' = WithRules([groups EXCEPT ![g] = @ \ {r}])
          \/ \E h \in GroupIds \ {g} :
                LET left == [groups EXCEPT ![g] = @ \ {r}]
                    joined == IF h \in DOMAIN left THEN left[h] \cup {r} ELSE {r}
                IN  groups' = WithRules(With(left, h, joined))
    BY Zenon DEF EditInGrafana
<1>2. PICK r \in groups[g] :
          \/ groups' = [groups EXCEPT ![g] = (@ \ {r}) \cup {[r EXCEPT !.val = 2]}]
          \/ groups' = WithRules([groups EXCEPT ![g] = @ \ {r}])
          \/ \E h \in GroupIds \ {g} :
                LET left == [groups EXCEPT ![g] = @ \ {r}]
                    joined == IF h \in DOMAIN left THEN left[h] \cup {r} ELSE {r}
                IN  groups' = WithRules(With(left, h, joined))
    BY <1>1, Zenon
<1> DEFINE left == [groups EXCEPT ![g] = @ \ {r}]
<1>3. IsGroups([groups EXCEPT ![g] = (@ \ {r}) \cup {[r EXCEPT !.val = 2]}])
    BY RuleIsEdited
<1>4. IsGroups(WithRules(left))
    BY RuleIsDeleted
<1>5. ASSUME NEW h \in GroupIds
      PROVE  IsGroups(WithRules(With(left, h, IF h \in DOMAIN left THEN left[h] \cup {r} ELSE {r})))
    BY RuleIsMoved
<1> QED
    BY <1>2, <1>3, <1>4, <1>5, Zenon

-----------------------------------------------------------------------------
(* The inductive invariant                                                 *)

IInv ==
    /\ TypeOK
    /\ ControlInv /\ FetchInv /\ SnapInv /\ ChecksInv /\ FilesInv /\ TopsInv /\ PlacesInv

\* What PhaseDone does, phase by phase.
LEMMA PhaseEnds ==
    ASSUME IInv, PhaseDone
    PROVE  /\ \/ /\ phase = "write" /\ todo = {} /\ stage = "ready" /\ ~ByRule
                 /\ phase' = "prune" /\ result' = result
              \/ /\ phase = "write" /\ todo = {} /\ stage = "ready" /\ ByRule
                 /\ phase' = "idle" /\ result' = "ok"
              \/ /\ phase = "prune" /\ Prunable(dir, PrunedFolders, fetched, request.ext) = {}
                 /\ phase' = "points" /\ result' = result
              \/ /\ phase = "points" /\ stage = "written"
                 /\ phase' = "policies" /\ result' = result
              \/ /\ phase = "policies" /\ stage = "written"
                 /\ phase' = "idle" /\ result' = "ok"
           /\ todo' = {} /\ stage' = "ready"
           /\ UNCHANGED <<groups, org, dir, request, holders, fetched, tops, open,
                          historyVars, pulls, edits>>
    BY DEF PhaseDone, Leave, After, Parts

\* Check lets the writing begin or refuses it.
LEMMA CheckEnds ==
    ASSUME Check
    PROVE  /\ phase = "check"
           /\ \/ /\ phase' = "idle" /\ result' = "refused" /\ stage' = "ready" /\ open' = {}
                 /\ todo' = todo
              \/ /\ phase' = "write" /\ result' = result /\ todo' = fetched
                 /\ UNCHANGED <<stage, open>>
                 /\ ~Collide(fetched, request.ext)
                 /\ ByRule => \A d \in fetched :
                       ~Refuses(dir, d, request.ext, request.uids, request.overwrite)
           /\ UNCHANGED <<groups, org, dir, request, holders, fetched, tops,
                          historyVars, pulls, edits>>
    BY DEF Check, Leave, After, End

\* What the steps have in common that read from Grafana.
Reads == Lookup \/ ListRules \/ FetchGroup \/ FetchRest \/ RequestFails

LEMMA ReadsDo ==
    ASSUME IInv, Reads
    PROVE  /\ phase \in {"lookup", "list", "fetch"}
           /\ \/ phase' \in {"lookup", "fetch", "check"} /\ result' = "none"
              \/ phase' = "idle" /\ result' \in {"refused", "failed"}
           /\ stage' = "ready" /\ open' = {}
           /\ UNCHANGED <<groups, org, dir, request, historyVars, pulls, edits>>
<1> USE DEF IInv, ControlInv, End, Parts
<1>1. CASE Lookup
    BY <1>1 DEF Lookup
<1>2. CASE ListRules
    BY <1>2 DEF ListRules
<1>3. CASE FetchGroup
    BY <1>3 DEF FetchGroup
<1>4. CASE FetchRest
    BY <1>4 DEF FetchRest
<1>5. CASE RequestFails
    BY <1>5 DEF RequestFails
<1> QED
    BY <1>1, <1>2, <1>3, <1>4, <1>5 DEF Reads

\* A pull that starts has written nothing.
LEMMA StartDoes ==
    ASSUME Start
    PROVE  /\ phase = "idle" /\ phase' \in {"lookup", "list"} /\ result' = "none"
           /\ phase' = "lookup" <=> ByRule'
           /\ dir' = dir /\ before' = dir /\ request' \in Requests
           /\ todo' = request'.uids /\ holders' = {} /\ fetched' = {}
           /\ snap' = [groups |-> groups, org |-> org] /\ disturbed' = FALSE
           /\ pulls < MaxPulls /\ pulls' = pulls + 1
           /\ UNCHANGED <<groups, org, tops, stage, open, moved, edits>>
    BY DEF Start, ByRule

\* The steps of the users of Grafana and of the directory.
LEMMA OthersDo ==
    ASSUME EditInGrafana \/ EditTopInGrafana
    PROVE  /\ disturbed' = TRUE
           /\ edits < MaxEdits /\ edits' = edits + 1
           /\ UNCHANGED <<dir, pullVars, before, snap, pulls>>
    BY Zenon DEF EditInGrafana, EditTopInGrafana

LEMMA EditFileDoes ==
    ASSUME EditFile
    PROVE  /\ phase = "idle" /\ result' = "none"
           /\ edits < MaxEdits /\ edits' = edits + 1
           /\ UNCHANGED <<groups, org, request, phase, todo, holders, fetched, tops, stage, open,
                          historyVars, pulls>>
    BY Zenon DEF EditFile

\* The steps that write, on the directory.
LEMMA ExtIs == TypeOK => request.ext \in Exts
    BY PullAssumption DEF TypeOK

LEMMA WriteDoes ==
    ASSUME IInv, WriteGroupFile
    PROVE  /\ \E d \in fetched : \E doc \in {d, CutDoc} :
                /\ \/ /\ stage = "ready" /\ stage' = "cut" /\ doc = CutDoc
                      /\ d \in todo /\ todo' = todo \ {d} /\ open = {} /\ open' = {d}
                   \/ /\ stage = "cut" /\ stage' = "ready" /\ doc = d
                      /\ d \notin todo /\ todo' = todo /\ open = {d} /\ open' = {}
                /\ DOMAIN dir'.rules = DOMAIN dir.rules \cup {Entry(d)}
                /\ dir'.rules[Entry(d)].doc = doc
                /\ \A s \in DOMAIN dir.rules \ {Entry(d)} : dir'.rules[s] = dir.rules[s]
           /\ IsDir(dir') /\ dir'.points = dir.points /\ dir'.policies = dir.policies
           /\ phase = "write" /\ phase' = "write" /\ result = "none"
           /\ UNCHANGED <<groups, org, request, phase, holders, fetched, tops, result,
                          historyVars, pulls, edits>>
<1>1. IsDir(dir) /\ request.ext \in Exts /\ fetched \subseteq GroupDoc
    BY ExtIs DEF IInv, TypeOK
<1>2. phase = "write" /\ result = "none" /\ todo \subseteq fetched
    BY DEF IInv, WriteGroupFile, ControlInv, ChecksInv, Wrote
<1>3. ASSUME NEW d \in fetched, NEW doc \in {d, CutDoc},
             dir' = WriteGroup(dir, d.group, request.ext, doc)
      PROVE  /\ DOMAIN dir'.rules = DOMAIN dir.rules \cup {Entry(d)}
             /\ dir'.rules[Entry(d)].doc = doc
             /\ \A s \in DOMAIN dir.rules \ {Entry(d)} : dir'.rules[s] = dir.rules[s]
             /\ IsDir(dir') /\ dir'.points = dir.points /\ dir'.policies = dir.policies
  <2>1. d.group \in GroupIds /\ doc \in GroupDoc \cup {CutDoc}
      BY <1>1, GroupDocs
  <2> QED BY <1>1, <1>3, <2>1, WriteGroupDoes DEF Entry
<1>4. CASE stage = "ready"
  <2>1. PICK d \in todo : /\ open' = {d} /\ todo' = todo \ {d}
                          /\ dir' = WriteGroup(dir, d.group, request.ext, CutDoc)
      BY <1>4 DEF WriteGroupFile
  <2>2. open = {} /\ stage' = "cut"
      BY <1>2, <1>4 DEF WriteGroupFile, IInv, ControlInv
  <2> QED BY <1>2, <1>3, <1>4, <2>1, <2>2 DEF WriteGroupFile
<1>5. CASE stage = "cut"
  <2>1. PICK d \in fetched \ todo : open = {d}
      BY <1>2, <1>5 DEF IInv, ControlInv
  <2>2. /\ dir' = WriteGroup(dir, d.group, request.ext, d)
        /\ open' = {} /\ todo' = todo /\ stage' = "ready"
      BY <1>5, <2>1 DEF WriteGroupFile
  <2> QED BY <1>2, <1>3, <1>5, <2>1, <2>2 DEF WriteGroupFile
<1> QED
    BY <1>4, <1>5 DEF WriteGroupFile

LEMMA PruneDoes ==
    ASSUME IInv, PruneFile
    PROVE  /\ \E s \in Prunable(dir, PrunedFolders, fetched, request.ext) :
                DOMAIN dir'.rules = DOMAIN dir.rules \ {s}
           /\ \A t \in DOMAIN dir'.rules : dir'.rules[t] = dir.rules[t]
           /\ IsDir(dir') /\ dir'.points = dir.points /\ dir'.policies = dir.policies
           /\ phase = "prune" /\ result = "none"
           /\ UNCHANGED <<groups, org, pullVars, historyVars, pulls, edits>>
<1>1. IsDir(dir) /\ phase = "prune" /\ result = "none"
    BY DEF IInv, TypeOK, ControlInv, PruneFile
<1>2. PICK s \in Prunable(dir, PrunedFolders, fetched, request.ext) : dir' = RemoveFile(dir, s)
    BY DEF PruneFile
<1> QED
    BY <1>1, <1>2, RemoveFileDoes DEF PruneFile

LEMMA RewriteDoes ==
    ASSUME IInv, RewriteTop
    PROVE  /\ phase \in Parts /\ result = "none" /\ stage' \in {"removed", "cut", "written"}
           /\ IsDir(dir') /\ dir'.rules = dir.rules
           /\ \A other \in Parts \ {phase} : dir'[other] = dir[other]
           /\ stage' = "written" => dir'[phase] = Fresh(phase)
           /\ UNCHANGED <<groups, org, request, phase, todo, holders, fetched, tops, open,
                          result, historyVars, pulls, edits>>
<1>1. IsDir(dir) /\ phase \in Parts /\ result = "none" /\ request.ext \in Exts
    BY ExtIs DEF IInv, TypeOK, ControlInv, RewriteTop, Parts
<1>2. PICK content :
          /\ dir' = [dir EXCEPT ![phase] = content]
          /\ DOMAIN content \subseteq Exts
          /\ stage' \in {"removed", "cut", "written"}
          /\ stage' = "written" => content = Fresh(phase)
  <2>1. \A x : DOMAIN Only(request.ext, x) \subseteq Exts
      BY <1>1 DEF Only
  <2>2. DOMAIN <<>> \subseteq Exts
      OBVIOUS
  <2>3. CASE stage = "ready"
      BY <2>2, <2>3 DEF RewriteTop, RemoveTop
  <2>4. CASE stage = "removed"
      BY <2>1, <2>4 DEF RewriteTop, WriteTop
  <2>5. CASE stage = "cut"
      BY <2>1, <2>5 DEF RewriteTop, WriteTop, Fresh
  <2> QED BY <2>3, <2>4, <2>5 DEF RewriteTop
<1>3. /\ IsDir(dir') /\ dir'.rules = dir.rules /\ dir'[phase] = content
      /\ \A other \in Parts \ {phase} : dir'[other] = dir[other]
  <2>1. dir' = WithTop(dir, phase, content)
      BY <1>2 DEF WithTop
  <2>2. phase \in Parts /\ DOMAIN content \subseteq Exts
      BY <1>1, <1>2
  <2> QED BY <1>1, <2>1, <2>2, TopChange
<1> QED
    BY <1>1, <1>2, <1>3 DEF RewriteTop

\* A file is found under the name of its group, unless the user gave it another.
LEMMA EditFileKeepsDir ==
    ASSUME IsDir(dir), EditFile
    PROVE  /\ IsDir(dir')
           /\ OwnNamesApart /\ Placed(dir) => Placed(dir')
<1>1. PICK s \in DOMAIN dir.rules :
          \/ \E r \in dir.rules[s].doc.rules : dir' = WithEdit(dir, s, r)
          \/ \E name \in OwnNames :
                /\ Moved(s, name) \notin DOMAIN dir.rules
                /\ dir' = WithName(dir, s, name)
    BY Zenon DEF EditFile, WithEdit, WithName, Moved
<1>2. CASE \E r \in dir.rules[s].doc.rules : dir' = WithEdit(dir, s, r)
  <2>1. /\ IsDir(dir') /\ DOMAIN dir'.rules = DOMAIN dir.rules
        /\ \A t \in DOMAIN dir.rules : dir'.rules[t].doc.group = dir.rules[t].doc.group
        /\ \A t \in DOMAIN dir.rules : dir.rules[t].doc = CutDoc => dir'.rules[t].doc = CutDoc
      BY <1>2, EditRuleDoes
  <2> QED BY <2>1 DEF Placed
<1>3. CASE \E name \in OwnNames :
             Moved(s, name) \notin DOMAIN dir.rules /\ dir' = WithName(dir, s, name)
  <2>1. PICK name \in OwnNames :
             Moved(s, name) \notin DOMAIN dir.rules /\ dir' = WithName(dir, s, name)
      BY <1>3
  <2>2. /\ IsDir(dir')
        /\ DOMAIN dir'.rules = (DOMAIN dir.rules \ {s}) \cup {Moved(s, name)}
        /\ \A u \in DOMAIN dir.rules \ {s} : dir'.rules[u] = dir.rules[u]
        /\ Moved(s, name)[2] = Fold[name]
      BY <2>1, RenameDoes
  <2> QED BY <2>2 DEF Placed, OwnNamesApart
<1> QED
    BY <1>1, <1>2, <1>3

-----------------------------------------------------------------------------
(* Types                                                                   *)

LEMMA TypeStep == IInv /\ [Next]_vars => TypeOK'
<1> SUFFICES ASSUME IInv, [Next]_vars PROVE TypeOK'
    OBVIOUS
<1>0. TypeOK /\ ControlInv /\ FetchInv /\ ChecksInv
    BY DEF IInv
<1>t. /\ IsGroups(groups) /\ IsDir(dir) /\ IsDir(before) /\ request \in Requests
      /\ {org, tops} \subseteq [points : Nat \ {0}, policies : Nat \ {0}]
      /\ holders \subseteq GroupIds
      /\ fetched \subseteq GroupDoc /\ {d.group : d \in fetched} \subseteq holders
      /\ pulls \in 0..MaxPulls /\ edits \in 0..MaxEdits
    BY <1>0 DEF TypeOK
<1>n. MaxPulls \in Nat /\ MaxEdits \in Nat
    BY PullAssumption
<1>1. CASE Start
    BY <1>0, <1>t, <1>n, <1>1, StartDoes DEF TypeOK
<1>2. CASE Reads
  <2>1. holders' \subseteq GroupIds /\ fetched' \subseteq GroupDoc
        /\ {d.group : d \in fetched'} \subseteq holders' /\ tops' \in {tops, org}
    <3>1. CASE Lookup
        BY <1>t, <3>1 DEF Lookup, IsGroups, End
    <3>2. CASE ListRules
        BY <1>0, <1>t, <3>2 DEF ListRules, IsGroups, FetchInv
    <3>3. CASE FetchGroup
      <4>1. PICK g \in todo : fetched' = fetched \cup
                {[group |-> h, rules |-> groups[h]] : h \in {g} \cap DOMAIN groups}
          BY <3>3 DEF FetchGroup
      <4>2. g \in holders /\ holders' = holders /\ tops' = tops
          BY <1>0, <3>3 DEF FetchGroup, FetchInv
      <4>3. ASSUME g \in DOMAIN groups
            PROVE  [group |-> g, rules |-> groups[g]] \in GroupDoc
          BY <1>t, <4>3, GroupDocs DEF IsGroups
      <4> QED BY <1>t, <4>1, <4>2, <4>3
    <3>4. CASE FetchRest
        BY <1>t, <3>4 DEF FetchRest, End
    <3>5. CASE RequestFails
        BY <1>t, <3>5 DEF RequestFails, End
    <3> QED BY <1>2, <3>1, <3>2, <3>3, <3>4, <3>5 DEF Reads
  <2> QED BY <1>t, <1>2, <2>1, ReadsDo DEF TypeOK, historyVars
<1>3. CASE Check
    BY <1>0, <1>t, <1>3, CheckEnds DEF TypeOK, historyVars
<1>4. CASE WriteGroupFile
    BY <1>0, <1>t, <1>4, WriteDoes DEF TypeOK, historyVars
<1>5. CASE PruneFile
    BY <1>0, <1>t, <1>5, PruneDoes DEF TypeOK, pullVars, historyVars
<1>6. CASE RewriteTop
    BY <1>0, <1>t, <1>6, RewriteDoes DEF TypeOK, historyVars
<1>7. CASE PhaseDone
    BY <1>0, <1>t, <1>7, PhaseEnds DEF TypeOK, historyVars, Parts
<1>8. CASE Interrupt
    BY <1>0, <1>t, <1>8 DEF Interrupt, End, TypeOK, historyVars
<1>9. CASE EditInGrafana \/ EditTopInGrafana
  <2>1. IsGroups(groups')
      BY <1>t, <1>9, GroupsEdited DEF EditTopInGrafana
  <2>2. org' \in [points : Nat \ {0}, policies : Nat \ {0}]
      BY <1>t, <1>9 DEF EditInGrafana, EditTopInGrafana, Parts
  <2>3. /\ edits < MaxEdits /\ edits' = edits + 1
        /\ UNCHANGED <<dir, pullVars, before, snap, pulls>>
      BY <1>9, OthersDo
  <2>4. edits' \in 0..MaxEdits
      BY <1>t, <1>n, <2>3
  <2> QED BY <1>0, <1>t, <2>1, <2>2, <2>3, <2>4 DEF TypeOK, pullVars
<1>10. CASE EditFile
    BY <1>0, <1>t, <1>n, <1>10, EditFileDoes, EditFileKeepsDir DEF TypeOK, historyVars
<1>11. CASE UNCHANGED vars
    BY <1>0, <1>11 DEF vars, pullVars, historyVars, TypeOK
<1> QED
    BY <1>1, <1>2, <1>3, <1>4, <1>5, <1>6, <1>7, <1>8, <1>9, <1>10, <1>11
       DEF Next, PullNext, Reads

-----------------------------------------------------------------------------
(* How far a command is                                                    *)

LEMMA ControlStep == IInv /\ [Next]_vars => ControlInv'
<1> SUFFICES ASSUME IInv, [Next]_vars PROVE ControlInv'
    OBVIOUS
<1>0. TypeOK /\ ControlInv /\ FetchInv /\ ChecksInv
    BY DEF IInv
<1> USE DEF Parts
<1>1. CASE Start
    BY <1>0, <1>1, StartDoes DEF ControlInv, ByRule
<1>2. CASE Reads
  <2>1. phase' = "lookup" => phase = "lookup"
      BY <1>2 DEF Reads, Lookup, ListRules, FetchGroup, FetchRest, RequestFails, End
  <2> QED BY <1>0, <1>2, <2>1, ReadsDo DEF ControlInv, ByRule, historyVars
<1>3. CASE Check
    BY <1>0, <1>3, CheckEnds DEF ControlInv, ByRule, historyVars
<1>4. CASE WriteGroupFile
    BY <1>0, <1>4, WriteDoes DEF ControlInv, ByRule, historyVars
<1>5. CASE PruneFile
    BY <1>0, <1>5, PruneDoes DEF ControlInv, ByRule, pullVars, historyVars
<1>6. CASE RewriteTop
    BY <1>0, <1>6, RewriteDoes DEF ControlInv, ByRule, historyVars
<1>7. CASE PhaseDone
    BY <1>0, <1>7, PhaseEnds DEF ControlInv, ByRule, historyVars
<1>8. CASE Interrupt
    BY <1>0, <1>8 DEF Interrupt, End, ControlInv, ByRule, historyVars
<1>9. CASE EditInGrafana \/ EditTopInGrafana
    BY <1>0, <1>9, OthersDo DEF ControlInv, ByRule, pullVars
<1>10. CASE EditFile
    BY <1>0, <1>10, EditFileDoes DEF ControlInv, ByRule, historyVars
<1>11. CASE UNCHANGED vars
    BY <1>0, <1>11 DEF vars, pullVars, historyVars, ControlInv, ByRule
<1> QED
    BY <1>1, <1>2, <1>3, <1>4, <1>5, <1>6, <1>7, <1>8, <1>9, <1>10, <1>11
       DEF Next, PullNext, Reads

-----------------------------------------------------------------------------
(* What was asked for and fetched                                          *)

\* Only reading changes what was asked for and fetched.
LEMMA FetchedStays ==
    ASSUME IInv, \/ Check \/ WriteGroupFile \/ PruneFile \/ RewriteTop \/ PhaseDone
                 \/ Interrupt \/ EditFile \/ UNCHANGED vars
    PROVE  /\ UNCHANGED <<groups, org, request, holders, fetched, tops, snap, disturbed>>
           /\ phase' \notin {"lookup", "list", "fetch"} \/ UNCHANGED <<phase, todo>>
           /\ Fetched' => Fetched
<1> USE DEF historyVars, pullVars, Parts, Fetched
<1>1. CASE Check
    BY <1>1, CheckEnds
<1>2. CASE WriteGroupFile
    BY <1>2, WriteDoes
<1>3. CASE PruneFile
    BY <1>3, PruneDoes
<1>4. CASE RewriteTop
    BY <1>4, RewriteDoes
<1>5. CASE PhaseDone
    BY <1>5, PhaseEnds
<1>6. CASE Interrupt
    BY <1>6 DEF Interrupt, End
<1>7. CASE EditFile
    BY <1>7, EditFileDoes
<1>8. CASE UNCHANGED vars
    BY <1>8 DEF vars
<1> QED
    BY <1>1, <1>2, <1>3, <1>4, <1>5, <1>6, <1>7, <1>8

LEMMA FetchStep == IInv /\ [Next]_vars => FetchInv'
<1> SUFFICES ASSUME IInv, [Next]_vars PROVE FetchInv'
    OBVIOUS
<1>0. TypeOK /\ ControlInv /\ FetchInv
    BY DEF IInv
<1> USE DEF FetchInv, ByRule, InFolders
<1>1. CASE Start
    BY <1>1, StartDoes
<1>2. CASE Lookup
    BY <1>0, <1>2 DEF Lookup, End, ControlInv
<1>3. CASE ListRules
    BY <1>0, <1>3 DEF ListRules
<1>4. CASE FetchGroup
  <2>1. PICK g \in todo :
            /\ todo' = todo \ {g}
            /\ fetched' = fetched \cup
                 {[group |-> h, rules |-> groups[h]] : h \in {g} \cap DOMAIN groups}
      BY <1>4 DEF FetchGroup
  <2>2. \A d \in fetched' : d \in fetched \/ d = [group |-> g, rules |-> groups[g]]
      BY <2>1
  <2>3. /\ phase = "fetch" /\ phase' = "fetch" /\ holders' = holders /\ request' = request
        /\ todo \subseteq holders /\ \A d \in fetched : d.group \notin todo
      BY <1>0, <1>4 DEF FetchGroup
  <2>4. \A d, e \in fetched' : d.group = e.group => d = e
      BY <1>0, <2>1, <2>2, <2>3
  <2>5. \A d \in fetched' : d.group \notin todo'
      BY <2>1, <2>2, <2>3
  <2> QED BY <1>0, <2>1, <2>3, <2>4, <2>5
<1>5. CASE FetchRest
    BY <1>0, <1>5 DEF FetchRest, End
<1>6. CASE RequestFails
    BY <1>0, <1>6 DEF RequestFails, End
<1>7. CASE EditInGrafana \/ EditTopInGrafana
    BY <1>0, <1>7, OthersDo DEF pullVars
<1>8. CASE \/ Check \/ WriteGroupFile \/ PruneFile \/ RewriteTop \/ PhaseDone
           \/ Interrupt \/ EditFile \/ UNCHANGED vars
  <2>1. /\ UNCHANGED <<request, holders, fetched>>
        /\ phase' \notin {"lookup", "list", "fetch"} \/ UNCHANGED <<phase, todo>>
      BY <1>8, FetchedStays
  <2> QED BY <1>0, <2>1
<1> QED
    BY <1>1, <1>2, <1>3, <1>4, <1>5, <1>6, <1>7, <1>8 DEF Next, PullNext

LEMMA SnapStep == IInv /\ [Next]_vars => SnapInv'
<1> SUFFICES ASSUME IInv, [Next]_vars PROVE SnapInv'
    OBVIOUS
<1>0. TypeOK /\ ControlInv /\ FetchInv /\ SnapInv
    BY DEF IInv
<1> USE DEF ByRule, InFolders, Fetching, Fetched, Parts
<1>1. CASE Start
    BY <1>1, StartDoes DEF SnapInv
<1>2. CASE Reads
  <2> SUFFICES ASSUME ~disturbed PROVE SnapInv'
      BY <1>2, ReadsDo DEF SnapInv, historyVars
  <2>1. /\ phase \in {"lookup", "list", "fetch"}
        /\ \/ phase' \in {"lookup", "fetch", "check"} /\ result' = "none"
           \/ phase' = "idle" /\ result' \in {"refused", "failed"}
        /\ UNCHANGED <<groups, org, request, snap, disturbed>>
      BY <1>2, ReadsDo DEF historyVars
  <2>2. /\ snap = [groups |-> groups, org |-> org]
        /\ holders \subseteq DOMAIN groups
        /\ \A d \in fetched : d.group \in DOMAIN groups /\ d.rules = groups[d.group]
      BY <1>0 DEF SnapInv
  <2>3. CASE Lookup
    <3>1. phase = "lookup" /\ ByRule /\ fetched = {} /\ fetched' = fetched
        BY <1>0, <2>3 DEF Lookup, ControlInv, FetchInv, End
    <3>2. \A u \in request.uids \ todo : Holding(u) \subseteq holders
        BY <1>0, <3>1 DEF SnapInv
    <3>3. CASE phase' = "idle"
        BY <2>1, <2>2, <2>3, <3>1, <3>3 DEF SnapInv, Lookup, End
    <3>4. CASE phase' # "idle"
      <4>1. PICK u \in todo :
                /\ holders' = holders \cup Holding(u)
                /\ IF todo = {u} THEN phase' = "fetch" /\ todo' = holders'
                                 ELSE phase' = phase /\ todo' = todo \ {u}
          BY <2>3, <3>4 DEF Lookup, End, Holding
      <4>2. Holding(u) \subseteq DOMAIN groups /\ \A w : Holding(w)' = Holding(w)
          BY <2>1 DEF Holding
      <4>3. holders' \subseteq DOMAIN groups
          BY <2>2, <4>1, <4>2
      <4>4. phase' = "lookup" => \A w \in request.uids \ todo' : Holding(w) \subseteq holders'
          BY <3>1, <3>2, <4>1
      <4>5. phase' = "fetch" => /\ todo' = holders'
                                /\ \A w \in request.uids : Holding(w) \subseteq holders'
          BY <3>1, <3>2, <4>1
      <4> QED BY <2>1, <2>2, <3>1, <4>1, <4>2, <4>3, <4>4, <4>5 DEF SnapInv
    <3> QED BY <3>3, <3>4
  <2>4. CASE ListRules
      BY <1>0, <2>1, <2>2, <2>4 DEF SnapInv, ListRules, ControlInv, FetchInv
  <2>5. CASE FetchGroup
    <3>1. PICK g \in todo :
              /\ todo' = todo \ {g}
              /\ fetched' = fetched \cup
                   {[group |-> h, rules |-> groups[h]] : h \in {g} \cap DOMAIN groups}
        BY <2>5 DEF FetchGroup
    <3>2. phase = "fetch" /\ UNCHANGED <<phase, holders, tops, result>> /\ g \in holders
        BY <1>0, <2>5 DEF FetchGroup, FetchInv
    <3>3. fetched' = fetched \cup {[group |-> g, rules |-> groups[g]]}
        BY <2>2, <3>1, <3>2
    <3>4. \A h \in holders \ todo' : \E d \in fetched' : d.group = h
      <4>1. \A h \in holders \ todo : \E d \in fetched : d.group = h
          BY <1>0, <3>2 DEF SnapInv
      <4>2. \E d \in fetched' : d.group = g
        <5>1. [group |-> g, rules |-> groups[g]] \in fetched'
            BY <3>3
        <5>2. [group |-> g, rules |-> groups[g]].group = g
            OBVIOUS
        <5> QED BY <5>1, <5>2
      <4> QED BY <3>1, <3>3, <4>1, <4>2
    <3>5. \A d \in fetched' : d.group \in DOMAIN groups /\ d.rules = groups[d.group]
        BY <2>2, <3>2, <3>3
    <3>6. IF ByRule THEN \A u \in request.uids : Holding(u) \subseteq holders
                    ELSE holders = {h \in DOMAIN groups : InFolders(h)}
        BY <1>0, <3>2 DEF SnapInv
    <3> QED BY <1>0, <2>1, <2>2, <3>2, <3>4, <3>5, <3>6 DEF SnapInv, ControlInv, Holding
  <2>6. CASE FetchRest
    <3>1. /\ phase = "fetch" /\ todo = {} /\ UNCHANGED <<holders, fetched>>
          /\ phase' \in {"check", "idle"}
          /\ phase' = "check" => tops' = IF ByRule THEN tops ELSE org
        BY <2>6 DEF FetchRest, End
    <3>2. /\ \A h \in holders : \E d \in fetched : d.group = h
          /\ IF ByRule THEN \A u \in request.uids : Holding(u) \subseteq holders
                       ELSE holders = {h \in DOMAIN groups : InFolders(h)}
        BY <1>0, <3>1 DEF SnapInv
    <3> QED BY <2>1, <2>2, <3>1, <3>2 DEF SnapInv, Holding
  <2>7. CASE RequestFails
      BY <1>0, <2>1, <2>2, <2>7 DEF SnapInv, RequestFails, End
  <2> QED BY <1>2, <2>3, <2>4, <2>5, <2>6, <2>7 DEF Reads
<1>3. CASE EditInGrafana \/ EditTopInGrafana
    BY <1>3, OthersDo DEF SnapInv
<1>4. CASE \/ Check \/ WriteGroupFile \/ PruneFile \/ RewriteTop \/ PhaseDone
           \/ Interrupt \/ EditFile \/ UNCHANGED vars
  <2>1. /\ UNCHANGED <<groups, org, request, holders, fetched, tops, snap, disturbed>>
        /\ phase' \notin {"lookup", "list", "fetch"} \/ UNCHANGED <<phase, todo>>
        /\ Fetched' => Fetched
      BY <1>4, FetchedStays
  <2> HIDE DEF Fetched
  <2> QED BY <1>0, <2>1 DEF SnapInv, Holding
<1> QED
    BY <1>1, <1>2, <1>3, <1>4 DEF Next, PullNext, Reads

-----------------------------------------------------------------------------
(* What is in the files                                                    *)

\* Nothing is said of files before the first write and after the next edit.
LEMMA NotYetWrote ==
    ASSUME IInv, \/ Start \/ Reads \/ EditFile
    PROVE  ~Wrote'
    BY StartDoes, ReadsDo, EditFileDoes DEF Wrote, Parts

\* What others do in Grafana changes nothing here.
LEMMA DirStands ==
    ASSUME \/ EditInGrafana \/ EditTopInGrafana \/ UNCHANGED vars
    PROVE  UNCHANGED <<dir, pullVars, before>>
    BY OthersDo DEF vars, historyVars

LEMMA ChecksStep == IInv /\ [Next]_vars => ChecksInv'
<1> SUFFICES ASSUME IInv, [Next]_vars, Wrote' PROVE ChecksInv'
    BY DEF ChecksInv
<1>0. TypeOK /\ ControlInv /\ ChecksInv
    BY DEF IInv
<1> USE DEF ByRule, Parts, Wrote
<1>1. CASE Check
    BY <1>0, <1>1, CheckEnds DEF ChecksInv, ControlInv, historyVars
<1>2. CASE WriteGroupFile
    BY <1>0, <1>2, WriteDoes DEF ChecksInv, historyVars
<1>3. CASE PruneFile
    BY <1>0, <1>3, PruneDoes DEF ChecksInv, historyVars, pullVars
<1>4. CASE RewriteTop
    BY <1>0, <1>4, RewriteDoes DEF ChecksInv, historyVars
<1>5. CASE PhaseDone
    BY <1>0, <1>5, PhaseEnds DEF ChecksInv, historyVars
<1>6. CASE Interrupt
    BY <1>0, <1>6 DEF ChecksInv, Interrupt, End, historyVars
<1>7. CASE EditInGrafana \/ EditTopInGrafana \/ UNCHANGED vars
    BY <1>0, <1>7, DirStands DEF ChecksInv, pullVars
<1> QED
    BY <1>1, <1>2, <1>3, <1>4, <1>5, <1>6, <1>7, NotYetWrote DEF Next, PullNext, Reads

\* No two of the fetched groups share an entry.
LEMMA EntriesDiffer ==
    ASSUME IInv, Wrote
    PROVE  \A d, e \in fetched : Entry(d) = Entry(e) => d = e
    BY DEF IInv, ChecksInv, Collide, Entry

\* If the files and the plan stay, so does what is known of them.
LEMMA FilesStay ==
    ASSUME FilesInv, Wrote, UNCHANGED <<before, request, todo, fetched>>, dir'.rules = dir.rules,
           phase = "write" \/ phase' # "write",
           \A d \in fetched : open = {d} => open' = {d} \/ result' = "interrupted",
           result = "interrupted" => result' = "interrupted",
           phase' \in Parts \/ (result' = "ok" /\ ~ByRule) =>
              Prunable(dir, PrunedFolders, fetched, request.ext) = {}
    PROVE  FilesInv'
<1>1. \A d : Entry(d)' = Entry(d)
    BY DEF Entry
<1>2. /\ \A s : Same(s)' <=> Same(s)
      /\ \A s : Pruned(s) => Pruned(s)'
    BY <1>1 DEF Same, Pruned, ByRule, InFolders
<1>3. Prunable(dir, PrunedFolders, fetched, request.ext)' =
        Prunable(dir, PrunedFolders, fetched, request.ext)
    BY DEF Prunable, PrunedFolders
<1> QED
    BY <1>1, <1>2, <1>3 DEF FilesInv, ByRule

\* A file is truncated, or what was fetched is written into it.
LEMMA WriteKeepsFiles ==
    ASSUME IInv, WriteGroupFile
    PROVE  FilesInv'
<1>0. ControlInv /\ ChecksInv /\ FilesInv /\ Wrote
    BY DEF IInv, Wrote, WriteGroupFile
<1>1. /\ phase = "write" /\ phase' = "write" /\ result = "none" /\ result' = "none"
      /\ UNCHANGED <<request, fetched, before>>
    BY WriteDoes DEF historyVars
<1>2. PICK d0 \in fetched : \E doc \in {d0, CutDoc} :
          /\ \/ /\ stage = "ready" /\ stage' = "cut" /\ doc = CutDoc
                /\ d0 \in todo /\ todo' = todo \ {d0} /\ open = {} /\ open' = {d0}
             \/ /\ stage = "cut" /\ stage' = "ready" /\ doc = d0
                /\ d0 \notin todo /\ todo' = todo /\ open = {d0} /\ open' = {}
          /\ DOMAIN dir'.rules = DOMAIN dir.rules \cup {Entry(d0)}
          /\ dir'.rules[Entry(d0)].doc = doc
          /\ \A s \in DOMAIN dir.rules \ {Entry(d0)} : dir'.rules[s] = dir.rules[s]
    BY WriteDoes
<1>3. PICK doc \in {d0, CutDoc} :
          /\ \/ /\ stage = "ready" /\ stage' = "cut" /\ doc = CutDoc
                /\ d0 \in todo /\ todo' = todo \ {d0} /\ open = {} /\ open' = {d0}
             \/ /\ stage = "cut" /\ stage' = "ready" /\ doc = d0
                /\ d0 \notin todo /\ todo' = todo /\ open = {d0} /\ open' = {}
          /\ DOMAIN dir'.rules = DOMAIN dir.rules \cup {Entry(d0)}
          /\ dir'.rules[Entry(d0)].doc = doc
          /\ \A s \in DOMAIN dir.rules \ {Entry(d0)} : dir'.rules[s] = dir.rules[s]
    BY <1>2
<1>4. d0 # CutDoc /\ \A d \in fetched : Entry(d) = Entry(d0) => d = d0
    BY <1>0, CutIsNoGroup, EntriesDiffer DEF IInv, TypeOK
<1>5. \A d : Entry(d)' = Entry(d)
    BY <1>1 DEF Entry
<1>6. \A s : s # Entry(d0) => (Same(s)' <=> Same(s))
    BY <1>1, <1>3 DEF Same
<1>7. \A d \in todo' : Same(Entry(d))'
    BY <1>0, <1>3, <1>4, <1>5, <1>6 DEF FilesInv, ChecksInv
<1>8. \A d \in fetched \ todo' :
          /\ Entry(d) \in DOMAIN dir'.rules
          /\ dir'.rules[Entry(d)].doc \in {d, CutDoc}
          /\ dir'.rules[Entry(d)].doc = CutDoc => open' = {d}
  <2> TAKE d \in fetched \ todo'
  <2>1. CASE d = d0
      BY <1>3, <1>4, <2>1
  <2>2. CASE d # d0
    <3>1. d \notin todo /\ Entry(d) # Entry(d0)
        BY <1>3, <1>4, <2>2
    <3>2. /\ Entry(d) \in DOMAIN dir.rules /\ dir.rules[Entry(d)].doc \in {d, CutDoc}
          /\ dir.rules[Entry(d)].doc = CutDoc => open = {d}
        BY <1>0, <1>1, <3>1 DEF FilesInv
    <3>3. open # {d}
        BY <1>3, <2>2
    <3> QED BY <1>3, <3>1, <3>2, <3>3
  <2> QED BY <2>1, <2>2
<1>9. \A d, e \in fetched \ todo' :
          dir'.rules[Entry(d)].doc = CutDoc /\ dir'.rules[Entry(e)].doc = CutDoc => d = e
    BY <1>8
<1>10. \A s \in (DOMAIN dir'.rules \cup DOMAIN before.rules) \ {Entry(d) : d \in fetched} : Same(s)'
  <2> TAKE s \in (DOMAIN dir'.rules \cup DOMAIN before.rules) \ {Entry(d) : d \in fetched}
  <2>1. s # Entry(d0) /\ s \in (DOMAIN dir.rules \cup DOMAIN before.rules) \ {Entry(d) : d \in fetched}
      BY <1>3
  <2>2. ~Pruned(s)
      BY <1>1 DEF Pruned
  <2> QED BY <1>0, <1>6, <2>1, <2>2 DEF FilesInv
<1>11. phase' \notin Parts /\ result' # "ok"
    BY <1>1 DEF Parts
<1> QED
    BY <1>1, <1>5, <1>7, <1>8, <1>9, <1>10, <1>11 DEF FilesInv

\* A file that is none of those written is removed.
LEMMA PruneKeepsFiles ==
    ASSUME IInv, PruneFile
    PROVE  FilesInv'
<1>0. ControlInv /\ ChecksInv /\ FilesInv /\ Wrote
    BY DEF IInv, Wrote, PruneFile
<1>1. /\ phase = "prune" /\ result = "none"
      /\ UNCHANGED <<request, phase, todo, holders, fetched, tops, stage, open, result, before>>
    BY PruneDoes DEF pullVars, historyVars
<1>2. PICK s0 \in Prunable(dir, PrunedFolders, fetched, request.ext) :
          DOMAIN dir'.rules = DOMAIN dir.rules \ {s0}
    BY PruneDoes
<1>3. \A t \in DOMAIN dir'.rules : dir'.rules[t] = dir.rules[t]
    BY PruneDoes
<1>4. todo = {} /\ open = {} /\ ~ByRule
    BY <1>0, <1>1 DEF ControlInv, ChecksInv
<1>5. s0 \notin {Entry(d) : d \in fetched} /\ InFolders(s0)
    BY <1>2 DEF Prunable, Entry, PrunedFolders, InFolders
<1>6. \A d \in fetched :
          /\ Entry(d) \in DOMAIN dir.rules
          /\ dir.rules[Entry(d)].doc = d
    BY <1>0, <1>1, <1>4 DEF FilesInv
<1>7. \A d : Entry(d)' = Entry(d)
    BY <1>1 DEF Entry
<1>8. \A d \in fetched : Entry(d) \in DOMAIN dir'.rules /\ dir'.rules[Entry(d)].doc = d
    BY <1>2, <1>3, <1>5, <1>6
<1>9. \A s : /\ s # s0 /\ Same(s) => Same(s)'
             /\ s = s0 \/ Pruned(s) => Pruned(s)'
    BY <1>1, <1>2, <1>3, <1>4, <1>5, <1>7, <1>8 DEF Same, Pruned, ByRule, InFolders
<1>10. \A s \in (DOMAIN dir'.rules \cup DOMAIN before.rules) \ {Entry(d) : d \in fetched} :
          Same(s)' \/ Pruned(s)'
    BY <1>0, <1>2, <1>9 DEF FilesInv
<1>11. \A d \in fetched : d # CutDoc
    BY CutIsNoGroup DEF IInv, TypeOK
<1>12. phase' \notin Parts /\ result' # "ok"
    BY <1>1 DEF Parts
<1> QED
    BY <1>1, <1>4, <1>7, <1>8, <1>10, <1>11, <1>12 DEF FilesInv

LEMMA FilesStep == IInv /\ [Next]_vars => FilesInv'
<1> SUFFICES ASSUME IInv, [Next]_vars, Wrote' PROVE FilesInv'
    BY DEF FilesInv
<1>0. TypeOK /\ ControlInv /\ ChecksInv /\ FilesInv
    BY DEF IInv
<1>1. CASE Check
  <2>1. /\ dir' = before' /\ todo' = fetched' /\ phase' = "write" /\ result' = "none"
      BY <1>0, <1>1, CheckEnds DEF ControlInv, historyVars, Wrote, Parts
  <2>2. \A s : Same(s)'
      BY <2>1 DEF Same
  <2> QED BY <2>1, <2>2 DEF FilesInv, Parts
<1>2. CASE WriteGroupFile
    BY <1>2, WriteKeepsFiles
<1>3. CASE PruneFile
    BY <1>3, PruneKeepsFiles
<1>4. CASE RewriteTop
    BY <1>0, <1>4, RewriteDoes, FilesStay DEF historyVars, FilesInv, Wrote, Parts
<1>5. CASE PhaseDone
  <2>1. Wrote /\ todo = {} /\ todo' = {} /\ dir' = dir /\ UNCHANGED <<before, request, fetched, open>>
        /\ phase' # "write" /\ result' # "interrupted" /\ result # "interrupted"
      BY <1>0, <1>5, PhaseEnds DEF historyVars, ControlInv, ChecksInv, Wrote, Parts
  <2>2. phase' \in Parts \/ (result' = "ok" /\ ~ByRule) =>
              Prunable(dir, PrunedFolders, fetched, request.ext) = {}
      BY <1>0, <1>5, PhaseEnds, <2>1 DEF FilesInv, Parts, ControlInv
  <2> QED BY <1>0, <2>1, <2>2, FilesStay
<1>6. CASE Interrupt
  <2>1. /\ Wrote /\ phase' = "idle" /\ result' = "interrupted"
        /\ UNCHANGED <<before, request, todo, fetched, dir>>
      BY <1>6 DEF Interrupt, End, Wrote, historyVars
  <2> QED BY <1>0, <2>1, FilesStay DEF Parts
<1>7. CASE EditInGrafana \/ EditTopInGrafana \/ UNCHANGED vars
  <2>1. UNCHANGED <<dir, request, phase, todo, holders, fetched, tops, stage, open, result, before>>
      BY <1>7, DirStands DEF pullVars
  <2>2. /\ Wrote
        /\ phase' \in Parts \/ (result' = "ok" /\ ~ByRule) =>
              Prunable(dir, PrunedFolders, fetched, request.ext) = {}
      BY <1>0, <2>1 DEF FilesInv, Wrote
  <2> QED BY <1>0, <2>1, <2>2, FilesStay
<1> QED
    BY <1>1, <1>2, <1>3, <1>4, <1>5, <1>6, <1>7, NotYetWrote DEF Next, PullNext, Reads

-----------------------------------------------------------------------------
(* What is in the two top-level files                                      *)

LEMMA TopsStep == IInv /\ [Next]_vars => TopsInv'
<1> SUFFICES ASSUME IInv, [Next]_vars PROVE TopsInv'
    OBVIOUS
<1>0. TypeOK /\ ControlInv /\ TopsInv
    BY DEF IInv
<1> USE DEF ByRule, Parts, Wrote, Fresh, Rewritten
<1>1. CASE Start \/ Reads \/ EditFile
  <2>1. ~Wrote' /\ phase' \notin Parts
      BY <1>1, NotYetWrote
  <2> QED BY <2>1 DEF TopsInv
<1>2. CASE Check
    BY <1>0, <1>2, CheckEnds DEF TopsInv, ControlInv, historyVars
<1>3. CASE WriteGroupFile
    BY <1>0, <1>3, WriteDoes DEF TopsInv, historyVars
<1>4. CASE PruneFile
    BY <1>0, <1>4, PruneDoes DEF TopsInv, historyVars, pullVars
<1>5. CASE RewriteTop
  <2>1. CASE phase = "points"
      BY <1>0, <1>5, <2>1, RewriteDoes DEF TopsInv, ControlInv, historyVars
  <2>2. CASE phase = "policies"
      BY <1>0, <1>5, <2>2, RewriteDoes DEF TopsInv, ControlInv, historyVars
  <2> QED BY <1>5, <2>1, <2>2, RewriteDoes
<1>6. CASE PhaseDone
    BY <1>0, <1>6, PhaseEnds DEF TopsInv, ControlInv, historyVars
<1>7. CASE Interrupt
  <2>1. /\ phase \in {"write", "prune"} \cup Parts /\ phase' = "idle" /\ result' = "interrupted"
        /\ UNCHANGED <<dir, before, request, tops>>
      BY <1>7 DEF Interrupt, End, historyVars
  <2>2. \E part \in Parts : \A other \in Parts \ {part} : dir[other] \in {before[other], Fresh(other)}
    <3>1. CASE phase = "policies"
        BY <1>0, <3>1 DEF TopsInv
    <3>2. CASE phase # "policies"
        BY <1>0, <2>1, <3>2 DEF TopsInv
    <3> QED BY <3>1, <3>2
  <2>3. ByRule => \A part \in Parts : dir[part] = before[part]
      BY <1>0, <2>1 DEF TopsInv
  <2> QED BY <2>1, <2>2, <2>3 DEF TopsInv
<1>8. CASE EditInGrafana \/ EditTopInGrafana \/ UNCHANGED vars
    BY <1>0, <1>8, DirStands DEF TopsInv, pullVars
<1> QED
    BY <1>1, <1>2, <1>3, <1>4, <1>5, <1>6, <1>7, <1>8 DEF Next, PullNext, Reads

-----------------------------------------------------------------------------
(* Under which names the files are                                         *)

LEMMA PlacesStep == IInv /\ [Next]_vars => PlacesInv'
<1> SUFFICES ASSUME IInv, [Next]_vars, OwnNamesApart PROVE Placed(dir') /\ Placed(before')
    BY DEF PlacesInv, OwnNamesApart, Placed
<1>0. TypeOK /\ Placed(dir) /\ Placed(before)
    BY DEF IInv, PlacesInv
<1>1. CASE Start
    BY <1>0, <1>1, StartDoes
<1>2. CASE Reads \/ Check \/ PhaseDone \/ Interrupt \/ EditInGrafana \/ EditTopInGrafana
           \/ UNCHANGED vars
  <2>1. UNCHANGED <<dir, before>>
      BY <1>2, ReadsDo, CheckEnds, PhaseEnds, DirStands DEF historyVars, Interrupt
  <2> QED BY <1>0, <2>1
<1>3. CASE WriteGroupFile
  <2>1. before' = before /\ fetched \subseteq GroupDoc
      BY <1>0, <1>3, WriteDoes DEF historyVars, TypeOK
  <2>2. PICK d \in fetched : \E doc \in {d, CutDoc} :
            /\ DOMAIN dir'.rules = DOMAIN dir.rules \cup {Entry(d)}
            /\ dir'.rules[Entry(d)].doc = doc
            /\ \A s \in DOMAIN dir.rules \ {Entry(d)} : dir'.rules[s] = dir.rules[s]
      BY <1>3, WriteDoes
  <2>3. Entry(d) = GroupEntry(d.group, Entry(d)[3])
      BY DEF Entry, GroupEntry
  <2> QED BY <1>0, <2>1, <2>2, <2>3 DEF Placed
<1>4. CASE PruneFile
  <2>1. before' = before /\ DOMAIN dir'.rules \subseteq DOMAIN dir.rules
        /\ \A s \in DOMAIN dir'.rules : dir'.rules[s] = dir.rules[s]
      BY <1>4, PruneDoes DEF historyVars
  <2> QED BY <1>0, <2>1 DEF Placed
<1>5. CASE RewriteTop
  <2>1. before' = before /\ dir'.rules = dir.rules
      BY <1>5, RewriteDoes DEF historyVars
  <2> QED BY <1>0, <2>1 DEF Placed
<1>6. CASE EditFile
    BY <1>0, <1>6, EditFileDoes, EditFileKeepsDir DEF historyVars, TypeOK
<1> QED
    BY <1>1, <1>2, <1>3, <1>4, <1>5, <1>6 DEF Next, PullNext, Reads

-----------------------------------------------------------------------------
(* The invariant holds                                                     *)

LEMMA InitHolds == Init => IInv
<1> SUFFICES ASSUME Init PROVE IInv
    OBVIOUS
<1>1. /\ dir = EmptyDir /\ before = dir /\ request \in Requests /\ phase = "idle" /\ result = "none"
      /\ todo = {} /\ holders = {} /\ fetched = {} /\ tops = org /\ stage = "ready" /\ open = {}
      /\ snap = [groups |-> groups, org |-> org]
      /\ groups = InitGroups /\ org = [points |-> 1, policies |-> 1] /\ pulls = 0 /\ edits = 0
    BY DEF Init
<1>2. IsDir(dir) /\ DOMAIN dir.rules = {}
  <2>1. DOMAIN <<>> = {}
      OBVIOUS
  <2>2. IsFiniteSet({})
      BY FS_EmptySet
  <2>3. dir = [rules |-> <<>>, points |-> <<>>, policies |-> <<>>]
      BY <1>1 DEF EmptyDir
  <2>4. dir.rules = <<>> /\ dir.points = <<>> /\ dir.policies = <<>>
      BY <2>3
  <2> QED BY <2>1, <2>2, <2>3, <2>4 DEF IsDir, Parts
<1>3. TypeOK
    BY <1>1, <1>2, GroupsAssumption, PullAssumption DEF TypeOK
<1>4. ControlInv /\ FetchInv
    BY <1>1 DEF ControlInv, FetchInv, Parts
<1>5. SnapInv
    BY <1>1 DEF SnapInv, Fetching, Fetched, Parts
<1>6. ChecksInv /\ FilesInv /\ TopsInv
    BY <1>1 DEF ChecksInv, FilesInv, TopsInv, Wrote, Parts
<1>7. PlacesInv
    BY <1>1, <1>2 DEF PlacesInv, Placed
<1> QED
    BY <1>3, <1>4, <1>5, <1>6, <1>7 DEF IInv

LEMMA StepKeeps == IInv /\ [Next]_vars => IInv'
    BY TypeStep, ControlStep, FetchStep, SnapStep, ChecksStep, FilesStep, TopsStep, PlacesStep
       DEF IInv

LEMMA Invariance == Spec => []IInv
    BY InitHolds, StepKeeps, PTL DEF Spec

\* Each state is what the module promises: see the parts of Inv.
LEMMA LocalWorkIsKept == IInv => LocalWorkKept
<1> SUFFICES ASSUME IInv, ByRule, phase # "idle" \/ result # "none"
             PROVE  /\ \A part \in Parts : dir[part] = before[part]
                    /\ \A s \in DOMAIN before.rules :
                          LET old == before.rules[s].doc
                              new == dir.rules[s].doc
                          IN  /\ s \in DOMAIN dir.rules
                              /\ \/ new = old
                                 \/ /\ new = CutDoc /\ result # "ok"
                                    /\ \E d \in fetched : d.group = old.group /\ s = GroupEntry(d.group, request.ext)
                                 \/ /\ new.group = old.group
                                    /\ new.group \in holders
                                    /\ request.overwrite
                                       \/ Others(new, request.uids) = Others(old, request.uids)
    BY DEF IInv, ControlInv, LocalWorkKept
<1>0. TypeOK /\ ControlInv /\ ChecksInv /\ FilesInv /\ TopsInv
    BY DEF IInv
<1>1. CASE ~Wrote
  <2>1. dir = before
      BY <1>0, <1>1 DEF Wrote, ControlInv, TypeOK
  <2> QED BY <2>1
<1>2. CASE Wrote
  <2>1. \A part \in Parts : dir[part] = before[part]
      BY <1>0, <1>2 DEF TopsInv
  <2>2. ASSUME NEW s \in DOMAIN before.rules, s \notin {Entry(d) : d \in fetched}
        PROVE  s \in DOMAIN dir.rules /\ dir.rules[s].doc = before.rules[s].doc
      BY <1>0, <1>2, <2>2 DEF FilesInv, Same, Pruned
  <2>3. ASSUME NEW s \in DOMAIN before.rules, NEW d \in fetched, s = Entry(d)
        PROVE  /\ s \in DOMAIN dir.rules
               /\ \/ dir.rules[s].doc = before.rules[s].doc
                  \/ /\ dir.rules[s].doc = CutDoc /\ result # "ok"
                     /\ d.group = before.rules[s].doc.group
                  \/ /\ dir.rules[s].doc.group = before.rules[s].doc.group
                     /\ dir.rules[s].doc.group \in holders
                     /\ request.overwrite
                        \/ Others(dir.rules[s].doc, request.uids) =
                              Others(before.rules[s].doc, request.uids)
    <3>1. CASE d \in todo
        BY <1>0, <1>2, <2>3, <3>1 DEF FilesInv, Same
    <3>2. CASE d \notin todo
      <4>1. /\ s \in DOMAIN dir.rules /\ dir.rules[s].doc \in {d, CutDoc}
            /\ dir.rules[s].doc = CutDoc => open = {d} \/ result = "interrupted"
          BY <1>0, <1>2, <2>3, <3>2 DEF FilesInv
      <4>2. dir.rules[s].doc = CutDoc => result # "ok"
          BY <1>0, <4>1 DEF ControlInv, Parts
      <4>3. s \in RuleGroupFiles(before, d.group)
          BY <1>0, <2>3, ExtIs DEF RuleGroupFiles, Entry
      <4>4. /\ before.rules[s].doc.group = d.group
            /\ request.overwrite
               \/ Others(before.rules[s].doc, request.uids) = Others(d, request.uids)
          BY <1>0, <1>2, <4>3 DEF ChecksInv, Refuses
      <4>5. d.group \in holders
          BY <1>0 DEF TypeOK
      <4> QED BY <4>1, <4>2, <4>4, <4>5
    <3> QED BY <3>1, <3>2
  <2> QED BY <2>1, <2>2, <2>3 DEF Entry
<1> QED
    BY <1>1, <1>2

\* THEOREM Inv: types, the inductive parts, and what a pull that is refused, cannot
\* fetch or names its rules leaves alone, for any folders, titles, requests, rules
\* and number of pulls and edits.
THEOREM PullIsSound == Spec => []Inv
<1>1. IInv => Inv
    BY LocalWorkIsKept DEF IInv, Inv
<1> QED
    BY <1>1, Invariance, PTL

-----------------------------------------------------------------------------
(* What a pull leaves                                                      *)

LEMMA AtMostOne ==
    ASSUME NEW S, \A x, y \in S : x = y
    PROVE  Cardinality(S) <= 1
<1>1. CASE S = {}
    BY <1>1, FS_EmptySet
<1>2. CASE S # {}
  <2>1. PICK x : S = {x}
      BY <1>2
  <2> QED BY <2>1, FS_Singleton
<1> QED
    BY <1>1, <1>2

LEMMA SameSize ==
    ASSUME NEW S, IsFiniteSet(S), NEW f, \A x, y \in S : f[x] = f[y] => x = y
    PROVE  Cardinality(S) = Cardinality({f[x] : x \in S})
<1> DEFINE T == {f[x] : x \in S}
           F == [x \in S |-> f[x]]
<1>1. F \in Bijection(S, T)
    BY DEF Bijection, Injection, Surjection, IsInjective
<1> QED
    BY <1>1, FS_Bijection DEF ExistsBijection

\* What was asked for is what was fetched, if nobody changed Grafana.
LEMMA FetchedIsSnapshot ==
    ASSUME IInv, result = "ok", ~disturbed
    PROVE  /\ ~ByRule => fetched = Snapshot({g \in DOMAIN snap.groups : InFolders(g)})
           /\ ByRule => Snapshot({g \in DOMAIN snap.groups :
                            \E r \in snap.groups[g] : r.uid \in request.uids}) \subseteq fetched
<1>1. /\ snap.groups = groups /\ fetched \subseteq GroupDoc
      /\ \A d \in fetched : d.group \in holders /\ d.group \in DOMAIN groups /\ d.rules = groups[d.group]
      /\ \A g \in holders : \E d \in fetched : d.group = g
      /\ IF ByRule THEN \A u \in request.uids : Holding(u) \subseteq holders
                   ELSE holders = {g \in DOMAIN groups : InFolders(g)}
    BY DEF IInv, SnapInv, Fetched, TypeOK
<1>2. \A d \in fetched : d = [group |-> d.group, rules |-> groups[d.group]]
    BY <1>1, GroupDocs
<1>3. Snapshot(holders) \subseteq fetched /\ fetched \subseteq Snapshot(holders)
    BY <1>1, <1>2 DEF Snapshot
<1>4. CASE ByRule
  <2>1. {g \in DOMAIN groups : \E r \in groups[g] : r.uid \in request.uids} \subseteq holders
      BY <1>1, <1>4 DEF Holding
  <2> QED BY <1>1, <1>3, <1>4, <2>1 DEF Snapshot
<1>5. CASE ~ByRule
    BY <1>1, <1>3, <1>5
<1> QED
    BY <1>4, <1>5

\* All files of a pull that succeeded hold what was fetched.
LEMMA AllWritten ==
    ASSUME IInv, result = "ok"
    PROVE  \A d \in fetched : Entry(d) \in DOMAIN dir.rules /\ dir.rules[Entry(d)].doc = d
<1>1. todo = {} /\ open = {} /\ Wrote
    BY DEF IInv, ControlInv, ChecksInv, Wrote, Parts
<1> QED
    BY <1>1 DEF IInv, FilesInv

\* After a pull of whole folders these hold the fetched groups and nothing else, one
\* file for each; other folders are as they were.
LEMMA FoldersAreFetched ==
    ASSUME IInv, result = "ok", ~ByRule
    PROVE  /\ DOMAIN dir.rules \ Outside(dir) = {Entry(d) : d \in fetched}
           /\ Outside(dir) = Outside(before)
           /\ \A s \in Outside(dir) : dir.rules[s] = before.rules[s]
<1>0. /\ TypeOK /\ Wrote /\ IsDir(dir) /\ IsDir(before)
      /\ FetchInv /\ FilesInv
    BY DEF IInv, TypeOK, Wrote
<1>1. \A d \in fetched : Entry(d) \in DOMAIN dir.rules /\ InFolders(Entry(d))
  <2>1. \A d \in fetched : Entry(d)[1] = d.group[1] /\ InFolders(d.group)
      BY <1>0 DEF TypeOK, FetchInv, Entry, GroupEntry
  <2> QED BY <2>1, AllWritten DEF InFolders
<1>2. Prunable(dir, PrunedFolders, fetched, request.ext) = {}
    BY <1>0 DEF FilesInv
<1>3. \A s \in DOMAIN dir.rules : InFolders(s) => s \in {Entry(d) : d \in fetched}
  <2>1. \A s \in DOMAIN dir.rules : s[1] \in Folders
      BY <1>0 DEF IsDir
  <2> QED BY <1>2, <2>1 DEF Prunable, PrunedFolders, InFolders, Entry
<1>4. \A s : ~InFolders(s) /\ s \in DOMAIN dir.rules \cup DOMAIN before.rules => Same(s)
  <2>1. \A s : ~InFolders(s) => s \notin {Entry(d) : d \in fetched} /\ ~Pruned(s)
      BY <1>1 DEF Pruned
  <2> QED BY <1>0, <2>1 DEF FilesInv
<1> QED
    BY <1>1, <1>3, <1>4 DEF Outside, Same

\* THEOREM PullIsSnapshot: a pull that succeeds, on whatever directory, leaves in its
\* part of it what Grafana held when it began, once each and readable, and nothing
\* of the rest changed.
THEOREM SnapshotIsLeft == Spec => []PullIsSnapshot
<1>1. IInv => PullIsSnapshot
  <2> SUFFICES ASSUME IInv, result = "ok", ~disturbed PROVE PullIsSnapshot
      BY DEF PullIsSnapshot
  <2>1. CASE ByRule
    <3>1. \A d \in Snapshot({g \in DOMAIN snap.groups :
                             \E r \in snap.groups[g] : r.uid \in request.uids}) :
             Entry(d) \in DOMAIN dir.rules /\ dir.rules[Entry(d)].doc = d
        BY <2>1, FetchedIsSnapshot, AllWritten
    <3> QED BY <2>1, <3>1 DEF PullIsSnapshot, Entry
  <2>2. CASE ~ByRule
    <3> DEFINE inside == DOMAIN dir.rules \ Outside(dir)
               docs == {dir.rules[s].doc : s \in inside}
    <3>0. /\ Wrote /\ TypeOK /\ TopsInv /\ SnapInv /\ request.ext \in Exts
          /\ IsDir(dir) /\ IsGroups(groups) /\ fetched \subseteq GroupDoc
        BY ExtIs DEF IInv, Wrote, TypeOK
    <3>1. inside = {Entry(d) : d \in fetched}
        BY <2>2, FoldersAreFetched
    <3>2. \A d \in fetched : dir.rules[Entry(d)].doc = d
        BY AllWritten
    <3>3. docs = fetched
        BY <3>1, <3>2
    <3>4. docs = Snapshot({g \in DOMAIN snap.groups : InFolders(g)})
        BY <2>2, <3>3, FetchedIsSnapshot
    <3>5. Cardinality(inside) = Cardinality(docs)
      <4> DEFINE f == [s \in inside |-> dir.rules[s].doc]
      <4>1. IsFiniteSet(inside)
          BY <3>0, FS_Subset DEF IsDir
      <4>2. \A s, t \in inside : f[s] = f[t] => s = t
          BY <3>1, <3>2
      <4>3. docs = {f[s] : s \in inside}
          OBVIOUS
      <4> HIDE DEF f, docs, inside
      <4> QED BY <4>1, <4>2, <4>3, SameSize
    <3>6. \A part \in Parts : dir[part] = Only(request.ext, snap.org[part])
        BY <2>2, <3>0 DEF TopsInv, SnapInv, Fresh, Fetched
    <3>7. ASSUME Outside(dir) = {} PROVE Readable(dir)
      <4>1. DOMAIN dir.rules = {Entry(d) : d \in fetched}
          BY <3>1, <3>7
      <4>2. \A s \in DOMAIN dir.rules : dir.rules[s].doc # CutDoc
          BY <3>0, <3>2, <4>1, CutIsNoGroup
      <4>3. \A d, e \in fetched : d # e => d.group # e.group
          BY DEF IInv, FetchInv
      <4>4. \A d, e \in fetched : d # e => UidsIn(d) \cap UidsIn(e) = {}
        <5>1. \A d \in fetched : d.group \in DOMAIN groups /\ d.rules = groups[d.group]
            BY <3>0 DEF SnapInv
        <5> QED BY <3>0, <4>3, <5>1 DEF UidsIn, IsGroups
      <4>5. \A s, t \in DOMAIN dir.rules : s # t =>
              /\ dir.rules[s].doc.group # dir.rules[t].doc.group
              /\ UidsIn(dir.rules[s].doc) \cap UidsIn(dir.rules[t].doc) = {}
          BY <3>2, <4>1, <4>3, <4>4
      <4>6. ASSUME NEW part \in Parts
            PROVE  /\ Cardinality(DOMAIN dir[part]) <= 1
                   /\ \A ext \in DOMAIN dir[part] : ext = "json" => dir[part][ext] # CutTop
        <5>1. dir[part] = Only(request.ext, tops[part]) /\ tops[part] # 0
            BY <2>2, <3>0 DEF TopsInv, Fresh, TypeOK, Parts
        <5>2. DOMAIN dir[part] = {request.ext} /\ dir[part][request.ext] = tops[part]
            BY <5>1 DEF Only
        <5>3. Cardinality({request.ext}) = 1
            BY FS_Singleton
        <5> QED BY <5>1, <5>2, <5>3 DEF CutTop
      <4> QED BY <4>2, <4>5, <4>6 DEF Readable
    <3>8. /\ Outside(dir) = Outside(before)
          /\ \A s \in Outside(dir) : dir.rules[s] = before.rules[s]
        BY <2>2, FoldersAreFetched
    <3> QED BY <2>2, <3>4, <3>5, <3>6, <3>7, <3>8 DEF PullIsSnapshot
  <2> QED BY <2>1, <2>2
<1> QED
    BY <1>1, Invariance, PTL

-----------------------------------------------------------------------------
(* Nothing vanishes                                                        *)

\* A fetched group's file is another's only if a user named it so.
LEMMA FileOfAnother ==
    ASSUME IInv, OwnNamesApart, NEW s \in DOMAIN before.rules, before.rules[s].doc # CutDoc,
           NEW e \in fetched, s = Entry(e)
    PROVE  \A d \in fetched : d.group = before.rules[s].doc.group /\ Wrote => d = e
<1> DEFINE old == before.rules[s].doc
<1>1. e.group \in GroupIds /\ e.group[2] \in Titles
    BY GroupDocs DEF IInv, TypeOK, GroupIds
<1>2. s[2] = Fold[e.group[2]] /\ s[3] = request.ext
    BY DEF Entry, GroupEntry
<1>3. s = GroupEntry(old.group, request.ext)
    BY <1>1, <1>2 DEF IInv, PlacesInv, Placed
<1> QED
    BY <1>3, EntriesDiffer DEF Entry

\* Of each file that the pull replaces, the old or the new version is there, or it is
\* the one being written.
LEMMA VersionsStay ==
    ASSUME IInv, OwnNamesApart, Readable(before), Wrote, NEW s \in DOMAIN before.rules,
           \/ \E d \in fetched : d.group = before.rules[s].doc.group
           \/ ByRule \/ ~InFolders(s)
    PROVE  LET old == before.rules[s].doc
               fresh == {d \in fetched : d.group = old.group}
           IN  \/ Docs(dir) \cap ({old} \cup fresh) # {}
               \/ \E t \in DOMAIN dir.rules :
                     t = GroupEntry(old.group, request.ext) /\ dir.rules[t].doc = CutDoc
<1> DEFINE old == before.rules[s].doc
<1>0. /\ TypeOK /\ ControlInv /\ FetchInv /\ ChecksInv /\ FilesInv /\ IsDir(before)
      /\ fetched \subseteq GroupDoc /\ request.ext \in Exts
    BY ExtIs DEF IInv, TypeOK
<1>1. old # CutDoc
    BY DEF Readable
<1>2. Same(s) => old \in Docs(dir)
    BY DEF Same, Docs
<1>3. CASE \E d \in fetched : d.group = old.group
  <2>1. PICK d \in fetched : d.group = old.group
      BY <1>3
  <2>2. CASE d \in todo
    <3>1. ~Pruned(s)
        BY <2>2 DEF Pruned
    <3>2. ASSUME NEW e \in fetched, s = Entry(e) PROVE Same(s)
      <4>1. d = e
          BY <1>1, <2>1, <3>2, FileOfAnother
      <4> QED BY <1>0, <2>2, <3>2, <4>1 DEF FilesInv
    <3>3. Same(s)
        BY <1>0, <3>1, <3>2 DEF FilesInv
    <3> QED BY <1>2, <3>3
  <2>3. CASE d \notin todo
    <3>1. Entry(d) \in DOMAIN dir.rules /\ dir.rules[Entry(d)].doc \in {d, CutDoc}
        BY <1>0, <2>3 DEF FilesInv
    <3>2. Entry(d) = GroupEntry(old.group, request.ext)
        BY <2>1 DEF Entry
    <3> QED BY <2>1, <3>1, <3>2 DEF Docs
  <2> QED BY <2>2, <2>3
<1>4. CASE (ByRule \/ ~InFolders(s)) /\ ~\E d \in fetched : d.group = old.group
  <2>1. s \notin {Entry(d) : d \in fetched}
    <3>1. SUFFICES ASSUME NEW d \in fetched, s = Entry(d) PROVE FALSE
        OBVIOUS
    <3>2. CASE ByRule
      <4>1. s \in RuleGroupFiles(before, d.group)
          BY <1>0, <3>1 DEF RuleGroupFiles, Entry
      <4>2. old.group = d.group
          BY <1>0, <3>2, <4>1 DEF ChecksInv, Refuses
      <4> QED BY <1>4, <4>2
    <3>3. CASE ~ByRule
      <4>1. InFolders(d.group)
          BY <1>0, <3>3 DEF FetchInv, TypeOK
      <4>2. s[1] = d.group[1]
          BY <3>1 DEF Entry, GroupEntry
      <4> QED BY <1>4, <3>3, <4>1, <4>2 DEF InFolders
    <3> QED BY <3>2, <3>3
  <2>2. Same(s)
      BY <1>0, <1>4, <2>1 DEF FilesInv, Pruned
  <2> QED BY <1>2, <2>2
<1> QED
    BY <1>3, <1>4

\* Of a readable bundle one file at most is half-written.
LEMMA OneIsCut ==
    ASSUME IInv, Readable(before), Wrote
    PROVE  Cardinality({s \in DOMAIN dir.rules : dir.rules[s].doc = CutDoc}) <= 1
<1>1. \A s \in DOMAIN dir.rules : Same(s) => dir.rules[s].doc # CutDoc
    BY DEF Same, Readable
<1>2. ASSUME NEW s \in DOMAIN dir.rules, dir.rules[s].doc = CutDoc
      PROVE  \E d \in fetched \ todo : s = Entry(d)
    BY <1>1, <1>2 DEF IInv, FilesInv, Pruned
<1>3. \A s, t \in {u \in DOMAIN dir.rules : dir.rules[u].doc = CutDoc} : s = t
    BY <1>2 DEF IInv, FilesInv
<1> QED
    BY <1>3, AtMostOne

\* Of the two top-level files one at most is missing or half-written.
LEMMA OnePartIsLacking ==
    ASSUME IInv, Wrote, Lacking(before) = {}
    PROVE  Cardinality(Lacking(dir)) <= 1
<1>0. TypeOK /\ ControlInv /\ TopsInv /\ Parts = {"points", "policies"}
    BY DEF IInv, Parts
<1>1. \A part \in Parts : before[part] # <<>> /\ CutTop \notin Range(before[part])
    BY DEF Lacking
<1>2. \A part \in Parts : Fresh(part) # <<>> /\ CutTop \notin Range(Fresh(part))
  <2> TAKE part \in Parts
  <2>1. tops[part] # CutTop
      BY <1>0 DEF TypeOK, CutTop
  <2>2. DOMAIN Fresh(part) = {request.ext} /\ Fresh(part)[request.ext] = tops[part]
      BY DEF Fresh, Only
  <2>3. DOMAIN Fresh(part) # DOMAIN <<>>
      BY <2>2
  <2> QED BY <2>1, <2>2, <2>3 DEF Range
<1>3. \E part \in Parts : \A other \in Parts \ {part} : dir[other] \in {before[other], Fresh(other)}
  <2>1. CASE phase = "points"
      BY <1>0, <2>1 DEF TopsInv
  <2>2. CASE phase = "policies"
      BY <1>0, <2>2 DEF TopsInv
  <2>3. CASE phase \notin Parts
    <3>1. CASE result = "interrupted"
        BY <1>0, <3>1 DEF TopsInv
    <3>2. CASE result # "interrupted"
        BY <1>0, <2>3, <3>2 DEF TopsInv, Wrote
    <3> QED BY <3>1, <3>2
  <2> QED BY <1>0, <2>1, <2>2, <2>3
<1>4. PICK part \in Parts : \A other \in Parts \ {part} : dir[other] \in {before[other], Fresh(other)}
    BY <1>3
<1>5. Lacking(dir) \subseteq {part}
    BY <1>1, <1>2, <1>4 DEF Lacking
<1>6. \A x, y \in Lacking(dir) : x = y
    BY <1>5
<1> QED
    BY <1>6, AtMostOne

\* THEOREM NothingVanishes: as long as no user gives a file the name of another group,
\* a pull that rewrites a readable bundle, and wherever it is cut short, leaves of
\* each group and each part the old or the new version, but for one.
THEOREM NothingIsLost == OwnNamesApart => (Spec => []NothingVanishes)
<1> SUFFICES ASSUME OwnNamesApart PROVE Spec => []NothingVanishes
    OBVIOUS
<1>1. ASSUME IInv PROVE NothingVanishes
  <2> SUFFICES ASSUME Readable(before), phase # "idle" \/ result # "none"
               PROVE  NothingVanishes
      BY DEF NothingVanishes
  <2>1. CASE ~Wrote
    <3>1. dir = before
        BY <1>1, <2>1 DEF IInv, TypeOK, ControlInv, Wrote
    <3>2. {s \in DOMAIN dir.rules : dir.rules[s].doc = CutDoc} = {}
        BY <3>1 DEF Readable
    <3>3. Cardinality({}) = 0
        BY FS_EmptySet
    <3>4. \A s \in DOMAIN before.rules : before.rules[s].doc \in Docs(dir)
        BY <3>1 DEF Docs
    <3>5. Cardinality({s \in DOMAIN dir.rules : dir.rules[s].doc = CutDoc}) <= 1
        BY <3>2, <3>3
    <3>6. Lacking(before) = {} => Cardinality(Lacking(dir)) <= 1
        BY <3>1, <3>3
    <3> QED BY <3>4, <3>5, <3>6 DEF NothingVanishes
  <2>2. CASE Wrote
    <3>1. Cardinality({s \in DOMAIN dir.rules : dir.rules[s].doc = CutDoc}) <= 1
        BY <1>1, <2>2, OneIsCut
    <3>2. Lacking(before) = {} => Cardinality(Lacking(dir)) <= 1
        BY <1>1, <2>2, OnePartIsLacking
    <3>3. \A s \in DOMAIN before.rules :
            LET old == before.rules[s].doc
                fresh == {d \in fetched : d.group = old.group}
            IN  fresh # {} \/ ByRule \/ ~InFolders(s) =>
                  \/ Docs(dir) \cap ({old} \cup fresh) # {}
                  \/ \E t \in DOMAIN dir.rules :
                        t = GroupEntry(old.group, request.ext) /\ dir.rules[t].doc = CutDoc
        BY <1>1, <2>2, VersionsStay, Zenon
    <3> QED BY <3>1, <3>2, <3>3 DEF NothingVanishes
  <2> QED BY <2>1, <2>2
<1> QED
    BY <1>1, Invariance, PTL

=============================================================================
