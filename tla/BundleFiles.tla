----------------------------- MODULE BundleFiles -----------------------------
(***************************************************************************)
(* The directory of an alerting bundle: what its files are, how they are   *)
(* read back, and which of them a pull may write and remove                *)
(* (internal/alerts/files.go).                                             *)
(*                                                                         *)
(* A directory is [rules, points, policies]. rules maps the entries that   *)
(* exist, <<folder, folded name, extension>>, to [name, doc]: the file     *)
(* system keeps the spelling an entry was created with. A doc is           *)
(* [group, rules], the group <<folder, title>> that the file declares and  *)
(* a set of [uid, val]. points and policies map extensions to contents.    *)
(***************************************************************************)
EXTENDS Naturals, FiniteSets, Functions

CONSTANTS
    Exts,   \* the extensions of bundle files
    Fold    \* titles and file names, to what the file system tells apart

\* What a write that stopped half-way leaves. The title is the last key of a
\* group file, so such a file declares no group; no decoder takes half a JSON.
CutDoc == [group |-> <<"", "">>, rules |-> {}]
CutTop == 0

\* The function that is y at x and otherwise f; the one that is y at x only.
With(f, x, y) == [z \in DOMAIN f \cup {x} |-> IF z = x THEN y ELSE f[z]]
Only(x, y) == [z \in {x} |-> y]

Parts == {"points", "policies"}
EmptyDir == [rules |-> <<>>, points |-> <<>>, policies |-> <<>>]

UidsIn(doc) == {r.uid : r \in doc.rules}
Docs(dir) == {dir.rules[s].doc : s \in DOMAIN dir.rules}

GroupEntry(group, ext) == <<group[1], Fold[group[2]], ext>>

\* ReadBundle accepts the directory.
Readable(dir) ==
    /\ \A s \in DOMAIN dir.rules : dir.rules[s].doc # CutDoc
    /\ \A s, t \in DOMAIN dir.rules : s # t =>
          /\ dir.rules[s].doc.group # dir.rules[t].doc.group
          /\ UidsIn(dir.rules[s].doc) \cap UidsIn(dir.rules[t].doc) = {}
    /\ \A part \in Parts :
          /\ Cardinality(DOMAIN dir[part]) <= 1
          /\ \A ext \in DOMAIN dir[part] : ext = "json" => dir[part][ext] # CutTop

-----------------------------------------------------------------------------
(* What may be written                                                     *)

\* Two of the groups would share a file.
Collide(docs, ext) ==
    \E d, e \in docs : d # e /\ GroupEntry(d.group, ext) = GroupEntry(e.group, ext)

\* The files that stand for a group, whatever their extension.
RuleGroupFiles(dir, group) ==
    {s \in DOMAIN dir.rules : \E ext \in Exts : s = GroupEntry(group, ext)}

Others(doc, uids) == {r \in doc.rules : r.uid \notin uids}

RefusesUncompared(dir, doc, ext, uids, overwrite) ==
    \E s \in RuleGroupFiles(dir, doc.group) :
        LET existing == dir.rules[s].doc
        IN  \/ existing = CutDoc
            \/ existing.group # doc.group
            \/ s[3] # ext

\* WriteRuleGroups refuses to replace a file by doc.
Refuses(dir, doc, ext, uids, overwrite) ==
    \E s \in RuleGroupFiles(dir, doc.group) :
        LET existing == dir.rules[s].doc
        IN  \/ existing = CutDoc
            \/ existing.group # doc.group
            \/ s[3] # ext
            \/ Others(existing, uids) # Others(doc, uids) /\ ~overwrite

-----------------------------------------------------------------------------
(* Writing and removing                                                    *)

\* The content of the file for group becomes doc. An entry keeps its spelling.
WriteGroup(dir, group, ext, doc) ==
    LET s == GroupEntry(group, ext)
        name == IF s \in DOMAIN dir.rules THEN dir.rules[s].name ELSE group[2]
    IN  [dir EXCEPT !.rules = With(@, s, [name |-> name, doc |-> doc])]

PrunableBySpelling(dir, folders, docs, ext) ==
    {s \in DOMAIN dir.rules :
        s[1] \in folders /\ <<s[1], dir.rules[s].name, s[3]>> \notin {<<d.group[1], d.group[2], ext>> : d \in docs}}

\* The files in folders that the current write did not produce.
Prunable(dir, folders, docs, ext) ==
    {s \in DOMAIN dir.rules :
        s[1] \in folders /\ s \notin {GroupEntry(d.group, ext) : d \in docs}}

RemoveFile(dir, s) ==
    [dir EXCEPT !.rules = Restrict(@, DOMAIN @ \ {s})]

\* writeTopLevelFile: every extension is removed before one is written.
RemoveTop(dir, part) == [dir EXCEPT ![part] = <<>>]
WriteTop(dir, part, ext, content) == [dir EXCEPT ![part] = Only(ext, content)]

=============================================================================
