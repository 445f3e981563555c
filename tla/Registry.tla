------------------------------ MODULE Registry ------------------------------
(* What a resource selector stands for: discovery of the server's API       *)
(* groups and resources, the index of their names, and the filters made of  *)
(* the selectors of a command line (internal/resources/discovery,           *)
(* internal/resources/{selector,filter,descriptor}.go).                     *)
(*                                                                          *)
(* A discovery response d holds two sequences, in the order of the answer:  *)
(*   d.groups    : [name, short, preferred, versions]                       *)
(*   d.resources : [group, version, kind, singular, plural, usable]         *)
(* usable: namespaced and not a subresource.  A selector is                 *)
(*   [resource, group, version, uids], with "" for a part not given.        *)
EXTENDS Naturals, Sequences, FiniteSets, SequencesExt

CONSTANT IgnoredGroups          \* ignoredResourceGroups

(* What is left of a response keeps its place in the answer.                *)
FilterDiscoveryResults(d) ==
    [groups |-> Restrict(d.groups, {i \in DOMAIN d.groups :
                    d.groups[i].name \notin IgnoredGroups}),
     resources |-> Restrict(d.resources, {i \in DOMAIN d.resources :
                    d.resources[i].group \notin IgnoredGroups /\ d.resources[i].usable})]

(* Update fails on a group version listed twice, or on a resource of a      *)
(* version no group lists.  A group holds its versions as a set here, so    *)
(* the first is a group listed twice with a version in common.              *)
UpdateFails(d) ==
    \/ \E i, j \in DOMAIN d.groups :
         /\ i # j /\ d.groups[i].name = d.groups[j].name
         /\ d.groups[i].versions \cap d.groups[j].versions # {}
    \/ \E r \in ToSet(d.resources) :
         ~\E g \in ToSet(d.groups) : g.name = r.group /\ r.version \in g.versions

(* Of groups with one name, the last to state a preferred version wins.     *)
Preferred(d, group) ==
    {d.groups[i].preferred : i \in {j \in DOMAIN d.groups :
        /\ d.groups[j].name = group /\ d.groups[j].preferred # ""
        /\ \A k \in DOMAIN d.groups :
             k > j => d.groups[k].name # group \/ d.groups[k].preferred = ""}}

PreferredResources(d) ==
    {r \in ToSet(d.resources) : r.version \in Preferred(d, r.group)}

(* getKindCandidates: by kind, else by singular, else by plural.            *)
KindCandidates(d, name) ==
    LET by(part) == {i \in DOMAIN d.resources : d.resources[i][part] = name} IN
    IF by("kind") # {} THEN by("kind")
    ELSE IF by("singular") # {} THEN by("singular") ELSE by("plural")

(* The first of the resources at some places of the answer.                 *)
FirstAt(d, places) == {d.resources[i] : i \in {j \in places : \A k \in places : j <= k}}
InGroup(d, places, group) == {i \in places : d.resources[i].group = group}

LongGroup(d, group) == {g.name : g \in {h \in ToSet(d.groups) : h.name = group}}
ShortGroup(d, group) ==
    {d.groups[i].name : i \in {j \in DOMAIN d.groups :
        /\ d.groups[j].short = group
        /\ \A k \in DOMAIN d.groups : k > j => d.groups[k].short # group}}

(* filterCandidates: a full group name before a short one, and without a    *)
(* group that of the first candidate, whatever its versions.                *)
CandidateGroup(d, candidates, group) ==
    IF group = "" THEN {r.group : r \in FirstAt(d, candidates)}
    ELSE IF LongGroup(d, group) # {} THEN LongGroup(d, group) ELSE ShortGroup(d, group)

OfType(d, group, kind, version) ==
    FirstAt(d, {i \in InGroup(d, DOMAIN d.resources, group) :
        d.resources[i].kind = kind /\ d.resources[i].version = version})

LookupPartialGVK(d, s) ==
    LET candidates == KindCandidates(d, s.resource) IN
    {r \in ToSet(d.resources) : \E g \in CandidateGroup(d, candidates, s.group) :
        \E v \in IF s.version # "" THEN {s.version} ELSE Preferred(d, g) :
            \E c \in FirstAt(d, InGroup(d, candidates, g)) : r \in OfType(d, g, c.kind, v)}

(* filterAllCandidates: here a short group name comes before a full one.    *)
TargetGroups(d, candidates, group) ==
    IF group = "" THEN {d.resources[i].group : i \in candidates}
    ELSE IF ShortGroup(d, group) # {} THEN ShortGroup(d, group) ELSE LongGroup(d, group)

LookupAllVersions(d, s) ==
    LET candidates == KindCandidates(d, s.resource) IN
    IF s.version # "" THEN LookupPartialGVK(d, s)
    ELSE {r \in ToSet(d.resources) : \E g \in TargetGroups(d, candidates, s.group) :
             \E c \in FirstAt(d, InGroup(d, candidates, g)) :
                 r \in OfType(d, g, c.kind, r.version)}

-----------------------------------------------------------------------------
(* Filters: a descriptor and the uids asked for, none meaning all.          *)

LookupFor(d, s, preferredVersionOnly) ==
    IF preferredVersionOnly THEN LookupPartialGVK(d, s) ELSE LookupAllVersions(d, s)

NothingSupported(d, sels, preferredVersionOnly) ==
    \E s \in ToSet(sels) : LookupFor(d, s, preferredVersionOnly) = {}

Filter(r, uids) == [group |-> r.group, version |-> r.version, kind |-> r.kind, uids |-> uids]

MakeFilters(d, sels, preferredVersionOnly) ==
    FlattenSeq([i \in DOMAIN sels |->
        SetToSeq({Filter(r, sels[i].uids) : r \in LookupFor(d, sels[i], preferredVersionOnly)})])

Matches(f, o) ==
    /\ f.group = o.group /\ f.version = o.version /\ f.kind = o.kind
    /\ f.uids = {} \/ o.name \in f.uids

(* Filters.Matches: no filters match everything.                            *)
MatchesAny(filters, o) == filters = <<>> \/ \E f \in ToSet(filters) : Matches(f, o)

HasNamedSelectorsOnly(sels) == sels # <<>> /\ \A s \in ToSet(sels) : s.uids # {}

IsSingleTarget(sels) == Len(sels) = 1 /\ Cardinality(sels[1].uids) = 1

-----------------------------------------------------------------------------
(* What a selector says, name by name: the reference for the lookups.       *)
Names(d, s, r) ==
    /\ s.resource \in {r.kind, r.singular, r.plural}
    /\ s.version \in {"", r.version}
    /\ s.group = "" \/ \E g \in ToSet(d.groups) :
                          g.name = r.group /\ s.group \in {g.name, g.short}
=============================================================================
