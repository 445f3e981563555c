------------------------------- MODULE Pusher -------------------------------
(***************************************************************************)
(* Pusher.Push (internal/resources/remote/pusher.go): folders level by     *)
(* level (folder_hierarchy.go), then everything else, each group by        *)
(* ForEachConcurrently. Other users change the same objects of Grafana     *)
(* meanwhile. An object of Grafana is known by its kind and uid, a resource*)
(* of the collection by its reference, which has more parts (see FSReader).*)
(*                                                                         *)
(* Grafana refuses a folder whose parent does not exist, the creation of an*)
(* object that exists and the update of a version that is not the latest.  *)
(***************************************************************************)
EXTENDS Naturals, Sequences, FiniteSets

CONSTANTS
    NoParent,         \* the folder of a top level folder
    MaxConcurrency,   \* how many resources are pushed at a time
    Faults,           \* "process": a processor fails; "request": a request fails,
                      \*   with or without effect
    MaxEdits          \* bound on the changes made by other users

VARIABLES
    request,       \* PushRequest: [stopOnError, dryRun, includeManaged], and
                   \*   supported: the <<kind, version>> that the API supports
    collection,    \* request.Resources: the objects by their reference
    phase,         \* "idle", "folders", "rest", "done"
    levels,        \* the folders still to push, by level
    group,         \* what the current ForEachConcurrently iterates over
    nodes,         \* the folders of the dependency graph, one per uid
    at,            \* at[r]: how far the callback for r is
    seen,          \* seen[r]: the version that Get answered, or 0
    cancelled,     \* the group's context is cancelled
    result,        \* what Push returned: "none", "nil" or "error"
    success,       \* summary.successCount
    failed,        \* summary.failedCount
    remote,        \* the objects of Grafana: version, or 0 if it does not exist
    author,        \* who wrote each: a reference, or Others
    edits,         \* how many changes other users have made
    faulty         \* history: a fault or another user's change happened

pusherVars == <<phase, levels, group, nodes, at, seen, cancelled, result,
                success, failed>>
vars == <<request, collection, pusherVars, remote, author, edits, faulty>>

Others == <<"others">>

Refs == DOMAIN collection
Uid(r) == r[3]
Key(r) == <<r[1], r[3]>>         \* the object of Grafana that r is pushed to
IsFolder(r) == r[1] = "Folder"
Parent(r) == collection[r].parent
Folders == {r \in Refs : IsFolder(r)}

-----------------------------------------------------------------------------
(* SortFoldersByDependency                                                 *)

\* The node that r hangs under, if the set ns of nodes has it.
ParentsIn(r, ns) == {p \in ns : Uid(p) = Parent(r)}

Roots(ns) == {r \in ns : ParentsIn(r, ns) = {}}

\* assignLevels. A folder on a cycle is at no depth.
FoldersAt(ns) ==
    LET depth[d \in 0..Cardinality(ns)] ==
            IF d = 0 THEN Roots(ns)
            ELSE {r \in ns : ParentsIn(r, ns) \cap depth[d - 1] # {}}
    IN  depth

\* buildFolderHierarchy keeps one folder per uid.
NodeSets ==
    {ns \in SUBSET Folders :
        \A r \in Folders : Cardinality({n \in ns : Uid(n) = Uid(r)}) = 1}

Sorted(ns) ==
    LET depth == FoldersAt(ns)
    IN  UNION {depth[d] : d \in DOMAIN depth} = ns

LevelsOf(ns) ==
    LET depth == FoldersAt(ns)
        used == {d \in DOMAIN depth : depth[d] # {}}
    IN  [k \in 1..Cardinality(used) |-> depth[k - 1]]

-----------------------------------------------------------------------------

Init ==
    /\ phase = "idle"
    /\ levels = <<>> /\ group = {} /\ nodes = {}
    /\ at = <<>> /\ seen = <<>>
    /\ cancelled = FALSE
    /\ result = "none"
    /\ success = 0 /\ failed = 0

World == <<remote, author, edits, faulty>>

Return(res) == phase' = "done" /\ result' = res

\* Push sorts the folders, which fails on a cycle before anything is pushed.
Start ==
    /\ phase = "idle"
    /\ at' = [r \in Refs |-> "waiting"]
    /\ seen' = [r \in Refs |-> 0]
    /\ \E ns \in NodeSets :
          /\ nodes' = ns
          /\ \/ /\ Sorted(ns)
                /\ phase' = "folders"
                /\ levels' = LevelsOf(ns)
                /\ UNCHANGED result
             \/ /\ ~Sorted(ns)
                /\ Return("error")
                /\ UNCHANGED levels
    /\ UNCHANGED <<request, collection, group, cancelled, success, failed,
                   World>>

Ended == {"pushed", "failed", "skipped"}
GroupStarted == \A r \in group : at[r] # "waiting"

GroupEnded == \A r \in group : at[r] \in Ended

\* g.Wait of a level returned nil: go on to the next.
PushLevel ==
    /\ phase = "folders" /\ GroupEnded /\ ~cancelled
    /\ levels # <<>>
    /\ group' = Head(levels)
    /\ levels' = Tail(levels)
    /\ UNCHANGED <<request, collection, phase, nodes, at, seen, cancelled,
                   result, success, failed, World>>

OneTooEarly ==
    /\ phase = "folders" /\ GroupEnded /\ ~cancelled
    /\ levels = <<>>
    /\ IF success + failed + 1 >= Cardinality(Refs)
       THEN Return("nil") /\ UNCHANGED group
       ELSE phase' = "rest" /\ group' = Refs \ Folders /\ UNCHANGED result
    /\ UNCHANGED <<request, collection, levels, nodes, at, seen, cancelled,
                   success, failed, World>>

\* Every level is done: push what is no folder, if there is anything left.
PushRest ==
    /\ phase = "folders" /\ GroupEnded /\ ~cancelled
    /\ levels = <<>>
    /\ IF success + failed >= Cardinality(Refs)
       THEN Return("nil") /\ UNCHANGED group
       ELSE phase' = "rest" /\ group' = Refs \ Folders /\ UNCHANGED result
    /\ UNCHANGED <<request, collection, levels, nodes, at, seen, cancelled,
                   success, failed, World>>

\* g.Wait returned an error, or nil for the last group.
Finish ==
    /\ phase \in {"folders", "rest"} /\ GroupEnded
    /\ cancelled \/ phase = "rest"
    /\ Return(IF cancelled THEN "error" ELSE "nil")
    /\ UNCHANGED <<request, collection, levels, group, nodes, at, seen,
                   cancelled, success, failed, World>>

-----------------------------------------------------------------------------
(* pushSingleResource and upsertResource                                   *)

InFlight == {r \in group : at[r] \notin Ended \cup {"waiting"}}

Goto(r, label) == at' = [at EXCEPT ![r] = label]

\* RecordFailure; with StopOnError the callback then returns the error.
Fail(r) ==
    /\ failed' = failed + 1
    /\ Goto(r, IF request.stopOnError THEN "returning" ELSE "failed")

\* A callback for r starts: unsupported, a processor's error, managed by
\* another tool, or on to upsertResource.
Begin(r) ==
    /\ r \in group /\ at[r] = "waiting"
    /\ Cardinality(InFlight) < MaxConcurrency
    /\ \/ /\ <<r[1], r[2]>> \notin request.supported
          /\ Fail(r)
          /\ UNCHANGED faulty
       \/ /\ <<r[1], r[2]>> \in request.supported
          /\ "process" \in Faults
          /\ Fail(r)
          /\ faulty' = TRUE
       \/ /\ <<r[1], r[2]>> \in request.supported
          /\ Goto(r, IF collection[r].foreign /\ ~request.includeManaged
                     THEN "skipped" ELSE "get")
          /\ UNCHANGED <<failed, faulty>>
    /\ UNCHANGED <<request, collection, phase, levels, group, nodes, seen,
                   cancelled, result, success, remote, author, edits>>

\* Any request of a cancelled context fails, and any may fail anyway.
RequestError(r) ==
    /\ at[r] \in {"get", "write", "sent"}
    /\ cancelled \/ "request" \in Faults
    /\ Fail(r)
    /\ faulty' = TRUE
    /\ UNCHANGED <<request, collection, phase, levels, group, nodes, seen,
                   cancelled, result, success, remote, author, edits>>

Get(r) ==
    /\ at[r] = "get" /\ ~cancelled
    /\ seen' = [seen EXCEPT ![r] = remote[Key(r)]]
    /\ Goto(r, "write")
    /\ UNCHANGED <<request, collection, phase, levels, group, nodes,
                   cancelled, result, success, failed, World>>

\* Update with the version that was read, or Create.
SendWrite(r) ==
    /\ at[r] = "write" /\ ~cancelled
    /\ Goto(r, "sent")
    /\ UNCHANGED <<request, collection, phase, levels, group, nodes, seen,
                   cancelled, result, success, failed, World>>

Unversioned(r) == remote[Key(r)]

\* The version that the write replaces: the one of the Get, none for Create.
Replaced(r) == seen[r]

\* What Grafana requires of a write of r.
Accepts(r) ==
    /\ remote[Key(r)] = Replaced(r)
    /\ \A p \in {Parent(r)} \ {NoParent} :
          IsFolder(r) => remote[<<"Folder", p>>] # 0

\* The write takes effect, unless it is a dry run. The answer is the caller's
\* success, unless it is lost.
Written(r) ==
    /\ at[r] = "sent" /\ Accepts(r)
    /\ IF request.dryRun
       THEN UNCHANGED <<remote, author>>
       ELSE /\ remote' = [remote EXCEPT ![Key(r)] = @ + 1]
            /\ author' = [author EXCEPT ![Key(r)] = r]
    /\ \/ /\ Goto(r, "pushed")
          /\ success' = success + 1
          /\ UNCHANGED <<failed, faulty>>
       \/ /\ cancelled \/ "request" \in Faults
          /\ Fail(r)
          /\ faulty' = TRUE
          /\ UNCHANGED success
    /\ UNCHANGED <<request, collection, phase, levels, group, nodes, seen,
                   cancelled, result, edits>>

\* Grafana refuses the write: a conflict, or no parent.
Refused(r) ==
    /\ at[r] = "sent" /\ ~Accepts(r)
    /\ Fail(r)
    /\ UNCHANGED <<request, collection, phase, levels, group, nodes, seen,
                   cancelled, result, success, World>>

\* The callback's error reaches the errgroup, which cancels the context.
ReturnError(r) ==
    /\ at[r] = "returning"
    /\ Goto(r, "failed")
    /\ cancelled' = TRUE
    /\ UNCHANGED <<request, collection, phase, levels, group, nodes, seen,
                   result, success, failed, World>>

\* Another user creates or changes an object of Grafana.
EditByOthers(k) ==
    /\ edits < MaxEdits
    /\ edits' = edits + 1
    /\ remote' = [remote EXCEPT ![k] = @ + 1]
    /\ author' = [author EXCEPT ![k] = Others]
    /\ faulty' = TRUE
    /\ UNCHANGED <<request, collection, pusherVars>>

PushStep(r) ==
    \/ Begin(r) \/ RequestError(r) \/ Get(r) \/ SendWrite(r) \/ Written(r)
    \/ Refused(r) \/ ReturnError(r)

Next ==
    \/ Start \/ PushLevel \/ PushRest \/ Finish
    \/ \E r \in group : PushStep(r)
    \/ \E k \in DOMAIN remote : EditByOthers(k)

=============================================================================
