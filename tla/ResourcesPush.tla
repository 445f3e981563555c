---------------------------- MODULE ResourcesPush ----------------------------
(***************************************************************************)
(* The command `resources push` (cmd/grafanapi/resources/push.go): read the*)
(* files of a tree (FSReader), then push what was read (Pusher).           *)
(***************************************************************************)
EXTENDS Naturals, Sequences, FiniteSets, TLC

CONSTANTS MaxReads, NoParent, MaxConcurrency, Faults, MaxEdits,
          Trees,      \* the trees of files
          Requests    \* the options of the command, and what Grafana supports

VARIABLES
    tree, request, walked, pathCh, pathClosed, reader, resCh, resClosed, aborted,
    collection, phase, levels, group, nodes, at, seen, cancelled, result,
    success, failed, remote, author, edits, faulty

R == INSTANCE FSReader
P == INSTANCE Pusher

readerVars == <<tree, walked, pathCh, pathClosed, reader, resCh, resClosed,
                aborted>>
pushVars == <<phase, levels, group, nodes, at, seen, cancelled, result, success,
              failed>>
worldVars == <<remote, author, edits, faulty>>
vars == <<request, collection, readerVars, pushVars, worldVars>>

Files == DOMAIN tree

Init ==
    /\ tree \in Trees
    /\ request \in Requests
    /\ R!Init
    /\ P!Init
    /\ remote \in {[k \in {<<o.kind, o.uid>> : o \in {tree[f] : f \in
                       {g \in Files : R!Object(tree[g])}}} \cup
                       {<<"Folder", "outside">>} |->
                    IF k = <<"Folder", "outside">> THEN 1 ELSE v] : v \in {0, 1}}
    /\ author = [k \in DOMAIN remote |-> P!Others]
    /\ edits = 0
    /\ faulty = FALSE

Read ==
    /\ phase = "idle" /\ ~R!Finished
    /\ R!Next
    /\ UNCHANGED <<pushVars, worldVars>>

\* An error of the reader ends the command, else what was read is pushed.
ReadError ==
    /\ phase = "idle" /\ R!Finished /\ aborted
    /\ P!Return("error")
    /\ UNCHANGED <<readerVars, request, collection, levels, group, nodes, at,
                   seen, cancelled, success, failed, worldVars>>

Push ==
    /\ R!Finished /\ ~aborted
    /\ \/ P!Start \/ P!PushLevel \/ P!PushRest \/ P!Finish
       \/ \E r \in group : P!PushStep(r)
    /\ UNCHANGED readerVars

Others ==
    /\ phase \in {"folders", "rest"}
    /\ \E k \in DOMAIN remote : P!EditByOthers(k)
    /\ UNCHANGED readerVars

Next == Read \/ ReadError \/ Push \/ Others

Fairness == WF_vars(Read) /\ WF_vars(ReadError) /\ WF_vars(Push)

Spec == Init /\ [][Next]_vars /\ Fairness

-----------------------------------------------------------------------------
(* Properties                                                              *)

Objects == {tree[f] : f \in {g \in Files : R!Object(tree[g])}}

\* A set of folders whose parents form no cycle: every subset has a member
\* whose parent is not in it.
Acyclic(folders) ==
    \A ns \in (SUBSET folders) \ {{}} : \E r \in ns : P!ParentsIn(r, ns) = {}

\* Every variable has its type.
TypeOK ==
    /\ walked \in 0..Len(tree)
    /\ pathCh \in Seq(Files) /\ resCh \in Seq(Files)
    /\ {pathClosed, resClosed, aborted, cancelled, faulty} \subseteq BOOLEAN
    /\ reader \in [Files -> {"none", "reading", "sending", "done"}]
    /\ \A r \in DOMAIN collection :
          collection[r] \in Objects /\ R!Ref(collection[r]) = r
    /\ phase \in {"idle", "folders", "rest", "done"}
    /\ levels \in Seq(SUBSET P!Folders)
    /\ group \subseteq P!Refs /\ nodes \subseteq P!Folders
    /\ at = <<>> \/ at \in [P!Refs -> P!Ended \cup
                   {"waiting", "get", "write", "sent", "returning"}]
    /\ seen = <<>> \/ seen \in [P!Refs -> Nat]
    /\ result \in {"none", "nil", "error"}
    /\ success + failed \in 0..Cardinality(P!Refs)
    /\ remote \in [DOMAIN author -> Nat]
    /\ edits \in 0..MaxEdits

\* What is pushed is everything that could be read, whatever the goroutines of
\* the reader do, and all of the tree if the command is to stop on errors.
ReadIsComplete ==
    phase \in {"folders", "rest"} =>
        \A f \in Files :
            IF R!Object(tree[f]) THEN R!Ref(tree[f]) \in P!Refs
            ELSE ~request.stopOnError

\* The folders can be sorted exactly if their parents form no cycle, and then a
\* folder is one level below its parent.
SortIsTopological ==
    phase = "idle" /\ R!Finished =>
        \A ns \in P!NodeSets :
            /\ P!Sorted(ns) <=> Acyclic(ns)
            /\ P!Sorted(ns) =>
                  \A i \in DOMAIN P!LevelsOf(ns) :
                      \A r \in P!LevelsOf(ns)[i] :
                          P!ParentsIn(r, ns) \subseteq
                              IF i = 1 THEN {} ELSE P!LevelsOf(ns)[i - 1]

\* What a push starts from is sound: all that was read, in an order that works.
Inv == TypeOK /\ ReadIsComplete /\ SortIsTopological

\* No request is sent for a folder before its parent's push has ended, nor for
\* anything else before every folder's has, however the callbacks interleave.
ParentsSettledFirst ==
    \A r \in group :
        at[r] \in {"get", "write", "sent"} =>
            \A q \in IF P!IsFolder(r) THEN P!ParentsIn(r, nodes) ELSE nodes :
                at[q] \in P!Ended

\* What another tool manages is pushed only on request.
Goes(f) == tree[f].foreign => request.includeManaged

\* The tree can be pushed as it is: each file is an object of its own of a
\* supported kind, and a folder is under none, under a folder that Grafana has,
\* or under one of the tree that is pushed.
Pushable ==
    /\ \A f \in Files :
          /\ R!Object(tree[f])
          /\ <<tree[f].kind, tree[f].version>> \in request.supported
          /\ \A g \in Files \ {f} :
                <<tree[f].kind, tree[f].uid>> # <<tree[g].kind, tree[g].uid>>
          /\ \/ tree[f].kind # "Folder" \/ tree[f].parent = NoParent
             \/ <<"Folder", tree[f].parent>> \in {k \in DOMAIN remote : remote[k] # 0}
             \/ \E g \in Files : /\ tree[g].kind = "Folder" /\ tree[g].uid = tree[f].parent
                                /\ Goes(g)
    /\ Acyclic(P!Folders)

\* Without a fault and without other users, pushing such a tree leaves in
\* Grafana every object of it that is to be pushed, for no folder arrives before
\* its parent does, and touches nothing else.
CleanPushSucceeds ==
    phase = "done" /\ Pushable /\ ~faulty /\ ~request.dryRun =>
        /\ result = "nil" /\ failed = 0 /\ success = Cardinality({f \in Files : Goes(f)})
        /\ \A f \in Files :
              Goes(f) => author[<<tree[f].kind, tree[f].uid>>] = R!Ref(tree[f])
        /\ \A k \in DOMAIN author :
              \/ author[k] = P!Others
              \/ \E f \in Files : Goes(f) /\ k = <<tree[f].kind, tree[f].uid>>

\* A push that returns no error has handled every resource, and its summary has
\* each of them once. (Of two folders of one uid only one is handled.)
EveryResourceAccounted ==
    result = "nil" =>
        /\ \A r \in P!Refs : at[r] \in P!Ended \/ r \in P!Folders \ nodes
        /\ success = Cardinality({r \in P!Refs : at[r] = "pushed"})
        /\ failed = Cardinality({r \in P!Refs : at[r] = "failed"})
        /\ request.stopOnError => failed = 0

\* The push replaces only the version of an object that it has read: what
\* another user writes between the Get and the Update or Create stays.
NoLostEdit ==
    [][\A k \in DOMAIN remote :
          remote'[k] # remote[k] /\ edits' = edits =>
              \E r \in group : P!Key(r) = k /\ seen[r] = remote[k]]_vars

\* The command ends, whatever fails.
CommandEnds == <>(phase = "done")

=============================================================================
