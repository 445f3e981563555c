-------------------------- MODULE ResourceCommands --------------------------
(* The commands of `resources` as a user runs them: pull, delete and get     *)
(* (PullDelete), push and validate (ResourcesPush), edit, which is a get, an *)
(* editor and a push, and a push of what a pull wrote, to the server it came *)
(* from or to one that has nothing of it.                                    *)
(*                                                                           *)
(* command.then is "push" if a push follows the pull. The files of a command *)
(* (files) are the tree of the push, and the objects of the server (remote)  *)
(* its versions: 0 for none, rev for the others. Nothing of the push depends *)
(* on an object's group.                                                     *)
EXTENDS PullDelete

CONSTANTS MaxReads, MaxConcurrency, NoParent, Faults, MaxPushEdits,
          PushTrees, Requests,   \* the trees and options of a push alone
          Following,             \* the options of a push that follows a pull
          Folder(_, _)           \* the folder of the object of a kind and a name

ASSUME LimitsAssumption ==
    /\ MaxReads \in Nat \ {0} /\ MaxConcurrency \in Nat \ {0} /\ MaxPushEdits \in Nat
    /\ \A t \in PushTrees : t \in Seq(ToSet(t))
    /\ \A options \in Following : "supported" \in DOMAIN options

VARIABLES
    pushTree, request, walked, pathCh, pathClosed, reader, resCh, resClosed,
    readAborted, read, phase, levels, group, nodes, at, seen, cancelled, result,
    success, pushFailed, versions, author, pushEdits, faulty

Push == INSTANCE ResourcesPush WITH
            tree <- pushTree, aborted <- readAborted, collection <- read,
            failed <- pushFailed, remote <- versions, edits <- pushEdits,
            MaxEdits <- MaxPushEdits, Trees <- PushTrees

inputOfPush == <<pushTree, request>>
readerVars == <<walked, pathCh, pathClosed, reader, resCh, resClosed, readAborted, read>>
pusherVars == <<phase, levels, group, nodes, at, seen, cancelled, result, success,
                pushFailed>>
worldVars == <<versions, author, pushEdits, faulty>>
pushVars == <<inputOfPush, readerVars, pusherVars, worldVars>>
commandVars == <<vars, pushVars>>

NoPush == [name |-> "push", args |-> <<>>, onError |-> "fail", then |-> "nothing"]

\* Either a command of PullDelete, or a push alone.
CommandsInit ==
    \/ /\ Init
       /\ pushTree = <<>>
       /\ request = [stopOnError |-> TRUE, dryRun |-> FALSE, includeManaged |-> FALSE,
                     supported |-> {}]
       /\ Push!R!Init /\ Push!P!Init
       /\ versions = <<>> /\ author = <<>> /\ pushEdits = 0 /\ faulty = FALSE
    \/ /\ Push!Init
       /\ disc = [groups |-> <<>>, resources |-> <<>>]
       /\ remote = <<>> /\ files = <<>> /\ command = NoPush
       /\ pc = "push" /\ exit = "none"
       /\ filters = <<>> /\ fetch = <<>> /\ aborted = FALSE
       /\ collection = {} /\ failed = 0 /\ todo = {} /\ writing = Nobody /\ inflight = {}
       /\ touched = {} /\ removed = {} /\ lost = {} /\ tree = files
       /\ faults = 0 /\ edits = 0

Command == pc # "push" /\ Step /\ UNCHANGED pushVars
World == pc # "push" /\ (OthersEdit \/ Killed) /\ UNCHANGED pushVars

-----------------------------------------------------------------------------
(* From one command to the next                                            *)

\* What a file or the server holds, as the reader of the push decodes it.
Decoded(i) ==
    IF i = Cut THEN Push!R!Unreadable
    ELSE [kind |-> i.kind, version |-> i.version, uid |-> i.name,
          parent |-> Folder(i.kind, i.name), foreign |-> i.manager = "other"]

\* The push of the objects docs, where Grafana has lost all that is in gone.
StartsWith(docs, gone) ==
    /\ pushTree' = docs
    /\ versions' =
         LET known == {Path([kind |-> o[2], name |-> o[3]]) : o \in DOMAIN remote}
             keys == known \cup {<<d.kind, d.uid>> : d \in {e \in ToSet(docs) : Push!R!Object(e)}}
         IN  [k \in keys |->
                IF k \in gone \/ ~\E o \in DOMAIN remote : <<o[2], o[3]>> = k /\ Exists(o) THEN 0
                ELSE (CHOOSE r \in {remote[o].rev : o \in {x \in DOMAIN remote :
                                     <<x[2], x[3]>> = k /\ Exists(x)}} : TRUE)]
    /\ author' = [k \in DOMAIN versions' |-> Push!P!Others]
    /\ pc' = "push"

SupportedTypes == {<<r.kind, r.version>> : r \in ToSet(Index.resources)}

\* The user runs push on the directory that a pull has filled. The fetch of the
\* pull is over: the process has ended.
PushFollows ==
    /\ pc = "done" /\ command.then = "push" /\ exit = "0" /\ faults = 0 /\ edits = 0
    /\ phase = "idle"
    /\ \E options \in Following, gone \in {{}, {<<o[2], o[3]>> : o \in DOMAIN remote}} :
          /\ request' = [options EXCEPT !.supported = SupportedTypes]
          /\ StartsWith(SetToSeq({Decoded(files[p]) : p \in DOMAIN files}), gone)
    /\ reader' = [f \in DOMAIN pushTree' |-> "none"]
    /\ fetch' = <<>>
    /\ UNCHANGED <<input, remote, files, filters, aborted, collection, failed, batch, exit,
                   history, bounds, walked, pathCh, pathClosed, resCh, resClosed, readAborted,
                   read, pusherVars, pushEdits, faulty>>

\* OpenInTempFile fails, or there is not exactly one object to edit.
EditorFails ==
    /\ pc = "editor"
    /\ \/ Cardinality(collection) # 1 /\ UNCHANGED faults
       \/ Fault
    /\ Ends("1")
    /\ UNCHANGED <<input, remote, files, fetching, aborted, collection, failed, batch,
                   history, edits, pushVars>>

EditCancelled ==
    /\ pc = "editor" /\ Cardinality(collection) = 1
    /\ Ends("0")
    /\ UNCHANGED <<input, remote, files, fetching, aborted, collection, failed, batch,
                   history, bounds, pushVars>>

\* The user saves the object, under its name or another, or something that is
\* none. ReadBytes decodes it: there are no files to read.
EditSaved ==
    /\ pc = "editor" /\ Cardinality(collection) = 1
    /\ \E i \in collection :
          \/ /\ \E uid \in {i.name, "new"} :
                   LET doc == [Decoded(i) EXCEPT !.uid = uid]
                   IN  /\ StartsWith(<<doc>>, {})
                       /\ read' = [r \in {Push!R!Ref(doc)} |-> doc]
             /\ request' = [request EXCEPT !.supported = SupportedTypes]
             /\ reader' = <<"done">> /\ walked' = 1
             /\ pathClosed' = TRUE /\ resClosed' = TRUE
             /\ UNCHANGED exit
          \/ /\ Ends("1")
             /\ UNCHANGED <<inputOfPush, versions, author, read, reader, walked, pathClosed,
                            resClosed>>
    /\ UNCHANGED <<input, remote, files, fetching, aborted, collection, failed, batch,
                   history, bounds, pathCh, resCh, readAborted, pusherVars, pushEdits, faulty>>

-----------------------------------------------------------------------------
(* The push                                                                *)

ReadTree == pc = "push" /\ Push!Read /\ UNCHANGED vars
ReadError == pc = "push" /\ Push!ReadError /\ UNCHANGED vars
PushStep == pc = "push" /\ Push!Push /\ UNCHANGED vars
Others == pc = "push" /\ Push!Others /\ UNCHANGED vars

PushEnds ==
    /\ pc = "push" /\ phase = "done"
    /\ pc' = "done"
    /\ UNCHANGED <<input, remote, files, fetching, aborted, collection, failed, batch, exit,
                   history, bounds, pushVars>>

CommandsNext ==
    \/ Command \/ World \/ PushFollows
    \/ EditorFails \/ EditCancelled \/ EditSaved
    \/ ReadTree \/ ReadError \/ PushStep \/ Others \/ PushEnds

\* Every goroutine goes on, and so does the command. A user may leave an editor
\* open for ever, and need not push.
Fairness ==
    /\ WF_commandVars(Command) /\ WF_commandVars(ReadTree) /\ WF_commandVars(ReadError)
    /\ WF_commandVars(PushStep) /\ WF_commandVars(PushEnds)

CommandsSpec == CommandsInit /\ [][CommandsNext]_commandVars /\ Fairness

-----------------------------------------------------------------------------
(* Properties                                                              *)

\* The files are safe and selectors mean what they say (PullDelete); the push
\* has all that was read, in an order that works (ResourcesPush).
Inv == PullDeleteInv /\ Push!Inv

\* No request is sent for a folder before its parent's push has ended, nor for
\* anything else before every folder's has (pushFolders).
ParentsSettledFirst == Push!ParentsSettledFirst

\* A push that returns no error has each resource once in its summary, and one
\* of a sound tree, without faults and other users, has pushed all of it (Push).
PushReportIsTrue == Push!EveryResourceAccounted /\ Push!CleanPushSucceeds

\* What another user writes between the Get and the Update stays (upsertResource).
NoLostEdit == Push!NoLostEdit

\* Whatever fails, every command ends: readers, walker and collector never wait
\* for each other for ever (FSReader.Read, ForEachConcurrently, Pull, Delete).
CommandEnds == <>[](pc \in {"done", "editor"})

Restored(o) == author[<<o[2], o[3]>>]
Pulled(p) == files[p] # Cut /\ files[p].rev > 0

\* The folder of each folder was pulled too, and is pushed.
FoldersKnown ==
    \A p \in DOMAIN files : p[1] = "Folder" =>
        \/ Folder(p[1], p[2]) = NoParent
        \/ LET up == <<"Folder", Folder(p[1], p[2])>>
           IN  up \in DOMAIN files /\ (files[up].manager = "other" => request.includeManaged)

\* Where a backup can be whole: its errors count, the directory holds nothing of
\* the server beforehand, no two objects share a file, and folders form a tree.
BackupsAreSound ==
    \A c \in {d \in Cases : d.command.then = "push"} :
        /\ c.command.onError \in {"fail", "abort"}
        /\ \A p \in DOMAIN c.files : c.files[p].rev = 0
        /\ \A o, q \in DOMAIN c.remote : o[2] = q[2] /\ o[3] = q[3] => o = q
        /\ \A ns \in (SUBSET {o[3] : o \in {q \in DOMAIN c.remote : q[2] = "Folder"}}) \ {{}} :
              \E n \in ns : Folder("Folder", n) \notin ns

\* What a pull wrote is a backup: without faults and other users, pushing it
\* back, to a Grafana that has everything or nothing of it, writes all that was
\* asked for and pulled, each object in the version it is stored in, and nothing
\* else. What another tool manages takes --include-managed both times. (Pull,
\* ServerFieldsStripper, FSWriter; FSReader, Pusher)
RoundTrip ==
    /\ pc = "done" /\ phase = "done" /\ command.then = "push"
    /\ ~faulty /\ ~request.dryRun /\ (\A p \in DOMAIN files : Pulled(p)) /\ FoldersKnown
    =>  /\ result = "nil" /\ pushFailed = 0
        /\ \A o \in DOMAIN remote :
              IF /\ Exists(o) /\ Wanted(o)
                 /\ remote[o].manager = "other" =>
                       command.includeManaged /\ request.includeManaged
              THEN Restored(o) \in {<<o[2], v, o[3]>> :
                       v \in IF remote[o].stored = "" THEN {f.version : f \in ToSet(filters)}
                             ELSE {remote[o].stored}}
              ELSE Restored(o) = Push!P!Others

=============================================================================
