------------------------------ MODULE FSReader ------------------------------
(***************************************************************************)
(* FSReader.Read (internal/resources/local/reader.go): one goroutine walks *)
(* the paths into pathCh, one hands each path to a reader (at most MaxReads*)
(* at a time) that sends what it decoded into resCh, and one collects the  *)
(* results. A tree is the sequence of the files in the order of the walk;  *)
(* a file is the object it holds, or Missing or Unreadable. The path that  *)
(* the dispatcher holds while it waits for a reader counts as one of       *)
(* pathCh. The filters of the command match every object of the tree.      *)
(***************************************************************************)
EXTENDS Naturals, Sequences, FiniteSets, TLC

CONSTANT MaxReads      \* MaxConcurrentReads, also the channels' capacity

VARIABLES
    tree,          \* the files
    request,       \* the command's options
    walked,        \* how many files the walker has handled
    pathCh,        \* the files (by number) on their way to a reader
    pathClosed,
    reader,        \* reader[f]: where the reading of file f is
    resCh,         \* the files on their way to the collector
    resClosed,
    aborted,       \* a goroutine has returned an error: the context is cancelled
    collection     \* dst: the objects by their reference

vars == <<tree, request, walked, pathCh, pathClosed, reader, resCh, resClosed,
          aborted, collection>>

Missing == [kind |-> "missing"]         \* os.Stat fails
Unreadable == [kind |-> "unreadable"]   \* unknown extension, or a decoding error

Object(o) == o \notin {Missing, Unreadable}

\* Resource.Ref. version stands for all that two references of one object of
\* the server may differ in: the version, and the namespace in the file.
Ref(o) == <<o.kind, o.version, o.uid>>

Reading == {f \in DOMAIN tree : reader[f] \in {"reading", "sending"}}

Init ==
    /\ walked = 0
    /\ pathCh = <<>> /\ pathClosed = FALSE
    /\ reader = [f \in DOMAIN tree |-> "none"]
    /\ resCh = <<>> /\ resClosed = FALSE
    /\ aborted = FALSE
    /\ collection = <<>>

\* The walker sends the next path, or skips it.
Walk ==
    /\ ~pathClosed
    /\ walked < Len(tree)
    /\ \/ tree[walked + 1] # Missing
          /\ Len(pathCh) < MaxReads
          /\ pathCh' = Append(pathCh, walked + 1)
       \/ tree[walked + 1] = Missing /\ ~request.stopOnError
          /\ UNCHANGED pathCh
    /\ walked' = walked + 1
    /\ UNCHANGED <<tree, request, pathClosed, reader, resCh, resClosed,
                   aborted, collection>>

LeaveOpen ==
    /\ ~pathClosed /\ walked = Len(tree)
    /\ pathClosed' = TRUE
    /\ UNCHANGED <<tree, request, walked, pathCh, reader, resCh, resClosed,
                   aborted, collection>>

\* The walker is done, or stops at a path that it cannot stat.
WalkEnd ==
    /\ ~pathClosed
    /\ \/ walked = Len(tree) /\ UNCHANGED aborted
       \/ /\ walked < Len(tree)
          /\ tree[walked + 1] = Missing
          /\ request.stopOnError
          /\ aborted' = TRUE
    /\ pathClosed' = TRUE
    /\ UNCHANGED <<tree, request, walked, pathCh, reader, resCh, resClosed,
                   collection>>

Dispatch ==
    /\ pathCh # <<>>
    /\ Cardinality(Reading) < MaxReads
    /\ reader' = [reader EXCEPT ![Head(pathCh)] = "reading"]
    /\ pathCh' = Tail(pathCh)
    /\ UNCHANGED <<tree, request, walked, pathClosed, resCh, resClosed,
                   aborted, collection>>

\* ReadFile, and the error of it that is returned or logged.
ReadFile(f) ==
    /\ reader[f] = "reading"
    /\ reader' = [reader EXCEPT ![f] =
                     IF Object(tree[f]) THEN "sending" ELSE "done"]
    /\ aborted' = (aborted \/ (~Object(tree[f]) /\ request.stopOnError))
    /\ UNCHANGED <<tree, request, walked, pathCh, pathClosed, resCh, resClosed,
                   collection>>

\* The select of a reader: send the result, or give up if cancelled.
SendResult(f) ==
    /\ reader[f] = "sending"
    /\ \/ Len(resCh) < MaxReads /\ resCh' = Append(resCh, f)
       \/ aborted /\ UNCHANGED resCh
    /\ reader' = [reader EXCEPT ![f] = "done"]
    /\ UNCHANGED <<tree, request, walked, pathCh, pathClosed, resClosed,
                   aborted, collection>>

CloseEarly ==
    /\ pathClosed /\ pathCh = <<>> /\ ~resClosed
    /\ resClosed' = TRUE
    /\ UNCHANGED <<tree, request, walked, pathCh, pathClosed, reader, resCh,
                   aborted, collection>>

\* readg.Wait, once pathCh is drained.
DispatchEnd ==
    /\ pathClosed /\ pathCh = <<>> /\ ~resClosed
    /\ Reading = {}
    /\ resClosed' = TRUE
    /\ UNCHANGED <<tree, request, walked, pathCh, pathClosed, reader, resCh,
                   aborted, collection>>

\* The index of what was collected is looked up and never written: an object
\* replaces the one of the same reference.
Add(o) == collection' = [r \in DOMAIN collection \cup {Ref(o)} |->
                             IF r = Ref(o) THEN o ELSE collection[r]]

Collect ==
    /\ resCh # <<>>
    /\ Add(tree[Head(resCh)])
    /\ resCh' = Tail(resCh)
    /\ UNCHANGED <<tree, request, walked, pathCh, pathClosed, reader,
                   resClosed, aborted>>

\* gr.Wait returns.
Finished == resClosed /\ resCh = <<>>

Next ==
    \/ Walk \/ WalkEnd \/ Dispatch \/ DispatchEnd \/ Collect
    \/ \E f \in DOMAIN tree : ReadFile(f) \/ SendResult(f)

=============================================================================
