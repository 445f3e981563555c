---------------------------- MODULE PullDelete ----------------------------
(* resources pull, delete, get and edit: the selectors of a command become  *)
(* filters (module Registry), the filters are fetched concurrently          *)
(* (internal/resources/remote/puller.go, internal/resources/dynamic), and   *)
(* what was fetched is written to files (internal/resources/local/writer.go)*)
(* or deleted from the server (internal/resources/remote/deleter.go), or is *)
(* what get prints, or what edit opens (ResourceCommands has the rest).     *)
(*                                                                          *)
(* The server keeps one object by group, kind and name, and serves it in    *)
(* each version of its group; stored is the version it was stored in when   *)
(* the server tells, "" otherwise.  A file holds one object.                *)
EXTENDS Registry

CONSTANTS Cases,         \* [disc, remote, files, command]: what discovery answers,
                         \*   what the server and the directory hold, what is run
          MaxInflight,   \* --max-concurrent
          MaxFaults,     \* bound: failures of the network, the disk, an object
          MaxEdits       \* bound: changes others make on the server

VARIABLES disc, remote, files, command, pc, filters, fetch, aborted,
          collection, failed, todo, writing, inflight, exit,
          touched, removed, lost, tree,   \* history
          faults, edits

fetching == <<filters, fetch>>
batch == <<todo, writing, inflight>>
history == <<touched, removed, lost, tree>>
bounds == <<faults, edits>>
input == <<disc, command>>
vars == <<input, remote, files, pc, fetching, aborted, collection, failed, batch,
          exit, history, bounds>>

Absent == [rev |-> 0, stored |-> "", manager |-> ""]
Exists(o) == remote[o] # Absent

Served(group, version) ==
    \E g \in ToSet(disc.groups) : g.name = group /\ version \in g.versions

Ref(i) == <<i.group, i.version, i.kind, i.name>>
Object(i) == <<i.group, i.kind, i.name>>

(* GroupResourcesByKind: neither the group nor the version is in the path.  *)
Path(i) == <<i.kind, i.name>>
Cut == [rev |-> 0]
Nobody == [rev |-> -1]                          \* no resource is being written

StopOnError == command.onError = "abort" \/ command.name = "edit"
FailOnErrors == command.onError \in {"fail", "abort"}

(* fetchResources: a single target stops on an error whatever the mode.     *)
FetchStops == StopOnError \/ IsSingleTarget(command.args)

Fault == faults < MaxFaults /\ faults' = faults + 1

Ends(status) == pc' = "done" /\ exit' = status

E == INSTANCE Errors

(* The answers to discovery are lists, and a type that can be asked for has *)
(* the same names in each version of its group. A directory that is read    *)
(* has its objects where a pull writes them. Only delete has --path, a push *)
(* may follow a pull, and a selector names a version only with a group      *)
(* (PartialGVK.ParseString).                                                *)
Groups == [name : STRING, short : STRING, preferred : STRING, versions : SUBSET STRING]
ResourceTypes == [group : STRING, version : STRING, kind : STRING, singular : STRING,
                  plural : STRING, usable : BOOLEAN]
Selectors == [resource : STRING, group : STRING, version : STRING, uids : SUBSET STRING]

IsCase(c) ==
    /\ c.disc.groups \in Seq(Groups) /\ c.disc.resources \in Seq(ResourceTypes)
    /\ \A r, s \in ToSet(c.disc.resources) :
          r.usable /\ s.usable /\ r.group = s.group /\ r.kind = s.kind =>
             r.singular = s.singular /\ r.plural = s.plural
    /\ IsFiniteSet(DOMAIN c.files)
    /\ \A p \in DOMAIN c.files : c.files[p] = Cut \/ Path(c.files[p]) = p
    /\ c.command.name \in {"pull", "delete", "get", "edit"}
    /\ c.command.args \in Seq(Selectors)
    /\ \A s \in ToSet(c.command.args) : s.version # "" => s.group # ""
    /\ c.command.path \in BOOLEAN /\ (c.command.path => c.command.name = "delete")
    /\ c.command.then = "push" => c.command.name = "pull"

ASSUME CasesAssumption ==
    /\ MaxInflight \in Nat
    /\ \A c \in Cases :
          /\ IsCase(c) /\ DOMAIN c.remote \subseteq STRING \X STRING \X STRING
          /\ \A o \in DOMAIN c.remote : c.remote[o].rev \in Nat

-----------------------------------------------------------------------------
(* The command line, and discovery.                                         *)

AcceptedForced == command.name = "delete" => command.args # <<>> \/ command.path
(* delete says what it deletes, and with --force if that may be a whole     *)
(* type; edit takes one target.                                             *)
Accepted ==
    /\ command.name = "delete" =>
          /\ command.args # <<>> \/ command.path
          /\ command.force \/ HasNamedSelectorsOnly(command.args)
    /\ command.name = "edit" => IsSingleTarget(command.args)

Refuse ==
    /\ pc = "parse" /\ ~Accepted
    /\ Ends("1")
    /\ UNCHANGED <<input, remote, files, fetching, aborted, collection, failed, batch,
                   history, bounds>>

(* The context is loaded, which may withhold its session and asks for the   *)
(* namespace, and discovery is asked next.                                  *)
LoadErrors == {<<"ErrSessionUnbound">>, <<"ErrSessionOriginMismatch">>, <<"ValidationError">>}
RequestErrors == {<<"StatusError 401">>, <<"StatusError">>, <<"url.Error">>}

Index == FilterDiscoveryResults(disc)

DiscoveryFails ==
    /\ pc = "parse" /\ Accepted
    /\ \/ UpdateFails(Index) /\ Ends("1") /\ UNCHANGED faults
       \/ NothingSupported(Index, command.args, ~command.path) /\ Ends("1") /\ UNCHANGED faults
       \/ Fault /\ \E error \in LoadErrors \cup RequestErrors : Ends(E!ExitStatus(error))
    /\ UNCHANGED <<input, remote, files, fetching, aborted, collection, failed, batch,
                   history, edits>>

(* No selectors: Pull makes a filter of every preferred resource.           *)
PullFilters ==
    IF command.args # <<>> THEN MakeFilters(Index, command.args, TRUE)
    ELSE SetToSeq({Filter(r, {}) : r \in PreferredResources(Index)})

Begun(f) == [todo |-> {[name |-> n, version |-> f.version] : n \in f.uids},
             again |-> {}, items |-> {}, round |-> 1,
             state |-> IF f.uids = {} THEN "list" ELSE "get"]

Discover ==
    /\ pc = "parse" /\ Accepted
    /\ ~UpdateFails(Index) /\ ~NothingSupported(Index, command.args, ~command.path)
    /\ IF command.path
       THEN /\ filters' = MakeFilters(Index, command.args, FALSE)
            /\ pc' = "read" /\ UNCHANGED fetch
       ELSE /\ filters' = PullFilters
            /\ fetch' = [i \in DOMAIN filters' |-> Begun(filters'[i])]
            /\ pc' = "fetch"
    /\ UNCHANGED <<input, remote, files, aborted, collection, failed, batch, exit,
                   history, bounds>>

-----------------------------------------------------------------------------
(* Fetching: a goroutine for each filter.  An object whose stored version   *)
(* is known is fetched a second time, in that version.                      *)

Item(o, version) == [group |-> o[1], kind |-> o[2], name |-> o[3], version |-> version,
                     rev |-> remote[o].rev, manager |-> remote[o].manager]

Listed(f) == {o \in DOMAIN remote : Exists(o) /\ o[1] = f.group /\ o[2] = f.kind}

List(i) ==
    /\ pc = "fetch" /\ fetch[i].state = "list"
    /\ Served(filters[i].group, filters[i].version)
    /\ fetch' = [fetch EXCEPT ![i] =
         [todo |-> {}, round |-> 1, state |-> "get",
          items |-> {Item(o, filters[i].version) : o \in
                       {p \in Listed(filters[i]) : remote[p].stored = ""}},
          again |-> {[name |-> o[3], version |-> remote[o].stored] : o \in
                       {p \in Listed(filters[i]) : remote[p].stored # ""}}]]
    /\ UNCHANGED <<input, remote, files, pc, filters, aborted, collection, failed, batch,
                   exit, history, bounds>>

Target(i, t) == <<filters[i].group, filters[i].kind, t.name>>
Answers(i, t) == /\ Target(i, t) \in DOMAIN remote /\ Exists(Target(i, t))
                 /\ Served(filters[i].group, t.version)

Get(i) ==
    /\ pc = "fetch" /\ fetch[i].state = "get"
    /\ \E t \in fetch[i].todo :
         LET o == Target(i, t)
             enough == fetch[i].round = 2 \/ remote[o].stored = ""
         IN
         /\ Answers(i, t)
         /\ fetch' = [fetch EXCEPT ![i] = [fetch[i] EXCEPT
              !.todo = @ \ {t},
              !.again = IF enough THEN @
                        ELSE @ \cup {[name |-> t.name, version |-> remote[o].stored]},
              !.items = IF enough THEN @ \cup {Item(o, t.version)} ELSE @]]
    /\ UNCHANGED <<input, remote, files, pc, filters, aborted, collection, failed, batch,
                   exit, history, bounds>>

NoSecondRound(i) ==                                              \* mutant
    /\ pc = "fetch" /\ fetch[i].state = "get" /\ fetch[i].todo = {}
    /\ fetch' = [fetch EXCEPT ![i].state = "done"]
    /\ UNCHANGED <<input, remote, files, pc, filters, aborted, collection, failed, batch,
                   exit, history, bounds>>

NextRound(i) ==
    /\ pc = "fetch" /\ fetch[i].state = "get" /\ fetch[i].todo = {}
    /\ fetch' = [fetch EXCEPT ![i] =
         IF fetch[i].again = {} THEN [fetch[i] EXCEPT !.state = "done"]
         ELSE [fetch[i] EXCEPT !.todo = fetch[i].again, !.again = {}, !.round = 2]]
    /\ UNCHANGED <<input, remote, files, pc, filters, aborted, collection, failed, batch,
                   exit, history, bounds>>

RecordAndGoOn == failed' = failed + 1 /\ UNCHANGED aborted        \* mutant
FetchError == IF FetchStops THEN aborted' = TRUE /\ UNCHANGED failed
              ELSE failed' = failed + 1 /\ UNCHANGED aborted

FetchFails(i) ==
    /\ pc = "fetch" /\ fetch[i].state \in {"list", "get"}
    /\ \/ aborted /\ UNCHANGED faults                   \* the context is cancelled
       \/ fetch[i].state = "list" /\ ~Served(filters[i].group, filters[i].version)
          /\ UNCHANGED faults
       \/ (\E t \in fetch[i].todo : ~Answers(i, t)) /\ UNCHANGED faults
       \/ (fetch[i].state = "list" \/ fetch[i].todo # {}) /\ Fault
    /\ fetch' = [fetch EXCEPT ![i].state = "failed"]
    /\ FetchError
    /\ UNCHANGED <<input, remote, files, pc, filters, collection, batch, exit,
                   history, edits>>

Waited == \A i \in DOMAIN fetch : fetch[i].state \in {"done", "failed"}

FetchAborted ==
    /\ pc = "fetch" /\ Waited /\ aborted
    /\ \E error \in RequestErrors : Ends(E!ExitStatus(E!ParseStatusError(error)))
    /\ UNCHANGED <<input, remote, files, fetching, aborted, collection, failed, batch,
                   history, bounds>>

(* The collection, by Ref: of two filters with one object the later wins.   *)
Excluded(i) == command.name = "pull" /\ ~command.includeManaged /\ i.manager = "other"

Fetched == {[item |-> i, filter |-> k] : k \in DOMAIN fetch,
                                         i \in UNION {fetch[j].items : j \in DOMAIN fetch}}
Gathered == {x.item : x \in {y \in Fetched :
               /\ fetch[y.filter].state = "done" /\ y.item \in fetch[y.filter].items
               /\ ~\E k \in DOMAIN fetch : /\ k > y.filter /\ fetch[k].state = "done"
                                           /\ \E j \in fetch[k].items : Ref(j) = Ref(y.item)}}
Kept == {i \in Gathered : ~Excluded(i)}

(* ServerFieldsStripper: grafanapi sets its own manager again on a push.    *)
Stripped(i) ==
    IF command.name = "pull" /\ i.manager = "grafanapi" THEN [i EXCEPT !.manager = ""] ELSE i

Proceed == pc' = CASE command.name = "pull" -> "write" [] command.name = "delete" -> "delete"
                   [] command.name = "get" -> "print" [] command.name = "edit" -> "editor"
Batch(items) == IF command.name \in {"pull", "delete"} THEN items ELSE {}

(* Deleter.Delete begins a summary of its own: what could not be fetched is *)
(* not in it.                                                               *)
Recorded == IF command.name = "delete" THEN 0 ELSE failed

Collect ==
    /\ pc = "fetch" /\ Waited /\ ~aborted
    /\ \/ /\ collection' = {Stripped(i) : i \in Kept} /\ todo' = Batch(collection')
          /\ failed' = Recorded /\ Proceed /\ UNCHANGED <<exit, faults>>
       \/ \E i \in Kept :              \* a processor fails: pull only
            /\ command.name = "pull" /\ Fault
            /\ IF FetchStops THEN Ends("1") /\ UNCHANGED <<collection, todo, failed>>
               ELSE /\ collection' = {Stripped(j) : j \in Kept \ {i}} /\ todo' = collection'
                    /\ failed' = failed + 1
                    /\ Proceed /\ UNCHANGED exit
    /\ UNCHANGED <<input, remote, files, fetching, aborted, writing, inflight, history, edits>>

-----------------------------------------------------------------------------
(* FSWriter: one file after the other, truncated and then encoded into.     *)

Unwritable ==
    /\ pc = "write" /\ todo = collection /\ collection # {} /\ writing = Nobody
    /\ Fault /\ Ends("1")
    /\ UNCHANGED <<input, remote, files, fetching, aborted, collection, failed, batch,
                   history, edits>>

WriteFails(i) ==
    /\ Fault
    /\ lost' = lost \cup {i}
    /\ IF StopOnError THEN Ends("1") ELSE UNCHANGED <<pc, exit>>

Open ==
    /\ pc = "write" /\ writing = Nobody
    /\ \E i \in todo :
         /\ todo' = todo \ {i}
         /\ \/ /\ files' = [p \in DOMAIN files \cup {Path(i)} |->
                              IF p = Path(i) THEN Cut ELSE files[p]]
               /\ writing' = i
               /\ UNCHANGED <<pc, exit, lost, faults>>
            \/ WriteFails(i) /\ UNCHANGED <<files, writing>>
    /\ UNCHANGED <<input, remote, fetching, aborted, collection, failed, inflight,
                   touched, removed, tree, edits>>

Encode ==
    /\ pc = "write" /\ writing # Nobody
    /\ writing' = Nobody
    /\ \/ /\ files' = [files EXCEPT ![Path(writing)] = writing]
          /\ UNCHANGED <<pc, exit, lost, faults>>
       \/ WriteFails(writing) /\ UNCHANGED files
    /\ UNCHANGED <<input, remote, fetching, aborted, collection, failed, todo, inflight,
                   touched, removed, tree, edits>>

StatusOfAbort == IF StopOnError /\ failed > 0 THEN "1" ELSE "0"   \* mutant
Status == IF FailOnErrors /\ failed > 0 THEN "1" ELSE "0"

Report ==
    /\ pc \in {"write", "delete", "print"} /\ todo = {} /\ writing = Nobody /\ inflight = {}
    /\ Ends(IF aborted THEN "1" ELSE Status)
    /\ UNCHANGED <<input, remote, files, fetching, aborted, collection, failed, batch,
                   history, bounds>>

-----------------------------------------------------------------------------
(* delete --path reads the directory; the filters are of every version.     *)

Read ==
    /\ pc = "read"
    /\ \/ /\ StopOnError /\ \E p \in DOMAIN files : files[p] = Cut
          /\ Ends("1") /\ UNCHANGED <<collection, todo>>
       \/ /\ ~StopOnError \/ \A p \in DOMAIN files : files[p] # Cut
          /\ collection' = {files[p] : p \in {q \in DOMAIN files :
                               files[q] # Cut /\ MatchesAny(filters, files[q])}}
          /\ todo' = collection'
          /\ pc' = "delete" /\ UNCHANGED exit
    /\ UNCHANGED <<input, remote, files, fetching, aborted, failed, writing, inflight,
                   history, bounds>>

(* Delete: a goroutine for each resource, and an error with abort cancels   *)
(* the ones that have not been sent.                                        *)

Supported(i) == \E r \in ToSet(Index.resources) :
    r.group = i.group /\ r.version = i.version /\ r.kind = i.kind

Send ==
    /\ pc = "delete" /\ Cardinality(inflight) < MaxInflight
    /\ \E i \in todo :
         /\ todo' = todo \ {i}
         /\ IF ~Supported(i)
            THEN aborted' = (aborted \/ StopOnError) /\ UNCHANGED <<inflight, failed>>
            ELSE IF aborted THEN failed' = failed + 1 /\ UNCHANGED <<inflight, aborted>>
            ELSE inflight' = inflight \cup {i} /\ UNCHANGED <<failed, aborted>>
    /\ UNCHANGED <<input, remote, files, pc, fetching, collection, writing, exit,
                   history, bounds>>

There(i) == Object(i) \in DOMAIN remote /\ Exists(Object(i))

RemoveObject(i) ==
    IF command.dryRun THEN UNCHANGED <<remote, removed>>
    ELSE /\ remote' = [remote EXCEPT ![Object(i)] = Absent]
         /\ removed' = removed \cup {Object(i)}

Deleted ==
    /\ pc = "delete"
    /\ \E i \in inflight :
         /\ There(i) /\ RemoveObject(i)
         /\ inflight' = inflight \ {i}
    /\ UNCHANGED <<input, files, pc, fetching, aborted, collection, failed, todo, writing,
                   exit, touched, lost, tree, bounds>>

(* An error is recorded; the server may have carried out the request.       *)
DeleteFails ==
    /\ pc = "delete"
    /\ \E i \in inflight :
         /\ \/ ~There(i) /\ UNCHANGED <<faults, remote, removed>>
            \/ aborted /\ There(i) /\ UNCHANGED faults
               /\ (RemoveObject(i) \/ UNCHANGED <<remote, removed>>)
            \/ Fault /\ There(i) /\ (RemoveObject(i) \/ UNCHANGED <<remote, removed>>)
         /\ inflight' = inflight \ {i}
    /\ failed' = failed + 1
    /\ aborted' = (aborted \/ StopOnError)
    /\ UNCHANGED <<input, files, pc, fetching, collection, todo, writing, exit,
                   touched, lost, tree, edits>>

-----------------------------------------------------------------------------
(* Others change the server while the command runs; it may be killed.       *)

OthersEdit ==
    /\ pc \notin {"done", "push"} /\ edits < MaxEdits
    /\ edits' = edits + 1
    /\ \E o \in DOMAIN remote :
         /\ touched' = touched \cup {o}
         /\ remote' = [remote EXCEPT ![o] =
              IF Exists(o) THEN Absent ELSE [rev |-> 2, stored |-> "", manager |-> "grafanapi"]]
    /\ UNCHANGED <<input, files, pc, fetching, aborted, collection, failed, batch, exit,
                   removed, lost, tree, faults>>

Killed ==
    /\ pc \notin {"done", "push"} /\ Fault
    /\ Ends("killed")
    /\ UNCHANGED <<input, remote, files, fetching, aborted, collection, failed, batch,
                   history, edits>>

Init ==
    /\ \E c \in Cases :
          disc = c.disc /\ remote = c.remote /\ files = c.files /\ command = c.command
    /\ pc = "parse" /\ exit = "none"
    /\ filters = <<>> /\ fetch = <<>> /\ aborted = FALSE
    /\ collection = {} /\ failed = 0 /\ todo = {} /\ writing = Nobody /\ inflight = {}
    /\ touched = {} /\ removed = {} /\ lost = {} /\ tree = files
    /\ faults = 0 /\ edits = 0

Step ==
    \/ Refuse \/ DiscoveryFails \/ Discover
    \/ \E i \in DOMAIN fetch : List(i) \/ Get(i) \/ NextRound(i) \/ FetchFails(i)
    \/ FetchAborted \/ Collect
    \/ Unwritable \/ Open \/ Encode \/ Report
    \/ Read \/ Send \/ Deleted \/ DeleteFails

Next == Step \/ OthersEdit \/ Killed

Spec == Init /\ [][Next]_vars

-----------------------------------------------------------------------------
TypeOK ==
    /\ pc \in {"parse", "fetch", "read", "write", "delete", "print", "editor", "push", "done"}
    /\ exit \in {"none", "0", "1", "2", "killed"}
    /\ todo \subseteq collection /\ inflight \subseteq collection
    /\ \A p \in DOMAIN files : files[p] = Cut \/ Path(files[p]) = p
    /\ Cardinality(inflight) <= MaxInflight

(* A pull that failed to fetch what it must stop for left every file alone, *)
(* and the only file ever left incomplete is one whose writing failed or    *)
(* was cut short.                                                           *)
FilesAreSafe ==
    /\ (\E i \in DOMAIN fetch : fetch[i].state = "failed") /\ FetchStops => files = tree
    /\ \A p \in DOMAIN files :
         (files[p] = Cut /\ pc = "done" /\ exit # "killed") =>
            \/ p \in DOMAIN tree /\ tree[p] = Cut
            \/ \E i \in lost : Path(i) = p

(* Status 2, log in and run it again, is only for commands that did nothing *)
(* yet.                                                                     *)
LogInFirst == exit = "2" => files = tree /\ removed = {} /\ collection = {}

(* Lookups: every descriptor found is one the selector names, in a group    *)
(* that is not ignored; all versions of it are found when all are wanted.   *)
SelectorsMeanTypes ==
    pc = "parse" /\ ~UpdateFails(Index) =>
        \A s \in ToSet(command.args) :
            /\ LookupPartialGVK(Index, s) \subseteq LookupAllVersions(Index, s)
            /\ LookupAllVersions(Index, s) =
                 {r \in ToSet(disc.resources) :
                    Names(disc, s, r) /\ r.usable /\ r.group \notin IgnoredGroups}

(* Where no word stands for two types or two groups of those that can be    *)
(* asked for, and no group has two types of one kind and version: what the  *)
(* server that describes itself must not do for a selector to have a meaning.*)
Usable(d) == {r \in ToSet(d.resources) : r.usable /\ r.group \notin IgnoredGroups}
Words(r) == {r.kind, r.singular, r.plural}

WordsAreClear(d) ==
    /\ \A r, s \in Usable(d) :
          /\ Words(r) \cap Words(s) # {} =>
                r.kind = s.kind /\ r.singular = s.singular /\ r.plural = s.plural
          /\ r.group = s.group /\ r.kind = s.kind /\ r.version = s.version => r = s
    /\ \A g, h \in ToSet(d.groups) :
          /\ g.name \notin IgnoredGroups /\ h.name \notin IgnoredGroups
          /\ {g.name, g.short} \cap {h.name, h.short} # {}
          => g.name = h.name

CasesAreClear ==
    \A c \in Cases : ~UpdateFails(FilterDiscoveryResults(c.disc)) => WordsAreClear(c.disc)

(* Where discovery lists a type that can be asked for in each version that  *)
(* its group is served in and that an object of it is stored in.            *)
VersionsAreListed(c) ==
    \A o \in DOMAIN c.remote, r \in Usable(c.disc), g \in ToSet(c.disc.groups) :
        /\ r.group = o[1] /\ r.kind = o[2] /\ g.name = o[1] /\ c.remote[o].stored \in g.versions
        => \E s \in Usable(c.disc) :
               s.group = o[1] /\ s.kind = o[2] /\ s.version = c.remote[o].stored

CasesAreListed == \A c \in Cases : VersionsAreListed(c)

(* What a command does follows from what its words mean.                    *)
PullDeleteInv == TypeOK /\ FilesAreSafe /\ SelectorsMeanTypes /\ LogInFirst

(* What the arguments say of an object, the whole way from their words to   *)
(* the server: any version of its type is named, and it is, or all are.     *)
Means(s, o) ==
    /\ \E r \in ToSet(disc.resources) : r.group = o[1] /\ r.kind = o[2] /\ Names(disc, s, r)
    /\ s.uids = {} \/ o[3] \in s.uids

(* delete removes what its arguments name, or with --path what the files    *)
(* hold of it, everything of a type only with --force, and nothing in a dry *)
(* run: no empty list on the way turns into "everything".                   *)
DeletesOnlyWhatIsNamed ==
    \A o \in removed :
        /\ command.name = "delete" /\ ~command.dryRun
        /\ IF command.args = <<>> THEN command.force /\ command.path
           ELSE \E s \in ToSet(command.args) : Means(s, o) /\ (s.uids # {} \/ command.force)
        /\ command.path => \E p \in DOMAIN tree : tree[p] # Cut /\ Object(tree[p]) = o

Untouched(o) == o \notin touched
Wanted(o) == \E f \in ToSet(filters) :
                f.group = o[1] /\ f.kind = o[2] /\ (f.uids = {} \/ o[3] \in f.uids)

(* Exit status 0, errors not being ignored, means done: each object that    *)
(* was asked for and that nobody touched is in its file, printed or gone,   *)
(* unless writing it failed, a filter could not be fetched for a delete (neither   *)
(* is counted), or two objects share one file.                              *)
ExitZeroIsComplete ==
    exit = "0" /\ FailOnErrors /\ ~command.path =>
        \A o \in DOMAIN remote :
            Wanted(o) /\ Untouched(o) =>
                CASE command.name = "pull" ->
                       Exists(o) /\ (command.includeManaged \/ remote[o].manager # "other") =>
                          \/ \E i \in lost : Path(i) = <<o[2], o[3]>>
                          \/ /\ <<o[2], o[3]>> \in DOMAIN files
                             /\ LET i == files[<<o[2], o[3]>>] IN
                                i # Cut /\ (Object(i) = o => i.rev = remote[o].rev)
                  [] command.name = "get" ->
                       Exists(o) => \E i \in collection : Object(i) = o /\ i.rev = remote[o].rev
                  [] command.name = "delete" ->
                       (\A k \in DOMAIN fetch : fetch[k].state = "done") =>
                          ~Exists(o) \/ command.dryRun
                  [] OTHER -> TRUE

(* --on-error fail (its help): continue processing all items and exit 1 if  *)
(* any failed.                                                              *)
FailuresExitNonZero ==
    exit = "0" /\ command.onError = "fail" =>
        lost = {} /\ \A k \in DOMAIN fetch : fetch[k].state # "failed"
=============================================================================
