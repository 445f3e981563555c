# grafanapi: formal models

TLA+ models of [grafanapi](../src), the command line that manages Grafana
dashboards, folders and alerting as files, with TLC runs that check them on
small instances and TLAPS proofs, for every value of the constants, about those
that keep state others depend on.

Everything here is translated from the Go code under `src/`. What is not under
`src/` (Grafana, the macOS Keychain, launchd, browsers, editors, other users)
is modelled by how the code uses it, as the actions and helpers that
`PROJECT.json` marks external. `PROJECT.json` maps each definition to the lines
it stands for.

1. [The system](#1-the-system)
2. [Modules](#2-modules)
3. [How state and actions correspond to the code](#3-how-state-and-actions-correspond-to-the-code)
4. [Runs](#4-runs): what each checks, bounds, fairness
5. [Proofs](#5-proofs)
6. [Where code and documents disagree](#6-where-code-and-documents-disagree)
7. [Not modelled](#7-not-modelled)
8. [Plan](#8-plan)
9. [Working on it](#9-working-on-it)

## 1. The system

grafanapi authenticates with a browser session cookie. Cookies expire, have to
be rotated, are single-use in the sense that a rotated one is dead, and are kept
in the macOS Keychain, where several processes share them. Around that core are
commands that copy resources between a server and a directory of files, an
alerting bundle with a plan/apply cycle, a local preview server, and a launchd
agent that keeps sessions from expiring.

| Component | State | Operations | Talks to | Hard because |
|---|---|---|---|---|
| Session source (`internal/config/session_source.go`) | current cookie, its generation, the call in flight | `Current`, `Rotate`, `Refresh`, `RoundTrip` | every HTTP transport; the rotate endpoint; the Keychain | goroutines see one 401 together or late; a rotation must happen once; failures and panics must not strand waiters |
| Stored credential (`internal/config/credentials.go`, `internal/keychain`) | one Keychain item per context: cookie and origin | resolve, bind a legacy item, re-persist; `Get`/`Set`/`Delete` with a timeout | Keychain, configuration, session source | processes interleave between read and write; a timed-out write may still land; a cookie must not go to another server |
| `login`, `login update` (`cmd/grafanapi/login`) | the context and its item | verify, store, write the file, roll back; rebind guard | Keychain, configuration file, Grafana | several steps of which each may fail; the guard is checked before a prompt |
| Configuration (`internal/config/loader.go`, `editor.go`, `cmd/grafanapi/config`) | the file, an item per context | `set`, `unset`, `use-context`, `login`; load with overrides | environment, flags, Keychain | each command rewrites the whole file from what it loaded, unlocked; truncates before it encodes; overrides mix into what is written |
| Session refresh, keepalive (`cmd/grafanapi/session`, `internal/launchd`) | plist, loaded agent, age of each session | refresh `--due`/`--all`/one, install, uninstall | launchd, Keychain, Grafana | ambiguous launchctl answers; kills between steps; interval arithmetic against Grafana's lifetime; many contexts, one exit status |
| Resource reader (`internal/resources/local/reader.go`) | two channels, an error group, the collection | walk, read, collect | `push`, `delete --path`, `serve` | three kinds of goroutine on bounded channels, cancellation |
| Pusher (`internal/resources/remote/pusher.go`, `folder_hierarchy.go`) | folder levels, requests in flight, summary | sort, push level by level, then the rest; upsert | Grafana, other users | parents before children, cancellation, lost edits, cycles |
| Selection (`selector.go`, `filter.go`, `discovery`) | an index of names | `MakeFilters`, lookups, `Matches` | `pull`, `delete`, `push` | names are kinds, singulars, plurals, short and long groups; an empty list means "all" in several places |
| `resources pull`, `delete`, `get`, `edit` (`puller.go`, `deleter.go`, `writer.go`, `edit.go`) | fetched collection, files, summary | fetch concurrently, write, delete, print, open in an editor | server, file system, the pusher | partial failures, versions, what the exit status says; what was pulled has to be pushable |
| Alerts plan (`internal/alerts/diff.go`, `body.go`, `provenance.go`, `scope.go`) | none: pure | `Plan`, `ProvenanceHeader`, `scopedOffence` | push | the plan has to foretell the write exactly |
| Alerts push (`internal/alerts/push.go`) | plan, result | fetch, plan, write in phases | Grafana, others, a session that may die | order, concurrency, abort, headers, redacted secrets |
| Rule operations (`internal/alerts/ruleops.go`) | outcome per rule | delete, pause, resume | Grafana | rewrites whole groups to change one rule |
| Alert queries (`internal/alerts/rules.go`, `state.go`, `get.go`) | none: two requests joined | list, get | Grafana | the second request may fail, and the rules change between the two |
| Errors and exit codes (`cmd/grafanapi/fail`, `main.go`) | none: pure | convert, exit | every command | one error holds several; converters claim it in an order of their own |
| Alerts pull and bundle files (`internal/alerts/pull.go`, `files.go`) | a directory | fetch, write, prune; read with refusals | file system, user's edits | a cut-short pull leaves a directory that a later push may act on |
| Serve (`internal/server`, `cmd/grafanapi/resources/serve.go`) | resources in memory, files, tokens and cookies | GET/PUT, watch, reload, guard | browser, editor, Grafana through the proxy | watcher and handlers share memory and files; cookies are per host |
| Live reload (`internal/server/livereload`) | set of connections, a bounded queue each | register, broadcast, drop, unregister | watcher, browsers | slow and dead clients, sends on closed channels |

The components meet at four places. The *Keychain item* is shared by
login, every command's credential resolution, the session source's persist and
the keepalive agent. The *configuration file* is read by all and rewritten by
`config` and `login`, and whether an item has a context in it decides if anything
will ever use or remove that item. The *directory of files* is shared by pull, push, serve and
the user. The *401* starts at Grafana, is handled by the session source, and
what it cannot handle decides exit status 2 of every command.

What makes each component correct is stated next to its run in section 4; the
hazards, each at its line and with the properties that would catch it, are in
`PROJECT.json`.

## 2. Modules

| Module | Models | Used by |
|---|---|---|
| `SessionSource` | `session_source.go`, one action per critical section | `MCSessionSource`, `SessionSourceProofs` |
| `RotatingCookie` | abstract: what a session source promises | refined by `SessionSource` (`Abstract`) |
| `SessionSourceProofs` | theorems about it | |
| `CredentialLifecycle` | Keychain item, configuration, login, update, use | `MCCredentialLifecycle`, `CredentialProofs` |
| `CredentialProofs` | theorems about it | |
| `ConfigCommands` | the file, `set`, `unset`, `use-context`, `login`, the items' fate | `MCConfigCommands`, `ConfigProofs` |
| `ConfigProofs` | theorems about it | |
| `KeepAlive` | session refresh, keepalive, launchd | `MCKeepAlive`, `KeepAliveProofs` |
| `KeepAliveProofs` | theorems about it | |
| `LiveReload` | hub and connections | `MCLiveReload`, `PreviewProofs` |
| `ReloadFeed` | abstract: what a browser gets | refined by `LiveReload` (`Feed`) |
| `Serve` | memory, files, watcher, handlers, guard | `MCServe`, `PreviewProofs` |
| `PreviewProofs` | theorems about `LiveReload`, its refinement and `Serve` | |
| `FSReader` | the concurrent reader | `ResourcesPush` (`R`) |
| `Pusher` | sort, levels, upsert, summary | `ResourcesPush` (`P`) |
| `ResourcesPush` | `push`, `validate`: reader, then pusher | `ResourceCommands` (`Push`) |
| `Registry` | discovery index, lookups, filters (pure) | `PullDelete` |
| `PullDelete` | pull, delete, get, edit's fetch; versioned client, writer | `ResourceCommands`, `MCPullDelete` |
| `ResourceCommands` | all of them against one Grafana; edit; a push of what a pull wrote | `MCResourceCommands`, `ResourceProofs` |
| `ResourceProofs` | theorems about it and its parts | |
| `Errors` | converters and exit statuses (pure) | `PullDelete`, `AlertCommands`, `KeepAlive` (`E`) |
| `GrafanaAlerting` | external: Grafana's provisioning API | `AlertPlan` |
| `AlertPlan` | plan, provenance, scoping (pure) | `AlertPush` |
| `AlertPush` | the push | `AlertCommands` |
| `RuleOps` | delete, pause, resume | `AlertCommands` (`O`) |
| `AlertQueries` | `rules list`, `rules get`: two requests and their join | `AlertCommands` (`Q`) |
| `AlertCommands` | the three against one Grafana, edits, evaluations, dead session, exit status | `MCAlertCommands`, `AlertCommandsProofs` |
| `AlertCommandsProofs` | theorems about it | |
| `BundleFiles` | a directory and what can be done to it (pure) | `AlertsPull` |
| `AlertsPull` | the pull, interrupted anywhere | `MCAlertsPull`, `AlertsPullProofs` |
| `AlertsPullProofs` | theorems about it | |

`MC*` modules only give constants their values (`MCPullDelete` the discoveries,
objects and command lines that `MCResourceCommands` extends).

## 3. How state and actions correspond to the code

**SessionSource.** `cookie`, `gen`, `inflight` are the fields of the struct,
`calls` are the `rotateCall`s ever made (a pointer is an index), `pc` is where a
goroutine is between two critical sections of `s.mu`. `RoundTrip` reads
`Current` (an action of its own, since the request follows outside the lock);
`Rotate` is `AlreadyRotated`, `Join` or `Lead`, by the two tests in its critical
section. The leader then does `RotateOK` or `RotateError` (the POST, and a panic,
which `runRotate` turns into an error), `Publish` (the lock that installs the
cookie and clears `inflight`), `Close` (`close(call.done)`, after it, outside
the lock) and `Persist`. A cookie is a number in order of issue, so "newer" is
`>`.

**CredentialLifecycle.** One item, one context. Each process is at a point
between two Keychain or configuration accesses. `KeychainWrite` has the three
outcomes of `withTimeout`: done, failed, abandoned; `Land` is an abandoned write
that takes effect later. `Resolve`, `BindLegacy`, `Rotate`, `Persist` are what
any command does when it loads its credential; `Login…` and `Update…` are the
two commands in their order, `Rollback`/`Restore` the recovery in `runLogin`.
The configuration file is one server, `Torn` when the truncating `Write` failed.

**ConfigCommands.** Two files, the user's own and one named by `--config`.
`Start` begins a command, `Create` is `StandardLocation` writing the first file,
`LoadAndChange` reads the file with GRAFANA_SERVER and `--context` laid over it,
or refuses a torn one, and keeps the changed configuration as the process's
`snapshot`; `Truncate` and `Encode` are the two halves of `Write`. `unset` then
runs `DeleteSession` for the Keychain item of a context that went; `login` runs
`StoreSession` before it writes, and `Rollback` puts the item back if the write
failed. Nothing locks the file, so between the load and the write another process
may do all of this (`stale`).

**KeepAlive.** Time is a bounded count of units (hours) per context: `age` is
what `ModifiedAt` shows, `idle` what Grafana counts. They differ, since binding a
legacy item (which is tried before a rotation, and may fail) and a failed persist
change one and not the other. `LoadFails` is a configuration that cannot be read:
a failure for the agent's sessions that were due, status 1 for everybody. `Install` and
`WritePlist`, `Replace`, `Bootstrap` are the steps of `installKeepAlive`,
`Uninstall` and `RemovePlist` those of the uninstall; `ClassifyLoadState` turns
the outcome of a bootout and a print into absent, present or inconclusive. `Wake`
is launchd starting `session refresh --due`; `RefreshContext` handles the next
context, `Exits` makes the status from the errors, with the converters of `Errors`.
A refresh by hand may run "elsewhere", in a shell that names another configuration
file, where a legacy item is refused instead of bound.

**LiveReload.** The hub's `select` loop is `Register`, `Unregister` and, for a
broadcast, one `Offer` per connection (`todo` is the rest of the `range`), which
either fills the buffered `send` channel or drops and closes it. `reader` and
`writer` are the two goroutines of each connection.

**Serve.** `disk` holds a document per file (or a truncated or mixed one),
`memory` what `Resources` holds per name, `events` what fsnotify has queued, and
a `handler` a PUT at one of its steps `Find`, `Truncate`, `Encode`, `SetRaw`,
`Respond`. `Add` is `Resources.Add` by the watcher with the `OnChange`
callbacks. `Guard` is the middleware's decision, `jar` the browser's cookies.
`AllowedHosts` and `OriginAllowed` are translated for names and ports; the requests
that reach `Guard` are what a browser sends from the printed URL, from the
preview's own page, and from a page of the other preview, for each `--address` of
`Addresses` (`ByUser`, `FromPage`, `FromOther`).

**FSReader, Pusher, ResourcesPush.** `Walk`/`WalkEnd`, `Dispatch`, `ReadFile`,
`SendResult`, `DispatchEnd`, `Collect` are the three goroutines of `Read` with
`pathCh` and `resCh` as bounded sequences. `LevelsOf` is
`SortFoldersByDependency`; `PushLevel` starts a `ForEachConcurrently`, in which
each resource goes `Begin`, `Get`, `SendWrite`, and ends as pushed, failed or
skipped, `EditByOthers` in between. `ResourcesPush` runs one after the other, as
`pushCmd` does; `validate` is its dry run.

**Registry, PullDelete.** `Registry` is pure: an index from discovery results,
the two lookups, filters and matching. `PullDelete` is the commands that fetch, from
parsing to exit status: `Discover`, `List`/`Get`/`NextRound` per filter (the
second round fetches objects in their stored version), `Collect`, then `Open` and
`Encode` per file, or `Send` per deletion.

**ResourceCommands.** One command of `PullDelete`, or one push of `ResourcesPush`,
or both in turn: the files a pull left are the tree of the push, with the
manager field the pull stripped set again. `edit` is the fetch of one object, the
editor, and `EditSaved`, an upsert that reads the version again.

**Errors.** An error is the sequence of types in its chain, as `errors.As` walks
it. `Converters` is the list of `ErrorToDetailedError`; the first that finds its
kind decides, and `ExitStatus` is `main`'s status.

**AlertPlan, AlertPush, RuleOps, AlertCommands.** A rule is `uid`, `title`, one
value for everything a write carries, `paused` and `prov`. `Plan` has the three
planners of `diff.go`; `GroupDetail` the lines it prints. `AlertPush` is `push`:
`Lookup`, `FetchGroup`, `FetchPoints`, `FetchTree`, `MakePlan`, then
`PushContactPoint`, `PushPolicyTree`, `CheckFolders`, `PushRuleGroup`, each one
request with its outcomes (done, rejected, failed with or without effect, 401).
`RuleOps` is `Resolve` for every rule first, then `DeleteNamedRule`, or
`FetchBatch` and `PutBatch` per group. `AlertQueries` is `AskDefinitions`, then
`AskStates`, then the rows; `Evaluate` is Grafana in between. A rule whose value is
`RecordVal` is a recording rule. `PushExits` and `RuleOpExits` are the exit statuses
the commands make of their errors, by `Errors`.

**BundleFiles, AlertsPull.** The directory maps an *entry* (folder, name as the
file system folds it, extension) to its spelling and document; `CutDoc` and
`CutTop` are half-written files. `AlertsPull` fetches, checks, then writes,
prunes and rewrites the two top-level files, one file operation a step, with
`Interrupt` possible everywhere and edits of files and of Grafana in between.

## 4. Runs

Distinct states are rounded. Each property has one mutant, an operator defined
just before the definition it stands in for (most are marked *mutant*): the definition changed the way a plausible bug would. With it, the
run finds the property violated.

| Run | Checks | What it shows | Size and bounds |
|---|---|---|---|
| `session_source` | `IInv`, `CookiesMoveForward`, `EveryRequestReturns`, `ImplementsRotatingCookie` | single flight; no generation is rotated twice; no retry with the rejected cookie; every request returns; the source implements `RotatingCookie` | 3 goroutines (one leads, one joins, one is late), 3 requests (a rotation after a failed one) |
| `credential` | `Inv`, `CookieOnlyToItsServer`, `KeychainKeepsLiveSession`, `FailureLeavesItem`, `NoSilentRebind` | whatever two processes do at once and whichever step fails, no cookie goes to another server, the stored one stays alive, a failed login puts the old item back, `login update` rebinds nothing unasked | 2 processes, 2 origins, 3 cookies (issued, rotated, pasted), all fault kinds |
| `config` | `Inv`, `SessionsHaveContexts`, `OnlyNamedChanges` | a torn file is refused by every command and never written back as an empty one; a command changes what it names and what overrides it was given, nothing else; a stored session keeps a context that can use and remove it | 2 processes, 2 names, 2 servers, 2 files, 3 commands, 1 fault; 2.9 million states |
| `keep_alive` | `Inv`, `StaysWarm`, `ReportsAreTrue` | a session on the schedule outlives the inactivity limit; "installed" and "removed" are so; one dead session makes exit 2, nothing but a dead or an unbound one does, and 0 means all rotated (`ExitTellsTheWorst`) | 2 contexts with windows at both ends, so that both clamps bite; 1 fault, 1 edit or refresh elsewhere; 3.2 million states |
| `live_reload` | `LiveInv`, `HubGoesOn`, `ImplementsReloadFeed` | no send on a closed channel by the hub, no blocked broadcast, nothing left of dead connections; a browser gets every message in order from joining until it is cut off | 2 browsers, a buffer of 1 (full after one message), 3 messages |
| `serve` | `Inv`, `CaughtUp`, `SaveIsServed`, `PreviewIsFresh` | after all events are handled memory is what the file holds, an undisturbed save is served, a reloaded browser shows it; a preview's cookie survives its neighbours, and the page of one is refused by the other | 2 files, 2 names, 2 saves at once, 1 outside change, 2 starts, on the port that URLs leave out, and a second preview; five addresses, a wildcard and a link-local one among them; 2.1 million states |
| `resource_commands` | `Inv`, `DeletesOnlyWhatIsNamed`, `ExitZeroIsComplete`, `ParentsSettledFirst`, `PushReportIsTrue`, `RoundTrip`, `NoLostEdit`, `CommandEnds` | no empty list turns into "everything"; a stopped pull touches no file; exit 0 means done; lookups find what the words name; all that is readable is pushed, parents first, and counted once; what a clean pull wrote, a push puts back, to the same server or an empty one; other users' edits are not overwritten unseen; no deadlock among reader, readers and collector | three discoveries (plain, two groups with one kind, inconsistent), 90 command lines, all `--on-error` modes; five trees of up to 4 files: nested, wide, cyclic, broken, with an object twice; 2 reads and 2 requests at once; 2 faults, 1 edit; 0.5 million states |
| `alert_commands` | `Inv`, `PlanForetellsWrites`, `PushConverges`, `AbortIsPrefix`, `AnswersAreHonest`, `SiblingsUntouched`, `OutcomeIsTrue` | the plan says exactly what the PUT does; a second push has nothing to do; abort leaves a prefix; a scoped push and a pause leave other rules alone; reports and exit statuses are so (`ExitSaysWhatToDo`); a list misses no rule that was there, shows none in a state or folder it never was in, and an outage is no empty list | two groups, two contact points, a tree, two folders that share a title; whole, scoped and dry pushes, an empty instance, foreign provenance, rule operations beside a push, queries beside a push that moves a rule and turns another into a recording rule; 1 edit or evaluation; 1.3 million states |
| `alerts_pull` | `Inv`, `PullIsSnapshot`, `NothingVanishes` | a pull leaves exactly what Grafana held; wherever it is cut short no group is missing that a push would then delete; named-rule pulls keep local work | two folders, titles that differ in case only, both extensions, six requests, 2 pulls, 1 edit |
| `session_source_keychain` | violates `KeychainMovesForward` | section 6 | 2 goroutines, 4 requests |
| `alerts_pull_rename` | violates `RenameFreely` | section 6 | as `alerts_pull` |
| `pull_delete_failures` | violates `FailuresExitNonZero` | section 6 | as `resource_commands` |

**Why the bounds are enough.** Each actor whose identity matters comes twice, or
three times where one has to come late. Counters bound how often, not what: within
them every property is violated by at least one plausible bug in the code it is
about (the mutants), so no property holds for want of room. `MaxRequests`, `MaxCookies`, `MaxMessages`, `MaxFaults`,
`MaxEdits`, `MaxPulls`, `MaxReads`, `MaxConcurrency`, `MaxInflight`, `Buffer`,
`Runs`, `MaxCommands`, `MaxPushEdits` are the bounds; the code's own values are larger or absent (256 messages
of `Buffer`, 10 requests of `MaxConcurrency`).

**Excuses.** Some properties except what the code does not promise, always by a
history variable that says exactly when: `disturbed` (another process's write
fell into the command), `lossy` (a rotation whose result could not be stored),
`touched`, `lost`, `homes` (a document that was ever in two files), `watched`
(continuously opted in and scheduled, without a failed rotation or wake), `stale`
(another process wrote the file after this one loaded it), `abandoned` (a context lost by such a write, or a command cut
short before its clean-up), `ever` and `always` (what was true at some, or at every,
moment of a query). What is excepted is listed in section 6. So a late landing of an
abandoned Keychain call is within `CookieOnlyToItsServer`, but outside
`FailureLeavesItem` (it makes the command `disturbed`); another process that binds the
item between the check and the overwrite of `login update` is outside
`NoSilentRebind`; a rollback or a bind that overwrites what another process stored is
outside `KeychainKeepsLiveSession` (`lossy`). `SessionsHaveContexts` is one direction:
a context without a session is where every user begins.

**Symmetry** is used over processes, servers, contexts, handlers, files, names,
in runs without liveness only.

**Deadlock** is checked where something can always happen (`session_source`,
`keep_alive`; requests come back to idle and time passes). The other runs model
commands that end, or bounds that are reached, and say `CHECK_DEADLOCK FALSE`;
that they do not end too early is `CommandEnds`, `HubGoesOn` and the `done`
conjuncts of the others.

**Fairness.** `session_source`: weak fairness of each goroutine's own steps
between beginning a request and its end (`Progress`), as the Go scheduler gives;
the HTTP calls have timeouts, so they count as steps that happen. Nothing forces a
request to begin or Grafana to accept. `live_reload`: the hub's `Offer`, which
never blocks; `HubGoesOn` is `BroadcastEnds` and `DeadConnectionsEnd`, which states its further assumption in its formula:
the connection's goroutines run and `select` does not starve a channel (strong
fairness). `resource_commands`: the goroutines of the reader and the pusher's
requests (`WF` of `Read`, `ReadError`, `Push`), not of other users.

**Abstract specifications.** `RotatingCookie` is one cookie replaced atomically
and a `Rotate` that grants a newer cookie or refuses; the mapping is `published`
(the current cookie and those of successful calls) and `caller`. `ReloadFeed` is
publish, join, deliver in order, cut; the mapping reads a browser's status off
its socket and writer.

## 5. Proofs

A proof module per component, or for two that meet (`PreviewProofs`). A run shows a property on its instance; the
theorem has it for every value of the constants that the module's assumptions
allow (TLC evaluates these on each run). Each module has one inductive
invariant, proved in three facts: it holds initially, every step keeps it, and it
implies what is promised. Where the invariant's parts are not the promises
themselves, they stand in the modelled module under "What the properties rest
on" and are conjuncts of its `Inv`, so the run checks them, too; those of the resources commands stand in
`ResourceProofs`.

| Module | Theorem | Statement |
|---|---|---|
| `SessionSourceProofs` | `Invariance` | `Spec => []IInv` |
| | `TypeCorrect` | `Spec => []TypeOK` |
| | `SingleFlightHolds` | at most one goroutine is at the rotate endpoint |
| | `NewestCookieRotated` | the rotation under way is of the newest cookie |
| | `GenerationRotatedOnce` | no generation is rotated successfully twice |
| | `RetryIsNewer` | every retry carries a newer cookie than the rejected one |
| | `CookiesForward` | `Spec => []CookiesMoveForward`, the last but one and this |
| | `AnswersPublished` | a cookie `Rotate` returned is in force |
| | `NoOrphanedWaiter` | whoever waits has a goroutine that will close the channel |
| | `Refinement` | initial states and steps are those of `RotatingCookie` |
| `CredentialProofs` | `CredentialsAreSound` | `Spec => []Inv` |
| | `CookiesGoHome` | a cookie is only sent to the server that issued it |
| | `SessionSurvives` | while no rotated cookie is lost, the item is one Grafana accepts or a process is about to store its successor |
| | `FailedLoginRestores` | a failed, undisturbed login leaves the item it found |
| | `UpdateAsksFirst` | `login update` without `--rebind` rebinds nothing it saw |
| `ConfigProofs` | `ConfigIsSound` | `Spec => []Inv` |
| | `SessionsAreReachable` | `Spec => []SessionsHaveContexts` |
| | `ChangesAreNamed` | of the pure functions: a load, with overrides, and a change differ from the file in what the command names, and nothing else |
| | `CommandsChangeWhatTheyName` | `Spec => OnlyNamedChanges`, an action property |
| `KeepAliveProofs` | `AgentIsSound` | `Spec => []Inv` |
| | `SessionsStayWarm` | if overrides fit, no watched session reaches Grafana's inactive lifetime |
| | `ReportsHold` | `Spec => []ReportsAreTrue`: "installed", "removed" and exit 0 are said only when so, exit 2 when a session was rejected |
| `PreviewProofs` | `HubIsSound` | `LiveSpec => []LiveInv` |
| | `FeedImplemented` | `LiveSpec => ImplementsReloadFeed`, the refinement of `ReloadFeed` |
| | `ServeIsSound` | `Spec => []Inv`, of `Serve` |
| | `MemoryCatchesUp`, `BrowserCatchesUp` | when nothing is under way, memory and browser have what the files hold |
| | `SavesAreServed` | a save that had its file to itself is in file and memory when it is answered |
| `ResourceProofs` | `OnlyWhatIsNamedGoes` | what a delete removes, its arguments name; a dry run removes nothing |
| | `FilesStaySafe` | a stopped pull touches no file, a file is cut only where its write failed, status 2 is of commands that have done nothing |
| | `NothingIsLeftUnread` | a read that ends without an error has all that can be read |
| | `ParentsComeFirst` | `CommandsSpec => []ParentsSettledFirst` |
| | `SummaryIsTrue` | a push without an error has counted each resource once |
| | `EditsAreKept` | `CommandsSpec => NoLostEdit`, an action property |
| | `CommandsAreSound` | `CommandsSpec => []Inv`, of `ResourceCommands`, where no word names two resources (`CasesAreClear`) |
| | `PushReportsHold` | `CommandsSpec => []PushReportIsTrue` |
| | `ExitZeroMeansDone` | `CommandsSpec => []ExitZeroIsComplete`, where discovery lists the versions objects are stored in (`CasesAreListed`) |
| | `BackupsRoundTrip` | `CommandsSpec => []RoundTrip`, under `CasesAreListed` and where a backup can be whole (`BackupsAreSound`): a clean push of a clean pull restores exactly what both were asked for, in the versions it was stored in |
| `AlertsPullProofs` | `PullIsSound` | `Spec => []Inv`, with `LocalWorkKept` |
| | `SnapshotIsLeft` | a finished, undisturbed pull leaves what it asked for, as Grafana held it |
| | `NothingIsLost` | if users do not name files like other groups, an interrupted pull has lost the content of one file at most |
| `AlertCommandsProofs` | `CommandsAreSound` | `Spec => []Inv` |
| | `GrafanaStaysWhole` | whoever writes, no rule is in Grafana twice |
| | `PushAccounts` | each change of the plan is reported once, blocked folders for their groups and only those, and a dead session is returned |
| | `AbortLeavesPrefix` | with `--on-error abort`, what was applied is what precedes the failure |
| | `SiblingsStay` | `Spec => SiblingsUntouched`, an action property: scoped pushes and pauses change the named rules only |
| | `PlansForetell` | where every group of the bundle has a rule (`BundlesAreFull`), what a plan says of a group that exists is what its PUT will do, nothing more or less |
| | `PushesConverge` | `Spec => []PushConverges`, under `BundlesAreFull` and where Grafana can take all of the bundle (`BundlesTakeable`): nothing is rejected, what is applied is there, and a second push plans no write |
| | `OutcomesHold` | `Spec => OutcomeIsTrue`, an action property: what a rule operation reports is so when it is reported |
| | `QueriesAreHonest` | lists miss nothing and invent nothing |
| | `SecretsKept` | the marker of a secret is never stored in its place |
| | `ExitsSayWhatToDo` | 2 if and only if the dead session was met, 0 only if all is done |

**Session source** (`MaxRequestsAssumption`: a natural number).
None of the properties is inductive. `SingleFlight` needs to know that a leader
owns `inflight` (`LeaderInv`), which needs that only the last call can be running
(`CallsInv`). That retries are newer needs to know what a goroutine saw against
what the source holds now (`SeenInv`: same generation, same cookie; later
generation, newer cookie), that the call it joined rotates what it saw
(`JoinedInv`) and that the answer is the call's (`ResultInv`). `CloserInv` says
that a call not yet closed has a goroutine on its way to close it, which is what
keeps waiters from waiting for ever, also after the failed rotation of section 6
where a second call begins before the first is closed. `IInv` is the conjunction;
TLC checks it in `session_source`.
The proof has one lemma per conjunct (`TypeStep`, `SingleFlightStep`, `CallsStep`,
`LeaderStep`, `CloserStep`, `GenerationsStep`, `ThreadsStep`), each with a step
per action that can disturb it; `Steps` splits `Next` once for all. For the
goroutines, `SourceGrows` says the source only moves forward, `StandingThread`
that this keeps what holds of goroutines that do not move, and `MovingThread`
treats the one that does. `RefinementStep` shows each action to be a step of
`RotatingCookie` or a stutter.

**Credentials** (`CommandAssumption`, `MaxCookiesAssumption`: at least one
cookie). `OriginInv` is that every item, late write and held credential which
carries an origin carries that of its cookie's issuer, and that an unbound one is
legacy; `FreshInv` that what a process holds was issued before what comes next, so that
"alive" can be told from the order of issue; `UndisturbedInv` what a process that
nobody crossed may rely on at each of its steps (`QuietInv`, with the two
promises about failed logins and updates), and `LiveInv` who carries the
successor of the item's cookie. `OneProcessMoves` is the frame: what is said of
one process is disturbed by its own step or through the item. Both `disturbed` and
`lossy` only grow, so that excused processes stay excused.

**Configuration** (`NameAssumption`, `ServerAssumption`: the model's markers are
no name and no server; `FilesAssumption`, `InvocationsAssumption`: the files users
begin with are configurations, and command lines are such that the flag parser lets
through). `CommandInv` ties what a command that nobody overtook is about to write to
the last configuration written whole: it is `Changed` of that. That makes
`OnlyNamedChanges` a fact about pure functions, `ChangesAreNamed`. `SessionsInv`
names who settles a stored session without a context: an `unset` that has yet to
delete it, or a `login` with its context still to be written or its item to be put
back (`Settles`); `SessionsHaveContexts` is the case that no command runs.
`FirstCommandInv` is needed for `FilesInv`: without a fault and with one command a
torn file has a process that is writing it.

**Keepalive** (`BoundsAssumption`: the order of the code's limits, and
`MaxWindow + DerivedMax <= InactiveLifetime`, which its constants satisfy: 6 days and
12 hours against 7 days). `StaysWarm` bounds three clocks at once: `Warm` says of a watched
session that its item's age is that of its last rotation up to the largest window,
that it was not due when the agent last ran, `idle < MaxWindow + asleep`, unless the
refresh under way has still to come to it, and that `asleep` is bounded by the loaded
interval. `AgentInv` keeps the interval within bounds through every step of an
installation, `RefreshInv` says that a context the refresh has passed is rotated or
noted. `SessionsStayWarm` has the hypothesis `OverridesFit`: an `--interval` a user
gives leaves room for the largest window. Without it the property is false of the
code (section 6). `ReportsHold` needs that each kind of failure is noted once: so a refresh
that met no rejected and no unbound session has one error to convert (`WorstExit`).

**Live reload** (`BufferAssumption`, `MaxMessagesAssumption`). `ConnectionsInv`
says who is in the hub and whose channel is closed; `QueueInv`, that the channel
of each browser holds what was offered to it and not yet written, without a gap. It is
proved from three lemmas about sequences without gaps (`AppendReload`,
`AppendHello`, `TakeNext`). `FeedImplemented` is the whole refinement, since
`ReloadFeed` states no fairness.

**Serve** (`NamesAssumption`; `BoundsAssumption`: finitely many handlers). `HomesInv`
is that nobody speaks of a name and a file that never went together. `FilesInv` is the heart
of the "catches up" theorems: of every file, an event is queued, or the watcher has
read it as it is, or memory and browser know it and no handler is about to set memory
back. A handler that was overtaken between its write and its `SetRaw` makes an event,
which is why an older revision in memory is transient. `CleanInv` follows a save that
has its file to itself through its steps. `TokensInv` gives `StaysAdmitted`;
`PreviewsAreApart` follows from the constants alone.

**Resources commands** (`CasesAssumption`: the answers of discovery are lists, a type that can be asked for
has the same singular and plural in each version of its group, which the API machinery sees to, a
directory is finite and has its objects where a pull writes them, only `delete` has
`--path`, only a pull is followed by a push, a selector names a version only with a group, objects
on the server go by type and name and have natural versions; `LimitsAssumption`: at least one
reader and one request at a time, a natural number of edits, trees are sequences, and options are records). Three theorems
say what they assume besides, because they are false without it. `CommandsAreSound` has
`CasesAreClear`: a word that is the kind of one type and the plural of another gets
the lookup that comes first, and `SelectorsMeanTypes` fails. `ExitZeroMeansDone` has
`CasesAreListed`: an object stored in a version that discovery does not list its type
in is passed over by a delete with a log line ("Skipping resource not supported by the API"), and
the command exits 0. `BackupsRoundTrip` has, besides, `BackupsAreSound`: with `--on-error ignore` a
pull that missed some of its objects exits 0; the directory holds no
version of an object beforehand, which is how the model tells what the pull wrote from what it
found; where two groups have an object each of one kind and name, their files
have one path, and the pull keeps one of them; folders on a cycle, which Grafana never
has, would not be pushed. `MCResourceCommands` asserts all three of the run's cases. The proofs rest on the following
inductive invariants.
`PullDeleteIInv` follows an argument from the command line to what is removed:
`LookupFinds` says of the two lookups that all they find is a type the selector names
(without the assumption on names it is false: a lookup goes on from the kind alone,
and another version of that kind may have other names), `LookupsMean` that they find every
version of it if words are clear, `FiltersAre` that
each filter comes from a selector and carries its names; `FetchInv` that each
goroutine fetches within its filter, in both rounds; `AskedInv` that selectors,
filters, the collection and the requests are contained in one another, and that an empty list
is at none of these steps what is left of one that was not (`Accepted`). `FilesInv` says
which command is at which step and what each file holds there.
`PushIInv` is about what follows. `ReadInv` accounts for each path the walker has
passed: on a channel, with a reader, or collected, and a closed channel has
nobody left to send on it. `CountInv` ties the two counters of the summary to the
callbacks, `ResultInv` the result to both. `OrderInv` is why parents come first:
a folder is settled, under way, or in a level still to come, and the parents of a level's
folders are in the one before. It rests on `LevelsAre`, about what the
sort makes of a set of folders: its recursion on depths is shown to have the value
its body says (`LevelledExists`), by induction over sets of numbers, and every sorted folder
is in one level below its parents. That it sorts nothing with a cycle (`SortedIsAcyclic`) is the
pigeonhole principle: a folder whose parents are all in the set has one at every depth, and there are more depths than
folders. `EditsAreKept` needs `PhaseInv` only: nobody writes before the read is over.
`CleanInv` is of pushes that nothing disturbs: what a request has seen is what the
server has, and the parent of a folder under way is there. The proof corrected `Pushable`, the
hypothesis of `CleanPushSucceeds`: a parent that is not in the tree must be on the server,
being known is not enough. Since it says what becomes of files that another tool manages, too (`Goes`),
`RoundTrip` can rest on it.
`CompleteIInv` is why status 0 means that all is done. `GatherInv`: a goroutine that has not
failed still asks for an object its filter covers, or has it as the server does. `BatchInv`: what was
collected is still to do, or placed, lost, gone or counted. `StoredInv` carries what
discovery says of the stored versions through the edits of others. It corrected `PullDelete`: the deleter
begins a summary of its own (`deleter.go:71`), so a delete does not count what
could not be fetched (`Recorded`).
`RoundTrip` takes all of these. `CopyInv` follows an object from the server to its file while
nobody else edits: what a goroutine has, what is collected and what is written is a copy of an object that the
filters want, in its stored version if there is one (`InStored`: the second round asks
for no other), with its manager unless that is grafanapi itself. `FollowInv` ties the tree of the push
to the files, each of them once. So the tree is `Pushable` (`BackupIsPushable`), all of
it arrives by `CleanPushSucceeds`, nothing is missing from it by `ExitZeroIsComplete` (`BackupIsWhole`),
and nothing is in it that was not asked for. The proof corrected `FoldersKnown`, a hypothesis of
`RoundTrip`: a folder whose parent another tool manages is refused by a Grafana that has lost both, if
the push leaves the parent out. The run now has such a pair of folders, and finds `RoundTrip` violated
under the hypothesis as it was.

**Alerts pull** (`PullAssumption`: every title and every own name has a file name it folds to, bounds
are natural numbers, and command lines are such that the flag checks let through;
`GroupsAssumption`: at first every group has a rule and a uid is that of one rule,
which Grafana sees to and `GroupsEdited` shows the
edits to keep). Before its first write a pull only reads: `FetchInv` and
`SnapInv` tie what was asked for and fetched to what Grafana held, as long as
nobody edits it. From the first write on, `FilesInv` says of every entry of the directory
what it is: one still to be written is as it was; one that was written holds
what was fetched, but for the one that is open or was cut; any other is as it was,
or was pruned, and that only after all were written whole. `WriteKeepsFiles` and
`PruneKeepsFiles` are its two steps; that a write disturbs no other entry needs
`ChecksInv`: groups whose names fold together were refused before. `TopsInv` is
the same for the two single files, of which an interruption catches one at most. What
vanishes must then be in an entry that was written or pruned; `FileOfAnother`
finds a written one to have held its own group, for which `PlacesInv` says where
files are found. That is true only under `OwnNamesApart`, the hypothesis of
`NothingIsLost`: section 6 has what the code does otherwise. The run's names satisfy
it.

**Alert commands** (`TextsAssumption`; `EditsAssumption`, a natural number; `CasesAssumption`:
in every situation to start from, the bundle is one that `ReadBundle` does not refuse, no
uid is that of two rules of Grafana, Grafana has given no uid that it is yet to give, no contact point there has the marker as its secret, and
command lines are such that the flag checks let through). The invariants are about one
command each, and what is difficult is that all of them, and editors, rewrite the same groups.
`GrafanaInv` is what they all keep: `IsGrafana`, that rules are apart, also from
those that a bundle without uids is going to create (`MayHold`). `GroupsKept` has
the cases of all writers: a PUT of a bundle's group, of a group with rules flipped, a
deletion, an edit. With that, `FetchedInv` relates what a push fetched to what Grafana
holds, `PlanInv` accounts for the plan (`todo`, applied and failed are its
parts), and `OrderInv` says that what was written precedes what is to be written in the
order of the bundle (`Rank`); it needs that `NextPoint` and `NextGroups` take the first
one that is left. `ScopedWrite` shows that a synthetic group, sent back to the group it was
fetched from, changes the named rules only, `PauseWrites` the same of a pause. `OpInv` keeps
the fetched group of a pause, `OutcomeInv` says where a rule without an outcome is still
waiting, which exit status 0 rests on. `AskedInv` is what a query knows between its two
requests: each definition is a fact it has seen. `FirstFailed`, and everything said of the first
of several, rests on `Least`.

`PlansForetell` needs more of a push that has not yet written a rule group (`ForeseenInv`): what was
fetched is what Grafana holds unless others have written, and Grafana has given none of
the uids that it is going to give to the bundle's rules without one (`IsOld`, which `IsCase` asks of the first
state; a pause that sends back an old group and a deletion keep it). What is left is about two
sequences of rules: `DetailIs` and the three lemmas after it take the lines of a detail marker by marker;
`OrderIs` shows that `sameRuleOrder`, which compares the uids that both have as two lists, is false
exactly if two rules are in one order here and in the other there (`SameOrder`: at the first
place where the lists differ, a pair is inverted); `NothingToSay` that the detail is empty exactly if
the rules sent are those that are there. Its hypothesis `BundlesAreFull` is needed: the PUT
of a group without rules deletes the group, and the plan may add that its interval changes.
`MCAlertCommands` asserts it of the run's cases, as it does `BundlesTakeable`.

`PushesConverge` relates what a push leaves to the bundle, through what was fetched in
between, with one invariant for each kind (`ConvergeInv`; TLC found it to hold of the
run's instance before it was proved). `PlanIs`: the plan is that of what was fetched, no contact point of the bundle
matches several, and no named rule is missing. `PointsInv`: what is still to be written is as it was fetched
(`Untouched`), what was applied is in Grafana (`IsThere`) under the uid it has or
will be given (`Target`, which `TargetsApart` shows to be that of one contact point), and nothing else was added; so
a second match finds the one that was written, and no other (`PointConverged`). `TreeInv`
and `FolderInv` say the same of the policy tree and of the folders. `GroupsInv`: a
group still to be written has no rule it did not have when it was fetched (`Left`; the push itself
may move some away), so that the provenance header fits; one that was applied is as in the bundle (`Placed`), and stays
so, since a rule of it is in no other group of the bundle (`PlacedApart`). Nothing is
rejected (`RejectedStep`) if, besides, the rules that the bundle moves from one group to
another are editable in the UI (`MovesFreely`, which pauses and deletions keep: `MovesInv`), and
the tree routes to contact points of the bundle. The other parts of `BundlesTakeable` are
needed for contact points without a uid, which the second push looks up by name: no other has the
name or, as its uid, what Grafana will give it. Without `BundlesTakeable` Grafana
may reject a part of the bundle, or a second push find another contact point than the
one that the first has written.

`Those`, `Targets` and the synthetic group are folds over sequences. What they
compute for every sequence is proved by induction over sets of numbers (`Least`, from
the library's well-founded induction, then `Induction`), which needs no
operator as a parameter: `ThoseTakes` says that `Those(seq, kept)` are the kept elements in
their order, without a gap.

**Only model-checked.** Liveness (`EveryRequestReturns`, `HubGoesOn`,
`CommandEnds`, the fairness half of `ImplementsRotatingCookie`), which is out of
the prover's reach with `ENABLED`. Every invariant and every action property that a
passing run checks is the conclusion of a theorem.

## 6. Where code and documents disagree

Checked by a run that finds the stated property violated:

- **Keychain behind the source** (`session_source_keychain`). `persist` runs
  after the rotation is published and outside the lock. Two successive leaders
  can store in the opposite order, and the Keychain keeps a cookie that is
  already dead, while `docs/configuration.md` has each rotation re-persist the
  fresh one. The process itself goes on; the next one has to log in.
- **Renamed rule group files** (`alerts_pull_rename`). `pull --rule-uid` looks
  for a group under the file name its title gives, and writes a second file
  beside a renamed one; every later read refuses the bundle. The guide says
  "Rename a file freely".
- **Failures that exit 0** (`pull_delete_failures`). Files that `pull` could not
  write, and types that `delete` could not fetch, are in no summary, so the
  command exits 0 under `--on-error fail`, whose help says "exit 1 if any
  failed".

Met while modelling, in the models where said, without a run of their own:

- A Keychain `Set` that timed out may still land, although the comment on the
  timeout expects the item to be left intact (`Land` in `CredentialLifecycle`;
  `disturbed` excuses it).
- `login` over an item it could not read cannot restore it when the
  configuration cannot be written (`Unread`); its comment says that a working
  credential is never destroyed by a failed write.
- The reader of a live-reload connection may send on its closed channel and
  panic; `connection.go` says it cannot. It ends that handler only, which
  `net/http` recovers (`reader = "panicked"`).
- `inflight` is cleared before `done` is closed, so after a failed rotation
  another goroutine may begin the next one first, which the comment above
  `runRotate` excludes. It does no harm (`CloserInv`).
- `OnChange` is registered twice by `serve --watch`: each change is broadcast
  twice. Not visible in `ReloadFeed`.
- The collector of the reader never fills the index from which it would log
  "skipping duplicate object": of two files that hold one object, the one read
  last is pushed.
- `pull` writes two resources of one kind and name, from different groups, to one
  file; `ExitZeroIsComplete` excepts them.
- A dashboard file that is copied and renamed inside while `serve` runs: the old
  name still points to it, and a save of either overwrites the other. `CaughtUp`
  and `SaveIsServed` are about names that were in one file only (`homes`).
- The map of resources in `serve` has no lock; a request during an `Add` may end
  the process (`crashed`).
- `delete --path DIR` without selectors, an example of its own help, is refused
  without `--force`: an empty selector list does not count as naming anything.
- `keepalive install --interval 6d` with a `live-window` of `6d` passes both
  bounds checks and lets a session exceed Grafana's seven days; the derived
  interval never does. `keep_alive` therefore runs without overrides.
- A session that dies after discovery ends a resource command with exit 1 and
  "Unexpected error": `dynamic.ParseStatusError` makes an `APIError` of its own that
  wraps nothing, and `convertAPIErrors` looks for a `StatusError`. The skill ("Exit 2
  → session is stale/unauthorized") and `convert_test.go` have 2 for a 401
  (`FetchAborted`).
- `session refresh` of a legacy item, refused because of `--config` or
  GRAFANAPI_CONFIG, exits 2 by `convertSessionBindingErrors`; the comment on
  `refreshAll` has 1 for all but rejected rotations (`Exits`). In a joined error the
  first refusal decides, so it may also be 1 if another context is bound elsewhere.
- `config set`, `unset` and `use-context` load the file with the overrides of
  GRAFANA_SERVER and `--context` and write those into it, too
  (`docs/configuration.md` has the variables override for one run only).
  `OnlyNamedChanges` allows for it.
- Two commands that change the configuration at once lose one of the changes
  (`stale`); `login`, which waits at its prompts between load and write, widens that
  window to minutes. Its rollback may put back the session of a context that was
  removed meanwhile.
- `login` for a context that exists drops its `live-window`; `unset` of a nested path
  of a missing context creates that context; `unset --config other contexts.X` deletes
  the session of the `X` in the user's own file; `unset contexts` leaves all items
  behind (`abandoned`).
- `edit` overwrites what others changed while the editor was open, and says "Edited!"
  also for a resource of another manager, which the pusher skips (`EditSaved`).
- A push under `--on-error ignore` or `fail` goes on without the files it could not
  read, and counts them nowhere.
- A rule that is deleted between the two requests of a query, or ceases to be an
  alert, is listed as "unknown"; one that is moved is listed in its old folder, by
  which `--folder` may also find it, with the new folder's names (`AnswersAreHonest`
  says so: `places`).
- A group's file that a user renamed to the name of another group of the folder is
  overwritten by the next whole pull when that other group is written, before its
  own group is written again; interrupted in between, the pull has lost a file it
  has not replaced. The guide's "Rename a file freely" does not except such names;
  `NothingIsLost` does (`OwnNamesApart`).
- A pull of the whole of alerting fetches groups one by one and is no snapshot if
  Grafana is edited meanwhile; nothing promises one (`disturbed`).

## 7. Not modelled

- Reads that keep nothing: `explore`, `datasources`, `resources list`,
  `contact-points list`, `keepalive status`, `config view` and `check`. One request,
  or none, whose answer is printed.
- Formatting, tables, logs, terminal escaping, flag wiring, the skill installer, the
  repository's scripts.
- Redaction of output. Its YAML half scans bytes: as TLA+ it would be the program
  again, character by character, with nothing that moves.
- URLs, cookies, and the REST configuration made of them; the two requests that
  discover a stack and a namespace. In the models a context is valid or it is not,
  and the requests fail as `LoadErrors` of `PullDelete`. (Validation and the REST
  configuration ask separately: when the second fails the namespace falls back to
  `stacks-0`, or to the organisation's.)
- In `serve`, the reverse proxy, mocks, templates and `--script`.
- Of alert queries, the order of rows, counts of instances and escapes in folder
  paths; of the configuration, fields other than the server and the live-window, and
  the search of the standard locations.

Details that the models of the following leave out, none of which a property turns on:

- `PutDashboard`: a body that cannot be decoded (400), and one whose name is not that
  of the URL.
- `EditSaved`: the object that was fetched keeps its `resourceVersion` in the editor
  and passes no processors. Saved under another name it would be created with that
  version, which Grafana may refuse; the model has a create like any other.
- `Collect`: at most one object of a fetch fails in the processors; the code goes on
  and logs each.
- `FilterDiscoveryResults`: a group-version that cannot be parsed, and a resource that
  overrides the group of its list.
- `CheckFolders`: the folder requests, which only read, are one action;
  `RecordBlocked` takes the groups in any order.
- `ScopedOffence`: the arms for states the bundles here cannot be in (an unchanged
  group with a detail, a group without rules).
- `Others` of `BundleFiles`: a file's document has no interval and no order of rules,
  which `scope.go` also compares.

`Configuration` and `Serve` are therefore listed as partly modelled. External, and
assumed: an empty YAML document is an error to the decoder (goccy reports `io.EOF`),
on which the refusal of torn files rests.

## 8. Plan

Order, most important behaviour first; done so far unless marked.

1. `SessionSource` with `RotatingCookie` and its proofs; `CredentialLifecycle`:
   the cookie is what everything else depends on.
2. `FSReader`, `Pusher`, `ResourcesPush`: what writes to Grafana.
3. `AlertPlan`, `AlertPush`, `RuleOps`, `AlertCommands`; `BundleFiles`,
   `AlertsPull`: what writes, deletes, and overwrites files.
4. `LiveReload` with `ReloadFeed`; `Serve` with the guard's policy.
5. `Registry`, `PullDelete`; `KeepAlive`.
6. `ConfigCommands`; `AlertQueries`; `Errors`; `ResourceCommands`, which composes
   everything that copies resources.
7. *To do, model*: interval overrides in `KeepAlive` with the bound they would need.
8. Proofs: `SessionSource`, `LiveReload` with its refinement, `CredentialLifecycle`,
   `KeepAlive`, `Serve`, `ConfigCommands`, `AlertsPull`, `AlertCommands` with `AlertPush`,
   `RuleOps` and `AlertQueries`; `ResourceCommands` with `PullDelete`, `FSReader` and `Pusher`,
   `RoundTrip` last.

## 9. Working on it

In this directory, `tlasany M.tla` parses, `tlc -config X.cfg MCx.tla` checks
and `tlapm XProofs.tla` proves the theorems of module `XProofs`. No module that holds theorems, or
that one extends, declares a RECURSIVE operator. When the code changes, look up
the changed lines in `map` of `PROJECT.json`, change the definitions, and run the
runs of the component; a property that no longer fails under its mutant has to
be looked at again.
