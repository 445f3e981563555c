----------------------------- MODULE KeepAlive -----------------------------
(* Keeping sessions alive on a schedule: "session refresh" and "session     *)
(* keepalive" (cmd/grafanapi/session), the launchd agent they install       *)
(* (internal/launchd) and the duration bounds the two share                 *)
(* (internal/durationbounds).                                               *)
(*                                                                          *)
(* Time is a number of units that pass while no command runs (a command     *)
(* takes seconds, a unit stands for hours).  launchd wakes the agent on     *)
(* time: the machine is neither asleep nor logged out.                      *)
EXTENDS Integers, FiniteSets, FiniteSetsExt, Sequences

CONSTANTS Contexts,          \* the contexts of the configuration file
          MinWindow,         \* durationbounds.Min
          MaxWindow,         \* durationbounds.Max
          DerivedMin,        \* derivedIntervalMin
          DerivedMax,        \* derivedIntervalMax
          InactiveLifetime,  \* Grafana's login_maximum_inactive_lifetime
          WindowChoices,     \* live-windows users write
          Overrides,         \* --interval values users give
          MaxFaults,         \* bound: failures of launchctl, disk, Keychain, network
          MaxEdits           \* bound: config edits, logins, upgrades, refreshes elsewhere

ASSUME BoundsAssumption ==
    /\ {MinWindow, MaxWindow, DerivedMin, DerivedMax, InactiveLifetime} \subseteq Nat
    /\ 0 < MinWindow /\ MinWindow <= DerivedMin
    /\ DerivedMin <= DerivedMax /\ DerivedMax <= MaxWindow
    /\ MaxWindow + DerivedMax <= InactiveLifetime
    /\ WindowChoices \subseteq MinWindow..MaxWindow
    /\ Overrides \subseteq Nat
    /\ {MaxFaults, MaxEdits} \subseteq Nat

VARIABLES window,    \* live-window of each context in the file
          stored,    \* the context's Keychain item
          age,       \* time since the item was last written (ModifiedAt)
          idle,      \* time since Grafana last rotated the session
          plist,     \* the LaunchAgent file
          loaded,    \* what launchd has loaded
          asleep,    \* time since launchd last started the agent
          version,   \* the binary's path, that of the symlink if it has a stable one
          command,   \* the keepalive command under way, or the last one's result
          refresh,   \* the refresh under way, or the last one's result
          watched,   \* history: rotated and persisted, and scheduled ever since
          faults, edits

E == INSTANCE Errors

vars == <<window, stored, age, idle, plist, loaded, asleep, version,
          command, refresh, watched, faults, edits>>

agent == <<plist, loaded, asleep>>
sessions == <<stored, age, idle, watched>>

Unset == 0
Invalid == -1                      \* set, and rejected by ParsedLiveWindow
None == [every |-> 0, program |-> 0]    \* no plist, or nothing loaded
Cut == [every |-> -1, program |-> 0]    \* a plist whose writing failed half-way

Windows == {Unset, Invalid} \cup (MinWindow..MaxWindow)
Versions == 1..(MaxEdits + 1)
Agents == [every : MinWindow..MaxWindow, program : Versions]

ParsedLiveWindow(w) == w \in MinWindow..MaxWindow

OptedIn == {c \in Contexts : ParsedLiveWindow(window[c])}

Clamp(n) == IF n < DerivedMin THEN DerivedMin
            ELSE IF n > DerivedMax THEN DerivedMax ELSE n
ClampUp(n) == IF n < DerivedMin THEN DerivedMin ELSE n          \* mutant

DeriveUnbounded(minWindow) == ClampUp(minWindow \div 2)         \* mutant
DeriveInterval(minWindow) == Clamp(minWindow \div 2)

ResolveBinaryPath == version

Runs(program) == program = version

-----------------------------------------------------------------------------
(* keepalive install: the plist, then bootout, then bootstrap.              *)

Idle(result) == [pc |-> "idle", spec |-> None, result |-> result]

Fault == faults < MaxFaults /\ faults' = faults + 1
NoFault == UNCHANGED faults

NoRefresh == [by |-> "user", selected |-> {}, todo |-> {}, seen |-> <<>>, exit |-> "0"]

Quiet == refresh.exit # "running"

(* What the last command or refresh reported stands until another begins.   *)
ForgetRefresh == refresh' = IF Quiet THEN NoRefresh ELSE refresh
ForgetCommand == command' = IF command.pc = "idle" THEN Idle("none") ELSE command

InstallRefused ==
    /\ command.pc = "idle"
    /\ OptedIn = {} \/ \E i \in Overrides : i \notin MinWindow..MaxWindow
    /\ command' = Idle("refused") /\ ForgetRefresh
    /\ UNCHANGED <<window, agent, sessions, version, faults, edits>>

Install ==
    /\ command.pc = "idle"
    /\ OptedIn # {}
    /\ \E i \in (Overrides \cap MinWindow..MaxWindow)
                    \cup {DeriveInterval(Min({window[c] : c \in OptedIn}))} :
         command' = [pc |-> "write", result |-> "running",
                     spec |-> [every |-> i, program |-> ResolveBinaryPath]]
    /\ ForgetRefresh
    /\ UNCHANGED <<window, agent, sessions, version, faults, edits>>

WritePlist ==
    /\ command.pc = "write"
    /\ \/ plist' = command.spec /\ command' = [command EXCEPT !.pc = "replace"] /\ NoFault
       \/ plist' = Cut /\ command' = Idle("failed") /\ Fault
    /\ UNCHANGED <<window, loaded, asleep, sessions, version, refresh, edits>>

(* launchctl bootout: what it did to the agent and what Bootout returns.    *)
(* Booting a service out ends its process, and with it the refresh it runs. *)
Bootout(answer) ==
    \/ /\ answer = "ok" /\ loaded # None
       /\ loaded' = None /\ asleep' = 0
       /\ watched' = [c \in Contexts |-> FALSE]
       /\ refresh' = IF refresh.by = "agent" /\ refresh.exit = "running"
                     THEN [NoRefresh EXCEPT !.exit = "killed"] ELSE refresh
       /\ NoFault
    \/ /\ answer = "ErrNotLoaded" /\ loaded = None
       /\ UNCHANGED <<loaded, asleep, watched, refresh>> /\ NoFault
    \/ /\ answer = "other"
       /\ UNCHANGED <<loaded, asleep, watched, refresh>> /\ Fault

ClassifyLoadState == {"Inconclusive"} \cup (IF loaded = None THEN {"NotLoaded"} ELSE {"Loaded"})

Replace ==
    /\ command.pc = "replace"
    /\ \E answer \in {"ok", "ErrNotLoaded", "other"} : Bootout(answer)
    /\ command' = [command EXCEPT !.pc = "bootstrap"]
    /\ UNCHANGED <<window, plist, stored, age, idle, version, edits>>

(* A Bootstrap that fails is a warning: the command exits 0 all the same.   *)
Bootstrap ==
    /\ command.pc = "bootstrap"
    /\ \/ /\ loaded = None /\ plist \notin {None, Cut}
          /\ loaded' = plist /\ asleep' = 0
          /\ command' = Idle("installed") /\ NoFault
       \/ /\ loaded # None \/ plist \in {None, Cut}
          /\ command' = Idle("warned") /\ UNCHANGED <<loaded, asleep>> /\ NoFault
       \/ /\ loaded = None
          /\ command' = Idle("warned") /\ UNCHANGED <<loaded, asleep>> /\ Fault
    /\ UNCHANGED <<window, plist, sessions, version, refresh, edits>>

(* keepalive uninstall: bootout, then the plist.                            *)

GoneOrUnknown(answer, state) ==                                 \* mutant
    answer \in {"ok", "ErrNotLoaded"} \/ state # "Loaded"
Gone(answer, state) == answer \in {"ok", "ErrNotLoaded"} \/ state = "NotLoaded"

UninstallFileFirst ==                                           \* mutant
    /\ command.pc = "idle"
    /\ plist' = None
    /\ command' = [pc |-> "remove", spec |-> None, result |-> "running"]
    /\ UNCHANGED <<window, loaded, asleep, sessions, version, refresh, faults, edits>>

Uninstall ==
    /\ command.pc = "idle"
    /\ \E answer \in {"ok", "ErrNotLoaded", "other"}, state \in ClassifyLoadState :
         /\ Bootout(answer)
         /\ command' = IF Gone(answer, state)
                       THEN [pc |-> "remove", spec |-> None, result |-> "running"]
                       ELSE Idle("failed")
    /\ UNCHANGED <<window, plist, stored, age, idle, version, edits>>

RemovePlist ==
    /\ command.pc = "remove"
    /\ \/ plist' = None /\ command' = Idle("removed") /\ NoFault
       \/ plist # None /\ plist' = plist /\ command' = Idle("failed") /\ Fault
    /\ UNCHANGED <<window, loaded, asleep, sessions, version, refresh, edits>>

Killed ==
    /\ command.pc # "idle"
    /\ command' = Idle("killed")
    /\ Fault
    /\ UNCHANGED <<window, agent, sessions, version, refresh, edits>>

-----------------------------------------------------------------------------
(* session refresh: one context after the other, each on its own.           *)

Saw(status) == \E i \in DOMAIN refresh.seen : refresh.seen[i] = status

(* refreshErrored, for an error that is no refusal to bind a session.       *)
Errored == {<<"url.Error">>, <<"ErrSessionOriginMismatch">>}
ErrorOf(status, other) == IF status = "unbound" THEN <<"ErrSessionUnbound">> ELSE other

Outcomes == {"rejected", "errored", "unbound"}
Exits == [seen \in UNION {[1..n -> Outcomes] : n \in 0..3} |->
    CASE seen = <<>> -> {"0"}
      [] \E i \in DOMAIN seen : seen[i] = "rejected" -> {E!ExitStatus(<<"APIError 401">>)}
      [] OTHER -> {E!ExitStatus(E!Join([i \in DOMAIN seen |-> ErrorOf(seen[i], other)])) :
                      other \in Errored}]

Start(by, todo) ==
    refresh' = [by |-> IF todo = {} THEN "user" ELSE by,
                selected |-> todo, todo |-> todo, seen |-> <<>>,
                exit |-> IF todo = {} THEN "0" ELSE "running"]

Due(c) == /\ ParsedLiveWindow(window[c])
          /\ stored[c] # "none"
          /\ age[c] >= window[c]

NotBegun == [NoRefresh EXCEPT !.exit = "1"]

(* The configuration cannot be loaded, whatever was asked for: nothing is   *)
(* refreshed.  To the agent's sessions that were due this is a failure.     *)
LoadFails(by) ==
    /\ refresh' = NotBegun
    /\ watched' = [c \in Contexts |-> watched[c] /\ (by = "agent" => ~Due(c))]
    /\ Fault

(* ModifiedAt fails for the contexts in "unread": a warning, and skipped.   *)
RunDue(by) ==
    \/ LoadFails(by)
    \/ \E unread \in {{}} \cup {{c} : c \in {d \in Contexts : stored[d] # "none"}} :
         /\ Start(by, {c \in Contexts \ unread : Due(c)})
         /\ watched' = [c \in Contexts |-> watched[c] /\ c \notin unread]
         /\ IF unread = {} THEN NoFault ELSE Fault

(* launchd starts the agent at each StartInterval; RunAtLoad is false.      *)
Wake ==
    /\ loaded # None /\ asleep >= loaded.every /\ Quiet
    /\ asleep' = 0
    /\ IF Runs(loaded.program) THEN RunDue("agent")
       ELSE UNCHANGED <<refresh, watched>> /\ NoFault
    /\ ForgetCommand
    /\ UNCHANGED <<window, stored, age, idle, plist, loaded, version, edits>>

(* By hand also all contexts or one, which then must have a cookie; maybe   *)
(* "elsewhere", with another configuration file named in the shell, which   *)
(* matters for legacy items only.                                           *)
Asked(by) ==
    \/ RunDue(by)
    \/ Start(by, Contexts) /\ UNCHANGED watched /\ NoFault
    \/ /\ \E c \in Contexts : IF stored[c] = "none" THEN refresh' = NotBegun
                              ELSE Start(by, {c})
       /\ UNCHANGED watched /\ NoFault

ByHand ==
    /\ Quiet
    /\ \/ Asked("user") /\ UNCHANGED edits
       \/ /\ \E c \in Contexts : stored[c] = "legacy"
          /\ Asked("elsewhere")
          /\ edits < MaxEdits /\ edits' = edits + 1
    /\ ForgetCommand
    /\ UNCHANGED <<window, agent, stored, age, idle, version>>

Scheduled(c) == loaded # None /\ Runs(loaded.program) /\ ParsedLiveWindow(window[c])

(* refreshContext and what refreshAll makes of its outcome.  A legacy item  *)
(* is bound first, if the Keychain takes it, and the write alone makes it   *)
(* look freshly rotated; but elsewhere it is refused, and left as it is.    *)
Refused(c) == stored[c] \in {"none"} \cup (IF refresh.by = "elsewhere" THEN {"legacy"} ELSE {})

Dead(c) == idle[c] >= InactiveLifetime

Record(c, status) ==
    LET failed == status \in Outcomes
        seen == IF failed /\ ~Saw(status) THEN Append(refresh.seen, status) ELSE refresh.seen
        next == [refresh EXCEPT !.todo = @ \ {c}, !.seen = seen,
                                !.selected = IF seen = <<>> THEN @ ELSE {}] IN
    IF next.todo = {}
    THEN \E exit \in Exits[seen] : refresh' = [next EXCEPT !.by = "user", !.exit = exit]
    ELSE refresh' = next

Skip(c) ==
    /\ stored[c] = "none"
    /\ Record(c, "skipped")
    /\ UNCHANGED sessions /\ NoFault

Bind(c) ==
    /\ stored' = [stored EXCEPT ![c] = "bound"]
    /\ age' = IF stored[c] = "legacy" THEN [age EXCEPT ![c] = 0] ELSE age
BindFails == UNCHANGED <<stored, age>>

Rotate(c) ==
    /\ ~Refused(c) /\ ~Dead(c)
    /\ Record(c, "succeeded")
    /\ idle' = [idle EXCEPT ![c] = 0]
    /\ \/ /\ stored' = [stored EXCEPT ![c] = "bound"]
          /\ age' = [age EXCEPT ![c] = 0]
          /\ watched' = [watched EXCEPT ![c] = Scheduled(c)]
          /\ NoFault
       \/ /\ Bind(c) \/ BindFails                         \* persist fails: a warning
          /\ watched' = [watched EXCEPT ![c] = FALSE]
          /\ Fault

Unresolved(c) ==
    /\ stored[c] # "none"
    /\ \/ Refused(c) /\ Record(c, "unbound") /\ NoFault
       \/ Record(c, "errored") /\ Fault
    /\ watched' = [watched EXCEPT ![c] = FALSE]
    /\ UNCHANGED <<stored, age, idle>>

NotRotated(c) ==
    /\ ~Refused(c)
    /\ \/ Dead(c) /\ Record(c, "rejected") /\ Bind(c) /\ NoFault
       \/ Dead(c) /\ Record(c, "rejected") /\ BindFails /\ Fault
       \/ Record(c, "errored") /\ (Bind(c) \/ BindFails) /\ Fault
    /\ watched' = [watched EXCEPT ![c] = FALSE]
    /\ UNCHANGED idle

RefreshContext ==
    /\ ~Quiet
    /\ \E c \in refresh.todo : Skip(c) \/ Rotate(c) \/ Unresolved(c) \/ NotRotated(c)
    /\ UNCHANGED <<window, agent, version, command, edits>>

-----------------------------------------------------------------------------
(* What else happens: edits of the configuration, logins, the first use of  *)
(* a legacy item, an upgrade of the binary, time.                           *)

Edit == /\ edits < MaxEdits /\ edits' = edits + 1
        /\ ForgetCommand /\ ForgetRefresh /\ NoFault

ConfigSet ==
    /\ \E c \in Contexts, w \in WindowChoices \cup {Unset, Invalid} :
         /\ window[c] # w
         /\ window' = [window EXCEPT ![c] = w]
         /\ watched' = [watched EXCEPT ![c] = watched[c] /\ ParsedLiveWindow(w)]
    /\ Edit
    /\ UNCHANGED <<agent, stored, age, idle, version>>

Login ==
    /\ \E c \in Contexts :
         /\ stored' = [stored EXCEPT ![c] = "bound"]
         /\ age' = [age EXCEPT ![c] = 0]
         /\ idle' = [idle EXCEPT ![c] = 0]
         /\ watched' = [watched EXCEPT ![c] = Scheduled(c)]
    /\ Edit
    /\ UNCHANGED <<window, agent, version>>

BindOnUse ==
    /\ \E c \in Contexts :
         /\ stored[c] = "legacy"
         /\ stored' = [stored EXCEPT ![c] = "bound"]
         /\ age' = [age EXCEPT ![c] = 0]
    /\ Edit
    /\ UNCHANGED <<window, agent, idle, watched, version>>

(* brew upgrade of a binary no stable symlink leads to renames the path the *)
(* plist holds: the agent no longer runs.  Otherwise it changes nothing.    *)
Upgrade ==
    /\ version' = version + 1
    /\ watched' = [c \in Contexts |-> FALSE]
    /\ Edit
    /\ UNCHANGED <<window, agent, stored, age, idle>>

Later(time, limit) ==
    [c \in Contexts |-> IF stored[c] = "none" THEN 0 ELSE Min({time[c] + 1, limit})]

Tick ==
    /\ Quiet /\ command.pc = "idle"
    /\ loaded = None \/ asleep < loaded.every
    /\ age' = Later(age, MaxWindow) /\ idle' = Later(idle, InactiveLifetime)
    /\ asleep' = IF loaded = None THEN 0 ELSE asleep + 1
    /\ command' = Idle("none") /\ refresh' = NoRefresh
    /\ UNCHANGED <<window, stored, plist, loaded, version, watched, faults, edits>>

Init ==
    /\ window \in [Contexts -> WindowChoices \cup {Unset}]
    /\ stored \in [Contexts -> {"none", "legacy", "bound"}]
    /\ age = [c \in Contexts |-> 0]
    /\ idle = [c \in Contexts |-> 0]
    /\ plist = None /\ loaded = None /\ asleep = 0
    /\ version = 1
    /\ command = Idle("none")
    /\ refresh = NoRefresh
    /\ watched = [c \in Contexts |-> FALSE]
    /\ faults = 0 /\ edits = 0

Next ==
    \/ InstallRefused \/ Install \/ WritePlist \/ Replace \/ Bootstrap
    \/ Uninstall \/ RemovePlist \/ Killed
    \/ Wake \/ ByHand \/ RefreshContext
    \/ ConfigSet \/ Login \/ BindOnUse \/ Upgrade \/ Tick

Spec == Init /\ [][Next]_vars

-----------------------------------------------------------------------------
(* Types, with the interval of the plist and of the agent within the bounds *)
(* launchd.ValidateInterval states: a StartInterval of zero is never made.  *)
TypeOK ==
    /\ window \in [Contexts -> Windows]
    /\ stored \in [Contexts -> {"none", "legacy", "bound"}]
    /\ age \in [Contexts -> 0..MaxWindow]
    /\ idle \in [Contexts -> 0..InactiveLifetime]
    /\ plist \in Agents \cup {None, Cut}
    /\ loaded \in Agents \cup {None}
    /\ asleep \in 0..MaxWindow
    /\ version \in 1..(edits + 1)
    /\ command \in [pc : {"idle", "write", "replace", "bootstrap", "remove"},
                    spec : Agents \cup {None},
                    result : {"none", "refused", "running", "failed", "installed", "warned",
                              "removed", "killed"}]
    /\ refresh \in [by : {"user", "agent", "elsewhere"}, selected : SUBSET Contexts,
                    todo : SUBSET Contexts, seen : Seq(Outcomes),
                    exit : {"0", "1", "2", "running", "killed"}]
    /\ watched \in [Contexts -> BOOLEAN]
    /\ faults \in Nat /\ edits \in 0..MaxEdits

(* A session that was rotated and stored while the agent is loaded, and     *)
(* whose context stays opted in, is rotated again before Grafana gives it   *)
(* up for inactivity, as long as its own rotations do not fail and the      *)
(* binary stays where the plist says: whatever happens to the other         *)
(* contexts, and to the live-windows after the install.                     *)
StaysWarm == \A c \in Contexts : watched[c] => idle[c] < InactiveLifetime

(* What keepalive reports is so: "installed" leaves the agent loaded with   *)
(* the interval the plist shows, "removed" leaves neither agent nor plist.  *)
KeepaliveReportsAreTrue ==
    /\ command.result = "installed" => loaded # None /\ loaded = plist
    /\ command.result = "removed" => loaded = None /\ plist = None

(* A refresh that ran to its end with status 0 met no failure and has       *)
(* rotated every session it selected and that a context still has.          *)
ZeroIsComplete ==
    refresh.exit = "0" =>
        /\ refresh.seen = <<>>
        /\ \A c \in refresh.selected : stored[c] = "none" \/ idle[c] = 0

(* One dead session makes the status 2, whatever else failed before or      *)
(* after it, and nothing but a dead or an unbound session does.             *)
ExitTellsTheWorst ==
    /\ ZeroIsComplete
    /\ Saw("rejected") => refresh.exit \in {"2", "running", "killed"}
    /\ refresh.exit = "2" => Saw("rejected") \/ Saw("unbound")

(* Neither command says that something was done that was not.               *)
ReportsAreTrue == KeepaliveReportsAreTrue /\ ExitTellsTheWorst

(* An agent that is loaded has a file: there is always something to find,   *)
(* whichever step failed or was killed.                                     *)
NoOrphanAgent == loaded # None => plist # None

-----------------------------------------------------------------------------
(* What the properties rest on                                              *)

(* The intervals an agent may have: derived, or given and within bounds.    *)
Intervals == DerivedMin..DerivedMax \cup (Overrides \cap MinWindow..MaxWindow)

(* A command that is to write a plist has one to write; one that is to      *)
(* remove it has no agent left; launchd is never late.                      *)
AgentInv ==
    /\ \A a \in {command.spec, plist, loaded} \ {None, Cut} : a.every \in Intervals
    /\ command.pc # "idle" => command.result = "running"
    /\ command.pc = "write" => command.spec # None
    /\ command.pc = "remove" => loaded = None
    /\ loaded # None => asleep <= loaded.every

(* What a refresh has done so far, as long as nothing failed; each kind of  *)
(* failure is noted once.                                                   *)
RefreshInv ==
    /\ refresh.todo # {} => refresh.exit = "running"
    /\ \A c \in refresh.selected \ refresh.todo :
          refresh.exit = "running" => stored[c] = "none" \/ idle[c] = 0
    /\ refresh.seen # <<>> => refresh.selected = {}
    /\ \A i, j \in DOMAIN refresh.seen : refresh.seen[i] = refresh.seen[j] => i = j

(* A watched session was not due when the agent last ran, or the refresh    *)
(* that is under way has still to rotate it; and the age of its item is     *)
(* that of its last rotation.                                               *)
Warm(c) ==
    /\ stored[c] = "bound" /\ Scheduled(c)
    /\ age[c] = Min({idle[c], MaxWindow})
    /\ c \in refresh.todo \/ idle[c] < MaxWindow + asleep
    /\ idle[c] < MaxWindow + loaded.every

WarmInv == \A c \in Contexts : watched[c] => Warm(c)

Inv == TypeOK /\ NoOrphanAgent /\ AgentInv /\ RefreshInv /\ WarmInv
=============================================================================
