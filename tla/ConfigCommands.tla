---------------------------- MODULE ConfigCommands ----------------------------
(***************************************************************************)
(* The configuration file and the commands that change it (config set,     *)
(* unset and use-context, login). Each loads the whole file, changes one   *)
(* value of what it loaded, and writes the whole back: nothing locks the   *)
(* file. A context also has a session in the Keychain, stored by login and *)
(* removed with the context (CredentialLifecycle has the details of both). *)
(*                                                                         *)
(* A configuration is [contexts, current], a context [exists, server,      *)
(* window]; an invocation i of a command is                                *)
(*   [cmd, name, field, value,    set name.field value, unset name.field,  *)
(*                                use name, login to the server value      *)
(*    env,                        GRAFANA_SERVER, or Unset                 *)
(*    context,                    --context, or ""                         *)
(*    file]                       "own", or "other" (--config)             *)
(***************************************************************************)
EXTENDS Naturals

CONSTANTS
    Process,
    Name,           \* names of contexts, DefaultContextName among them
    Server,
    Invocations,    \* what the processes run
    InitFiles,      \* what the two files are at the start
    MaxCommands,    \* bound on the commands started
    MaxFaults       \* bound on failed writes, failed Keychain calls, crashes

DefaultContextName == "default"
Unset == "unset"
NoItem == "no item"

ASSUME NameAssumption == DefaultContextName \in Name /\ Name \cap {"", "missing", "torn"} = {}
ASSUME ServerAssumption == NoItem \notin Server
ASSUME BoundsAssumption == MaxCommands \in Nat /\ MaxFaults \in Nat

VARIABLES
    file,          \* the content of each file
    item,          \* the origin that the stored session of a name is bound to
    pc, inv,       \* each process: where it is, and the command it runs
    snapshot,      \* the configuration it loaded and changed
    prior,         \* login: the item it replaced
    good,          \* history: the last content of each file that loads
    stale,         \* history: the processes whose snapshot is out of date
    abandoned,     \* history: names whose context a command lost that did not
                   \*   name it, or that was cut short before its clean-up
    commands, faults

vars == <<file, item, pc, inv, snapshot, prior, good, stale, abandoned,
          commands, faults>>

Absent == [exists |-> FALSE, server |-> Unset, window |-> Unset]
Empty == [exists |-> TRUE, server |-> Unset, window |-> Unset]

NoContexts == [n \in Name |-> Absent]
Config(contexts, current) == [contexts |-> contexts, current |-> current]

Missing == Config(NoContexts, "missing")
Torn == Config(NoContexts, "torn")       \* cut short: no YAML document

\* What a file holds: a configuration, or none that loads.
Files == {"own", "other"}
Context == [exists : BOOLEAN, server : Server \cup {Unset}, window : {Unset, "6d"}]
Configs == [contexts : [Name -> Context], current : Name \cup {""}]
Contents == Configs \cup {Missing, Torn}

ASSUME FilesAssumption == InitFiles \subseteq [Files -> Contents]

\* What a command line can say: a path ends at the configuration's map of contexts,
\* at one of them, or at a value of one; a value is one of the field's.
Accepts(field) ==
    CASE field = "server" -> Server
      [] field = "window" -> {"6d"}
      [] field = "current" -> Name
      [] OTHER -> Server

WellFormed(i) ==
    /\ DOMAIN i = DOMAIN [cmd |-> "", name |-> "", field |-> "", value |-> "", env |-> "",
                         context |-> "", file |-> ""]
    /\ i.env \in Server \cup {Unset} /\ i.context \in Name \cup {""} /\ i.file \in Files
    /\ \/ /\ i.cmd \in {"set", "unset"}
          /\ i.field \in {"contexts", "context", "grafana", "server", "window", "current"}
          /\ i.field \in {"context", "grafana", "server", "window"} => i.name \in Name
          /\ i.cmd = "set" => i.value \in Accepts(i.field)
       \/ i.cmd = "use" /\ i.name \in Name /\ i.field = ""
       \/ i.cmd = "login" /\ i.value \in Server /\ i.field = ""

ASSUME InvocationsAssumption == \A i \in Invocations : WellFormed(i)

FreshEmpty == Torn

\* defaultEmptyConfigFile
Fresh == Config([NoContexts EXCEPT ![DefaultContextName] = Empty], DefaultContextName)

-----------------------------------------------------------------------------
(* Load                                                                    *)

LoadLeniently(content) ==
    IF content = Missing THEN {} ELSE IF content = Torn THEN {Config(NoContexts, "")} ELSE {content}

\* What a content decodes to: an empty or a cut file is an error of the decoder,
\* as is a missing one.
Load(content) == {content} \ {Missing, Torn}

CurrentOr(cfg) == IF cfg.current = "" THEN DefaultContextName ELSE cfg.current

\* loadConfigTolerant's first override: the current context exists, and the
\* environment is parsed into it.
ApplyEnvironment(cfg, i) ==
    LET n == CurrentOr(cfg)
        ctx == [cfg.contexts[n] EXCEPT !.exists = TRUE]
    IN  Config([cfg.contexts EXCEPT ![n] =
                   IF i.env = Unset THEN ctx ELSE [ctx EXCEPT !.server = i.env]], n)

\* The second: --context replaces the current context, and must exist.
ContextMissing(cfg, i) == i.context # "" /\ ~cfg.contexts[i.context].exists

ApplyContextFlag(cfg, i) ==
    IF i.context = "" THEN cfg ELSE [cfg EXCEPT !.current = i.context]

-----------------------------------------------------------------------------
(* SetValue and UnsetValue                                                 *)

\* A map or a struct cannot be set as a whole.
CannotSet(i) == i.cmd = "set" /\ i.field \in {"contexts", "context", "grafana"}

SetValue(cfg, i) ==
    IF i.field = "current" THEN [cfg EXCEPT !.current = i.value]
    ELSE [cfg EXCEPT !.contexts[i.name].exists = TRUE,
                     !.contexts[i.name][i.field] = i.value]

\* Unsetting a part of a context that does not exist creates it, empty.
UnsetValue(cfg, i) ==
    CASE i.field = "current" -> [cfg EXCEPT !.current = ""]
      [] i.field = "contexts" -> [cfg EXCEPT !.contexts = NoContexts]
      [] i.field = "context" -> [cfg EXCEPT !.contexts[i.name] = Absent]
      [] i.field = "grafana" -> [cfg EXCEPT !.contexts[i.name] = Empty]
      [] OTHER -> [cfg EXCEPT !.contexts[i.name].exists = TRUE,
                              !.contexts[i.name][i.field] = Unset]

\* login: the context of --context, else the current one, is replaced: of what
\* it held, the live window is not kept. It becomes current if none is.
LoginName(cfg, i) == IF i.context # "" THEN i.context ELSE CurrentOr(cfg)

LoggedIn(cfg, i) ==
    LET n == LoginName(cfg, i)
    IN  Config([cfg.contexts EXCEPT ![n] = [Empty EXCEPT !.server = i.value]],
               IF cfg.current = "" THEN n ELSE cfg.current)

\* What the command is going to write, when it loaded cfg, and whether it may.
Loaded(cfg, i) ==
    IF i.cmd = "login" THEN cfg
    ELSE ApplyContextFlag(ApplyEnvironment(cfg, i), i)

Refused(cfg, i) ==
    \/ CannotSet(i)
    \/ i.cmd # "login" /\ ContextMissing(ApplyEnvironment(cfg, i), i)
    \/ i.cmd = "use" /\ ~ApplyEnvironment(cfg, i).contexts[i.name].exists

Changed(cfg, i) ==
    CASE i.cmd = "set" -> SetValue(Loaded(cfg, i), i)
      [] i.cmd = "unset" -> UnsetValue(Loaded(cfg, i), i)
      [] i.cmd = "use" -> [Loaded(cfg, i) EXCEPT !.current = i.name]
      [] i.cmd = "login" -> LoggedIn(cfg, i)

-----------------------------------------------------------------------------
(* The commands                                                            *)

NoCommand == [cmd |-> "none", name |-> "", field |-> "", value |-> Unset,
              env |-> Unset, context |-> "", file |-> "own"]

Init ==
    /\ file \in InitFiles
    /\ item = [n \in Name |-> NoItem]
    /\ pc = [p \in Process |-> "idle"]
    /\ inv = [p \in Process |-> NoCommand]
    /\ snapshot = [p \in Process |-> Missing]
    /\ prior = [p \in Process |-> NoItem]
    /\ good = file
    /\ stale = {} /\ abandoned = {}
    /\ commands = 0 /\ faults = 0

Goto(p, label) == pc' = [pc EXCEPT ![p] = label]
Fault == faults < MaxFaults /\ faults' = faults + 1

\* The name that p's command is about, for the Keychain.
Target(p) == IF inv[p].cmd = "login"
             THEN LoginName(snapshot[p], inv[p]) ELSE inv[p].name

\* removedContextName: contexts.<name>, and no part of it.
RemovesContext(p) == inv[p].cmd = "unset" /\ inv[p].field = "context"

\* p makes new the content of its file. A context that was in the file, or was to
\* be, and no longer is: unless p's command went through and removes it, the
\* session of it is abandoned.
Became(p, new, through) ==
    LET f == inv[p].file
        had(n) == good[f].contexts[n].exists \/ (through /\ snapshot[p].contexts[n].exists)
        removed(n) == through /\ RemovesContext(p) /\ inv[p].name = n
    IN  /\ file' = [file EXCEPT ![f] = new]
        /\ good' = [good EXCEPT ![f] = IF Load(new) = {} THEN @ ELSE new]
        /\ stale' = IF good'[f] = good[f] THEN stale
                    ELSE stale \cup {q \in Process \ {p} : pc[q] # "idle" /\ inv[q].file = f}
        /\ abandoned' = abandoned \cup
              {n \in Name : had(n) /\ ~good'[f].contexts[n].exists /\ ~removed(n)}

Start(p) ==
    /\ pc[p] = "idle" /\ commands < MaxCommands
    /\ commands' = commands + 1
    /\ \E i \in Invocations :
          /\ inv' = [inv EXCEPT ![p] = i]
          /\ Goto(p, IF i.file = "own" /\ file["own"] = Missing THEN "create" ELSE "load")
    /\ UNCHANGED <<file, item, snapshot, prior, good, stale, abandoned, faults>>

\* StandardLocation found no file: it writes one, over what another process may
\* have written since.
Create(p) ==
    /\ pc[p] = "create"
    /\ Became(p, Fresh, FALSE)
    /\ Goto(p, "load")
    /\ UNCHANGED <<item, inv, snapshot, prior, commands, faults>>

\* Load, and the change of what was loaded, in memory.
LoadAndChange(p) ==
    /\ pc[p] = "load"
    /\ LET i == inv[p]
       IN  \/ \E cfg \in Load(file[i.file]) :
                 /\ ~Refused(cfg, i)
                 /\ snapshot' = [snapshot EXCEPT ![p] = Changed(cfg, i)]
                 /\ Goto(p, IF i.cmd = "login" THEN "verified" ELSE "write")
           \/ /\ \A cfg \in Load(file[i.file]) : Refused(cfg, i)
              /\ Goto(p, "failed") /\ UNCHANGED snapshot
    /\ stale' = stale \ {p}
    /\ UNCHANGED <<file, item, inv, prior, good, abandoned, commands, faults>>

\* login, once the user's cookie is verified: Keychain Get and Set.
StoreSession(p) ==
    /\ pc[p] = "verified"
    /\ \/ /\ item' = [item EXCEPT ![Target(p)] = inv[p].value]
          /\ prior' = [prior EXCEPT ![p] = item[Target(p)]]
          /\ Goto(p, "write") /\ UNCHANGED faults
       \/ Fault /\ Goto(p, "failed") /\ UNCHANGED <<item, prior>>
    /\ UNCHANGED <<file, inv, snapshot, good, stale, abandoned, commands>>

WriteFailed(p) == Goto(p, IF inv[p].cmd = "login" THEN "rollback" ELSE "failed")

\* Write opens the file and truncates it.
Truncate(p) ==
    /\ pc[p] = "write"
    /\ \/ Became(p, Torn, FALSE) /\ Goto(p, "open") /\ UNCHANGED faults
       \/ /\ Fault /\ WriteFailed(p)
          /\ UNCHANGED <<file, good, stale, abandoned>>
    /\ UNCHANGED <<item, inv, snapshot, prior, commands>>

NoCleanUp(p) == "done"

\* What follows the write: the session goes after the context.
AfterWrite(p) == IF RemovesContext(p) THEN "clean" ELSE "done"

\* A text that stops short may still load, without the contexts that come last
\* and without the current one, which is the last line.
CutShort(cfg) ==
    {Torn} \cup {Config([n \in Name |-> IF n \in kept THEN cfg.contexts[n] ELSE Absent], "") :
                    kept \in SUBSET Name}

\* Encode writes what p has, at the start of the file. If another process wrote
\* since p truncated it, only a text at least as long replaces what that one wrote.
Encode(p) ==
    /\ pc[p] = "open"
    /\ \/ /\ \/ Became(p, snapshot[p], TRUE)
             \/ file[inv[p].file] \notin {Torn, snapshot[p]} /\ Became(p, Torn, TRUE)
          /\ Goto(p, AfterWrite(p)) /\ UNCHANGED faults
       \/ /\ \E new \in CutShort(snapshot[p]) : Became(p, new, FALSE)
          /\ Fault /\ WriteFailed(p)
    /\ UNCHANGED <<item, inv, snapshot, prior, commands>>

\* config unset contexts.<name> removes the session, whatever file it was of. An
\* error is only a warning.
DeleteSession(p) ==
    /\ pc[p] = "clean"
    /\ Goto(p, "done")
    /\ \/ /\ item' = [item EXCEPT ![inv[p].name] = NoItem]
          /\ UNCHANGED <<faults, abandoned>>
       \/ Fault /\ abandoned' = abandoned \cup {inv[p].name} /\ UNCHANGED item
    /\ UNCHANGED <<file, inv, snapshot, prior, good, stale, commands>>

\* login puts back what was there, best effort, and whatever another command did
\* to it since.
Rollback(p) ==
    /\ pc[p] = "rollback"
    /\ Goto(p, "failed")
    /\ \/ /\ item' = [item EXCEPT ![Target(p)] = prior[p]]
          /\ abandoned' = IF item[Target(p)] = inv[p].value THEN abandoned
                          ELSE abandoned \cup {Target(p)}
          /\ UNCHANGED faults
       \/ Fault /\ abandoned' = abandoned \cup {Target(p)} /\ UNCHANGED item
    /\ UNCHANGED <<file, inv, snapshot, prior, good, stale, commands>>

\* The process ends, or is killed on its way.
Exit(p) ==
    /\ pc[p] # "idle"
    /\ \/ pc[p] \in {"done", "failed"} /\ UNCHANGED <<faults, abandoned>>
       \/ /\ pc[p] \notin {"done", "failed"} /\ Fault
          /\ abandoned' = abandoned \cup ({Target(p)} \cap Name)
    /\ Goto(p, "idle")
    /\ inv' = [inv EXCEPT ![p] = NoCommand]
    /\ snapshot' = [snapshot EXCEPT ![p] = Missing]
    /\ prior' = [prior EXCEPT ![p] = NoItem]
    /\ stale' = stale \ {p}
    /\ UNCHANGED <<file, item, good, commands>>

Next ==
    \E p \in Process :
        \/ Start(p) \/ Create(p) \/ LoadAndChange(p) \/ StoreSession(p) \/ Truncate(p)
        \/ Encode(p) \/ DeleteSession(p) \/ Rollback(p) \/ Exit(p)

Spec == Init /\ [][Next]_vars

-----------------------------------------------------------------------------
(* Properties                                                              *)

TypeOK ==
    /\ file \in [Files -> Contents] /\ good \in [Files -> Contents]
    /\ item \in [Name -> Server \cup {NoItem}]
    /\ pc \in [Process -> {"idle", "create", "load", "verified", "write", "open",
                           "clean", "rollback", "done", "failed"}]
    /\ inv \in [Process -> Invocations \cup {NoCommand}]
    /\ snapshot \in [Process -> Contents]
    /\ prior \in [Process -> Server \cup {NoItem}]
    /\ stale \subseteq Process /\ abandoned \subseteq Name
    /\ commands \in 0..MaxCommands /\ faults \in 0..MaxFaults

\* What an invocation may change of a configuration, beside the context it
\* names: the current context, which it completes from the environment, and
\* which one that is.
Names(i, n) ==
    \/ i.field = "contexts" \/ n = i.name
    \/ i.cmd = "login" /\ n = i.context

MayChange(i, old, n, new) ==
    LET was == old.contexts[n] is == new.contexts[n]
    IN  \/ Names(i, n) /\ (i.field \in {"server", "window"} =>
              \A g \in {"server", "window"} \ {i.field} : is[g] \in {was[g], i.env})
        \/ /\ n = CurrentOr(old)
           /\ i.cmd = "login" \/ (is.window = was.window /\ is.server \in {was.server, i.env})

OnlyNamed(i, old, new) ==
    /\ \A n \in Name : new.contexts[n] # old.contexts[n] => MayChange(i, old, n, new)
    /\ new.current # old.current =>
          \/ i.field = "current" \/ i.cmd = "use"
          \/ new.current = i.context \/ old.current = ""

\* A command that went through, and in whose way no other command changed the
\* file, has changed what it names in the last configuration that loaded, and
\* nothing else: whatever a crash, a full disk or a write in progress left in the
\* file is reported, and never taken for a configuration without the other
\* contexts, which the next command would then make the only one. (Load, Write,
\* updateValue)
OnlyNamedChanges ==
    [][\A p \in Process :
          /\ pc[p] = "open" /\ pc'[p] \in {"clean", "done"}
          /\ p \notin stale /\ Load(file'[inv[p].file]) # {}
          => OnlyNamed(inv[p], good[inv[p].file], file'[inv[p].file])]_vars

\* When all commands have ended, a stored session has a context to be used from,
\* whatever order two commands on one context ran in, unless a crash, an error
\* or a lost update came between the two: a cookie nothing refers to is never
\* deleted. (runLogin stores before it writes, unsetCmd deletes after)
SessionsHaveContexts ==
    (\A p \in Process : pc[p] = "idle") =>
        \A n \in Name \ abandoned :
            item[n] # NoItem => \E f \in Files : good[f].contexts[n].exists

-----------------------------------------------------------------------------
(* What the properties rest on                                             *)

\* A file loads or is what a write in progress, a failed one or two that overlapped
\* left: until there was a fault or an overlap, some process is still writing it.
FilesInv ==
    \A f \in Files :
        /\ Load(file[f]) # {} => file[f] = good[f]
        /\ file[f] = Torn =>
              \/ good[f] = Torn \/ faults > 0 \/ commands > 1
              \/ \E p \in Process : pc[p] = "open" /\ inv[p].file = f

\* Until a second command starts there is no overlap.
FirstCommandInv ==
    /\ commands = 0 => \A p \in Process : pc[p] = "idle"
    /\ commands <= 1 => \A p \in Process : pc[p] # "idle" =>
          /\ \A q \in Process \ {p} : pc[q] = "idle"
          /\ pc[p] = "open" => file[inv[p].file] = Torn

\* What a command is about to write; up to date, it is its change of what loads.
CommandInv(p) ==
    /\ pc[p] # "idle" => inv[p] \in Invocations
    /\ pc[p] \in {"verified", "rollback"} => inv[p].cmd = "login"
    /\ pc[p] = "clean" => RemovesContext(p)
    /\ pc[p] \in {"verified", "write", "open", "rollback"} =>
          /\ snapshot[p] \in Configs
          /\ inv[p].cmd = "login" =>
                Target(p) \in Name /\ snapshot[p].contexts[Target(p)].exists
    /\ pc[p] \in {"verified", "write", "open"} /\ p \notin stale =>
          LET old == good[inv[p].file]
          IN  old \in Configs /\ ~Refused(old, inv[p]) /\ snapshot[p] = Changed(old, inv[p])

CommandsInv == \A p \in Process : CommandInv(p)

\* A session has a context; or the command that removed the context is about to
\* remove the session; or a login that found none is about to write the context or
\* to put back that none was there.
HasContext(n) == \E f \in Files : good[f].contexts[n].exists

Settles(p, n) ==
    \/ pc[p] = "clean" /\ inv[p].name = n
    \/ /\ pc[p] \in {"write", "open", "rollback"}
       /\ inv[p].cmd = "login" /\ Target(p) = n /\ prior[p] = NoItem

SessionsInv ==
    \A n \in Name \ abandoned :
        item[n] # NoItem => HasContext(n) \/ \E p \in Process : Settles(p, n)

Inv == TypeOK /\ FilesInv /\ FirstCommandInv /\ CommandsInv /\ SessionsInv

=============================================================================
