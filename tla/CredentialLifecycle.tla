------------------------- MODULE CredentialLifecycle -------------------------
(***************************************************************************)
(* The stored session of one context, shared by every grafanapi process:   *)
(* the Keychain item (internal/keychain), the context's server in the      *)
(* configuration file, and the commands that read and write them: login,   *)
(* login update, and any command that loads the session and may rotate it. *)
(*                                                                         *)
(* One action is one Keychain operation, one write of the configuration,   *)
(* or one answer of Grafana. A server is its origin. Cookies are numbered  *)
(* in the order they are issued. What may go wrong is listed in Faults:    *)
(*   "read"      a Get that fails                                          *)
(*   "set"       a Set or Delete that fails                                *)
(*   "abandoned" a Set or Delete that outlives keychainTimeout: the caller *)
(*               gets an error, the operation may still take effect        *)
(*   "write"     a configuration file that cannot be written               *)
(*   "lost"      a rotation whose answer is lost                           *)
(*   "crash"     a process that stops between two steps                    *)
(***************************************************************************)
EXTENDS Naturals, Sequences

CONSTANTS
    Process,       \* grafanapi processes
    Server,        \* origins of Grafana servers
    Command,       \* what the processes run: "login", "update", "use"
    OtherVersions, \* may the first item come from another grafanapi version?
    Redirects,     \* may a command use another configuration than the user's?
    Faults,        \* what may go wrong, see above
    MaxCookies     \* bound on the cookies Grafana issues

ASSUME CommandAssumption == Command \subseteq {"login", "update", "use"}
ASSUME MaxCookiesAssumption == MaxCookies \in Nat \ {0}

Unbound == "no origin"    \* the origin of a legacy item
Unset == "unset"          \* the configuration names no server yet
Torn == "torn"            \* the configuration file was cut short by a failed write

VARIABLES
    item,          \* the Keychain item of the context
    config,        \* the context's server in the user's configuration file
    issuer,        \* issuer[c]: the origin that issued cookie c, if known
    live,          \* cookies Grafana still accepts
    pc,            \* where each process is
    server,        \* the server of the process's context
    own,           \* it comes from the user's own configuration
    cookie,        \* the cookie the process holds, or 0
    prior,         \* runLogin's priorCookie, as an item
    replaced,      \* history: the item just before the process's first Set
    late,          \* Keychain writes the process has given up on
    disturbed,     \* history: the processes whose command another one's writes
                   \*   (or an abandoned write) fell into
    lossy          \* history: a rotated cookie failed to reach the Keychain

vars == <<item, config, issuer, live, pc, server, own, cookie, prior,
          replaced, late, disturbed, lossy>>

processVars == <<server, own, cookie, prior, replaced, late>>

NoItem == [kind |-> "none", cookie |-> 0, origin |-> Unbound]
Malformed == [kind |-> "malformed", cookie |-> 0, origin |-> Unbound]
Unread == [kind |-> "unread", cookie |-> 0, origin |-> Unbound]
LegacyItem(c) == [kind |-> "legacy", cookie |-> c, origin |-> Unbound]

\* EncodeSessionCredential: the cookie and the origin of the server. Its
\* errors cannot happen here: the server was validated, the cookie not empty.
BoundItem(c, s) == [kind |-> "bound", cookie |-> c, origin |-> s]

Cookie == 1..Len(issuer)

Goto(p, label) == pc' = [pc EXCEPT ![p] = label]

Init ==
    /\ config \in Server \cup {Unset}
    /\ item \in {NoItem} \cup {BoundItem(1, s) : s \in {config} \ {Unset}}
                \cup (IF OtherVersions THEN {LegacyItem(1), Malformed} ELSE {})
    /\ issuer = IF item.kind = "bound" THEN <<config>> ELSE <<Unbound>>
    /\ live = {1}
    /\ pc = [p \in Process |-> "idle"]
    /\ server = [p \in Process |-> Unset]
    /\ own = [p \in Process |-> TRUE]
    /\ cookie = [p \in Process |-> 0]
    /\ prior = [p \in Process |-> NoItem]
    /\ replaced = [p \in Process |-> NoItem]
    /\ late = [p \in Process |-> {}]
    /\ disturbed = {}
    /\ lossy = FALSE

-----------------------------------------------------------------------------
(* The Keychain, the configuration and Grafana                             *)

\* withTimeout around a Set or Delete: it succeeds, it fails, or it is
\* abandoned after the timeout while its goroutine goes on.
KeychainWrite(p, new, ok, failed) ==
    \/ item' = new /\ Goto(p, ok) /\ UNCHANGED late
    \/ "set" \in Faults /\ Goto(p, failed) /\ UNCHANGED <<item, late>>
    \/ /\ "abandoned" \in Faults
       /\ late' = [late EXCEPT ![p] = @ \cup {new}]
       /\ Goto(p, failed)
       /\ UNCHANGED item

\* The call of an abandoned goroutine returns at last.
Land(p) ==
    \E new \in late[p] :
        /\ item' = new
        /\ late' = [late EXCEPT ![p] = @ \ {new}]
        /\ UNCHANGED <<config, issuer, live, pc, server, own, cookie, prior,
                       replaced>>

\* What a Get may return. ErrNotFound is NoItem; any other error is Unread.
Readable == {item} \cup (IF "read" \in Faults THEN {Unread} ELSE {})

\* Grafana issues the cookie after those of issuer, and accepts dead no more.
Issue(s, dead) ==
    /\ Len(issuer) < MaxCookies
    /\ issuer' = Append(issuer, s)
    /\ live' = (live \ dead) \cup {Len(issuer) + 1}

\* config.Load, of the user's own file or of another one (--config, the
\* environment). A torn file does not parse.
Begin(p, command, s, label) ==
    /\ command \in Command
    /\ pc[p] = "idle"
    /\ \/ own' = [own EXCEPT ![p] = TRUE] /\ config # Torn
       \/ own' = [own EXCEPT ![p] = FALSE] /\ Redirects
    /\ server' = [server EXCEPT ![p] = s]
    /\ Goto(p, label)

\* The command needs the context to name a server.
BeginConfigured(p, command, s, label) ==
    /\ Begin(p, command, s, label)
    /\ own'[p] => config = s
    /\ UNCHANGED <<item, config, issuer, live, cookie, prior, replaced, late>>

-----------------------------------------------------------------------------
(* login                                                                   *)

\* The user gives a server and a cookie of it, which VerifyCookie accepts.
Login(p, s) ==
    /\ Begin(p, "login", s, "verified")
    /\ Issue(s, {})
    /\ cookie' = [cookie EXCEPT ![p] = Len(issuer')]
    /\ UNCHANGED <<item, config, prior, replaced, late>>

\* keychainStore.Get before the item is overwritten.
ReadPrior(p) ==
    /\ pc[p] = "verified"
    /\ \E it \in Readable : prior' = [prior EXCEPT ![p] = it]
    /\ Goto(p, "read")
    /\ UNCHANGED <<item, config, issuer, live, server, own, cookie, replaced,
                   late>>

BindToConfig(p) == config

\* The server a new cookie is bound to: the one it was verified against.
BindTo(p) == server[p]

\* Set the new credential, before anything is written to disk.
StoreLogin(p) ==
    /\ pc[p] = "read"
    /\ KeychainWrite(p, BoundItem(cookie[p], BindTo(p)), "stored", "storeFailed")
    /\ replaced' = [replaced EXCEPT ![p] = item]
    /\ UNCHANGED <<config, issuer, live, server, own, cookie, prior>>

\* config.Write truncates the file and encodes into it; a failure may leave it
\* cut short. A login with another configuration leaves the user's file alone.
WriteConfig(p) ==
    /\ pc[p] = "stored"
    /\ \/ /\ config' = IF own[p] THEN server[p] ELSE config
          /\ Goto(p, "loggedIn")
       \/ /\ "write" \in Faults
          /\ config' \in {config} \cup (IF own[p] THEN {Torn} ELSE {})
          /\ Goto(p, "rollback")
    /\ UNCHANGED <<item, issuer, live, processVars>>

RestoreNothing(p) == NoItem

\* What a failed login puts back; NoItem is a Delete.
Restore(p) == prior[p]

\* config.Write failed: put the prior item back, unless it could not be read.
Rollback(p) ==
    /\ pc[p] = "rollback"
    /\ IF prior[p] = Unread
       THEN Goto(p, "unknownPrior") /\ UNCHANGED <<item, late>>
       ELSE KeychainWrite(p, Restore(p), "restored", "failed")
    /\ UNCHANGED <<config, issuer, live, server, own, cookie, prior, replaced>>

-----------------------------------------------------------------------------
(* login update                                                            *)

Update(p, s) == BeginConfigured(p, "update", s, "guard")

NeverRebinds(p, it) == FALSE

\* storedOriginNeedsRebind
NeedsRebind(p, it) ==
    \/ it.kind \in {"unread", "malformed"}
    \/ it.kind = "legacy" /\ ~own[p]
    \/ it.kind = "bound" /\ it.origin # server[p]

\* guardRebind, before the cookie is asked for. It refuses unless the item is
\* at home with this server or the user said --rebind.
GuardRebind(p) ==
    /\ pc[p] = "guard"
    /\ \E it \in Readable :
          \/ ~NeedsRebind(p, it) /\ Goto(p, "prompt")
          \/ NeedsRebind(p, it) /\ Goto(p, "rebind") \* --rebind
          \/ NeedsRebind(p, it) /\ Goto(p, "failed")
    /\ UNCHANGED <<item, config, issuer, live, processVars>>

\* The user pastes a cookie of the server, and VerifyCookie accepts it.
Paste(p) ==
    /\ pc[p] \in {"prompt", "rebind"}
    /\ Issue(server[p], {})
    /\ cookie' = [cookie EXCEPT ![p] = Len(issuer')]
    /\ Goto(p, IF pc[p] = "prompt" THEN "pasted" ELSE "pastedRebind")
    /\ UNCHANGED <<item, config, server, own, prior, replaced, late>>

\* Set the new credential. The configuration is never written.
StoreUpdate(p) ==
    /\ pc[p] \in {"pasted", "pastedRebind"}
    /\ KeychainWrite(p, BoundItem(cookie[p], BindTo(p)),
                     IF pc[p] = "pasted" THEN "updated" ELSE "rebound",
                     "storeFailed")
    /\ replaced' = [replaced EXCEPT ![p] = item]
    /\ UNCHANGED <<config, issuer, live, server, own, cookie, prior>>

-----------------------------------------------------------------------------
(* A command that sends requests: ResolveContextSessionCookie, rotation    *)

Use(p, s) == BeginConfigured(p, "use", s, "resolve")

BoundToAny(p, it) == it.kind = "bound"

\* The stored origin is exactly the one of the context's server.
BoundHere(p, it) == it.kind = "bound" /\ it.origin = server[p]

\* A legacy item, and LegacyBindAllowed.
MayBind(p, it) == it.kind = "legacy" /\ own[p]

\* Everything else (no item, an error, a mismatch) loads nothing.
Resolve(p) ==
    /\ pc[p] = "resolve"
    /\ \E it \in Readable :
          /\ Goto(p, IF BoundHere(p, it) THEN "using"
                     ELSE IF MayBind(p, it) THEN "bind" ELSE "failed")
          /\ cookie' = [cookie EXCEPT ![p] = it.cookie]
    /\ UNCHANGED <<item, config, issuer, live, server, own, prior, replaced,
                   late>>

\* bindLegacySession: best effort, the cookie is used either way.
BindLegacy(p) ==
    /\ pc[p] = "bind"
    /\ KeychainWrite(p, BoundItem(cookie[p], server[p]), "using", "using")
    /\ UNCHANGED <<config, issuer, live, server, own, cookie, prior, replaced>>

\* Grafana answers 401 and rotates the cookie, if it still accepts it.
Rotate(p) ==
    /\ pc[p] = "using"
    /\ cookie[p] \in live
    /\ Issue(server[p], {cookie[p]})
    /\ \/ Goto(p, "persist") /\ cookie' = [cookie EXCEPT ![p] = Len(issuer')]
       \/ "lost" \in Faults /\ Goto(p, "failed") /\ UNCHANGED cookie
    /\ UNCHANGED <<item, config, server, own, prior, replaced, late>>

\* ErrRotateUnauthorized: the cookie was rotated by another process.
RotateRejected(p) ==
    /\ pc[p] = "using"
    /\ cookie[p] \notin live
    /\ Goto(p, "failed")
    /\ UNCHANGED <<item, config, issuer, live, processVars>>

PersistNothing(p) == item

\* persist writes the rotated cookie, bound as it was loaded.
Persisted(p) == BoundItem(cookie[p], server[p])

Persist(p) ==
    /\ pc[p] = "persist"
    /\ KeychainWrite(p, Persisted(p), "using", "using")
    /\ UNCHANGED <<config, issuer, live, server, own, cookie, prior, replaced>>

-----------------------------------------------------------------------------

Ended == {"using", "loggedIn", "storeFailed", "restored", "unknownPrior",
          "updated", "rebound", "failed", "prompt", "rebind"}

\* The process ends, by itself, by the user's interrupt at a prompt, or by a
\* crash that may cut the configuration short; its abandoned goroutines end too.
Exit(p) ==
    /\ pc[p] # "idle"
    /\ pc[p] \in Ended \/ "crash" \in Faults
    /\ Goto(p, "idle")
    /\ config' \in {config} \cup
                   (IF pc[p] = "stored" /\ own[p] THEN {Torn} ELSE {})
    /\ cookie' = [cookie EXCEPT ![p] = 0]
    /\ prior' = [prior EXCEPT ![p] = NoItem]
    /\ replaced' = [replaced EXCEPT ![p] = NoItem]
    /\ late' = [late EXCEPT ![p] = {}]
    /\ UNCHANGED <<item, issuer, live, server, own>>

\* The write of an abandoned goroutine: it comes out of nowhere.
Late == pc' = pc /\ item' # item

\* The history variables, which no step reads. A command is disturbed if a
\* write that is not its own happens while it runs. A rotated cookie is lost if
\* it is not stored, if its answer is, or if it is overwritten by a command
\* that was disturbed after it had read the item.
History(p) ==
    /\ disturbed' = {q \in Process : pc'[q] # "idle" /\
          \/ q \in disturbed /\ pc[q] # "idle"
          \/ <<item, config>>' # <<item, config>> /\ (q # p \/ Late)}
    /\ lossy' =
          \/ lossy
          \/ Late
          \/ pc[p] = "persist" /\ item' # Persisted(p)
          \/ pc'[p] = "failed" /\ live' # live
          \/ pc[p] \in {"rollback", "bind"} /\ p \in disturbed

Next ==
    \E p \in Process :
        \/ \E s \in Server : Login(p, s) /\ History(p)
        \/ \E s \in Server : Update(p, s) /\ History(p)
        \/ \E s \in Server : Use(p, s) /\ History(p)
        \/ ReadPrior(p) /\ History(p)
        \/ StoreLogin(p) /\ History(p)
        \/ WriteConfig(p) /\ History(p)
        \/ Rollback(p) /\ History(p)
        \/ GuardRebind(p) /\ History(p)
        \/ Paste(p) /\ History(p)
        \/ StoreUpdate(p) /\ History(p)
        \/ Resolve(p) /\ History(p)
        \/ BindLegacy(p) /\ History(p)
        \/ Rotate(p) /\ History(p)
        \/ RotateRejected(p) /\ History(p)
        \/ Persist(p) /\ History(p)
        \/ Land(p) /\ History(p)
        \/ Exit(p) /\ History(p)

Spec == Init /\ [][Next]_vars

-----------------------------------------------------------------------------
(* Properties                                                              *)

Origin == Server \cup {Unbound}

Item == [kind : {"none", "malformed", "legacy", "bound"},
         cookie : {0} \cup Cookie, origin : Origin]

Label == Ended \cup {"idle", "verified", "read", "stored", "rollback", "guard",
                     "pasted", "pastedRebind", "resolve", "bind", "persist"}

\* Every variable has its type.
TypeOK ==
    /\ item \in Item
    /\ config \in Server \cup {Unset, Torn}
    /\ issuer \in Seq(Origin)
    /\ live \subseteq Cookie
    /\ pc \in [Process -> Label]
    /\ server \in [Process -> Server \cup {Unset}]
    /\ \A p \in Process : pc[p] # "idle" => server[p] \in Server
    /\ own \in [Process -> BOOLEAN]
    /\ cookie \in [Process -> {0} \cup Cookie]
    /\ prior \in [Process -> Item \cup {Unread}]
    /\ replaced \in [Process -> Item]
    /\ late \in [Process -> SUBSET Item]
    /\ disturbed \subseteq Process
    /\ lossy \in BOOLEAN

\* A command sends a cookie only to the server that issued it, whatever other
\* processes do to the item and whatever configuration it was started with. (A
\* legacy item does not say who issued its cookie; Resolve binds it.)
CookieOnlyToItsServer ==
    \A p \in Process :
        pc[p] \in {"using", "persist"} =>
            issuer[cookie[p]] \in {server[p], Unbound}

\* However many processes load, rotate and replace it, the stored cookie is one
\* that Grafana accepts, or the process that rotated it is about to store its
\* successor, unless a write failed or a rotation got lost.
KeychainKeepsLiveSession ==
    item.kind = "bound" /\ ~lossy =>
        \/ item.cookie \in live
        \/ \E p \in Process : pc[p] = "persist"

\* A login that reports success leaves a context whose configuration and
\* credential agree, if nobody else wrote them meanwhile.
LoginIsUsable ==
    \A p \in Process \ disturbed :
        pc[p] = "loggedIn" =>
            /\ item = BoundItem(cookie[p], server[p])
            /\ own[p] => config = server[p]

\* A login that could not write the configuration puts back the very item that
\* it replaced, when it could read it, and a Set that returned an error has left
\* the item as it was.
FailureLeavesItem ==
    \A p \in Process \ disturbed :
        pc[p] \in {"restored", "storeFailed"} => item = replaced[p]

\* login update without --rebind only replaces an item that was bound to the
\* same server, or a legacy one of the user's own configuration, if nobody
\* replaced the item while the user was asked for the cookie.
NoSilentRebind ==
    \A p \in Process \ disturbed :
        pc[p] = "updated" =>
            /\ replaced[p].kind \in {"none", "bound", "legacy"}
            /\ replaced[p].kind = "bound" => replaced[p].origin = server[p]
            /\ replaced[p].kind = "legacy" => own[p]

-----------------------------------------------------------------------------
(* What the properties rest on                                             *)

\* An item names the server that issued its cookie, if anybody knows it.
SoundItem(it) ==
    /\ it.kind = "bound" =>
          it.cookie \in Cookie /\ issuer[it.cookie] \in {it.origin, Unbound}
    /\ it.kind = "legacy" =>
          it = LegacyItem(it.cookie) /\ it.cookie \in Cookie /\ issuer[it.cookie] = Unbound

\* p holds a cookie that Grafana has just issued and nobody else knows of.
HoldsFresh(p) == pc[p] \in {"verified", "read", "pasted", "pastedRebind", "persist"}

OriginInv ==
    /\ SoundItem(item)
    /\ \A p \in Process :
          /\ SoundItem(prior[p]) /\ \A it \in late[p] : SoundItem(it)
          /\ HoldsFresh(p) => cookie[p] \in Cookie /\ issuer[cookie[p]] = server[p]
          /\ pc[p] = "bind" => cookie[p] \in Cookie /\ issuer[cookie[p]] = Unbound
          /\ pc[p] = "using" =>
                cookie[p] \in Cookie /\ issuer[cookie[p]] \in {server[p], Unbound}

\* Nobody can rotate a fresh cookie away.
FreshInv ==
    \A p \in Process : HoldsFresh(p) =>
        /\ cookie[p] \in live
        /\ item.cookie # cookie[p]
        /\ \A q \in Process :
              /\ q # p => cookie[q] # cookie[p]
              /\ prior[q].cookie # cookie[p]
              /\ \A it \in late[q] : it.cookie # cookie[p]

\* What a command read, nobody else has changed since.
UndisturbedInv ==
    \A p \in Process \ disturbed :
        /\ pc[p] = "stored" => item = BoundItem(cookie[p], server[p])
        /\ pc[p] = "read" => prior[p] \in {item, Unread}
        /\ pc[p] \in {"stored", "rollback"} => prior[p] \in {replaced[p], Unread}
        /\ pc[p] \in {"prompt", "pasted"} => ~NeedsRebind(p, item)
        /\ pc[p] = "bind" => item = LegacyItem(cookie[p])

\* The cookie of it is one that Grafana accepts, or its successor is on its way.
Live(it) ==
    it.kind \in {"bound", "legacy"} =>
        it.cookie \in live \/ \E p \in Process : pc[p] = "persist"

LiveInv ==
    ~lossy =>
        /\ Live(item)
        /\ \A p \in Process \ disturbed :
              pc[p] \in {"read", "stored", "rollback"} => Live(prior[p])

\* All of it, with the types: see also FailureLeavesItem and NoSilentRebind.
Inv ==
    /\ TypeOK /\ LoginIsUsable
    /\ OriginInv /\ FreshInv /\ UndisturbedInv /\ LiveInv

=============================================================================
