------------------------------- MODULE Serve -------------------------------
(* resources serve: the dashboards held in memory, the files they come from *)
(* (internal/resources, internal/server/handlers), the watcher that reads   *)
(* changed files (internal/server/watch, cmd/grafanapi/resources/serve.go), *)
(* the browser that is told to reload, and the guard in front of it all     *)
(* (internal/server/guard.go).  The hub that carries the reload messages is *)
(* the module LiveReload; here a message is a pending reload.               *)
(*                                                                          *)
(* A document is its name and a revision, unique to each write.  The Ref of *)
(* a resource (group, version, kind, namespace, name) is its name: the file *)
(* holds dashboards of one version.                                         *)
EXTENDS Naturals, FiniteSets

CONSTANTS Files, Names, Handlers,  \* a handler serves one PUT
          Main, Other,             \* ports: this server, another preview on the host
          Addresses,               \* values of --address
          Interfaces,              \* addresses of this host
          LinkLocal,               \* those of them that are link-local
          MaxEdits,                \* bound: changes made outside the server
          Runs                     \* bound: starts of each server

VARIABLES disk, events, watcher, memory, handler, shown, reload,
          token, jar,
          edits, crashed,
          homes, opened            \* history: files that held a name; URLs opened

server == <<watcher, memory, handler>>
browser == <<shown, reload>>
access == <<token, jar, opened>>
vars == <<disk, events, server, browser, access, edits, crashed, homes>>

Ports == {Main, Other}
NoName == "none"
NoFile == "none"
Missing == [name |-> NoName, rev |-> 0]
Cut == [name |-> NoName, rev |-> 1]       \* truncated: no document
Mixed == [name |-> NoName, rev |-> 2]     \* one document written over another
Parses(doc) == doc.name \in Names

ASSUME NamesAssumption == NoName \notin Names /\ NoFile \notin Files
ASSUME BoundsAssumption == IsFiniteSet(Handlers) /\ MaxEdits \in Nat

Revision == 2 + edits + Cardinality({h \in Handlers : handler[h].rev > 0})

Nothing == [path |-> NoFile, rev |-> 0]   \* no resource of that name
Idle == [pc |-> "idle", name |-> NoName, path |-> NoFile, rev |-> 0,
         current |-> FALSE, clean |-> FALSE]

-----------------------------------------------------------------------------
(* The guard.  A browser keeps cookies by host, so the two previews share   *)
(* one jar; each names its cookie after its port.  A host is a name with a  *)
(* port, which a browser leaves out if it is 80.                            *)

CookieOfHost(port) == Main                                      \* mutant
CookieName(port) == port

NoToken == <<0, 0>>
NoPort == 0
Wildcards == {"", "0.0.0.0", "::"}
Loopback == {"localhost", "127.0.0.1", "::1"}

AllowedHosts(address, port) ==
    (Loopback \cup IF address \in Wildcards THEN Interfaces \ LinkLocal ELSE {address})
        \X ({port} \cup IF port = 80 THEN {NoPort} ELSE {})

PageHost(address, port) ==
    <<IF address \in Wildcards THEN "127.0.0.1" ELSE address,
      IF port = 80 THEN NoPort ELSE port>>

(* Sec-Fetch-Site and Origin, if the request has them.                      *)
OriginAllowed(request, address, port) ==
    /\ request.site \in {"", "same-origin", "none"}
    /\ request.origin \in {{}} \cup {{host} : host \in AllowedHosts(address, port)}

Guard(request, port) ==
    IF ~request.hostAllowed THEN "421"
    ELSE IF request.query # NoToken
    THEN IF request.query = token[port] THEN "303" ELSE "401"
    ELSE IF jar[CookieName(port)] # token[port] THEN "401"
    ELSE IF ~request.originAllowed THEN "403" ELSE "next"

(* What a browser sends, whatever address the preview listens on: the user  *)
(* opens its page, and the page loads and saves, or a page of the other     *)
(* preview does, which is of the same site.                                 *)
Requests(address, port, sites, origins) ==
    LET host == PageHost(address, port) IN
    {[hostAllowed |-> host \in AllowedHosts(address, port), query |-> NoToken,
      originAllowed |-> OriginAllowed([site |-> site, origin |-> origin], address, port)] :
        site \in sites, origin \in origins}

ByUser == [p \in Ports |-> UNION {Requests(a, p, {"none"}, {{}}) : a \in Addresses}]
FromPage == [p \in Ports |-> ByUser[p] \cup
    UNION {Requests(a, p, {"", "same-origin"}, {{}, {PageHost(a, p)}}) : a \in Addresses}]
FromOther == [p \in Ports |->
    UNION {Requests(a, p, {"same-site"}, {{}} \cup {{PageHost(a, q)} : q \in Ports \ {p}}) :
             a \in Addresses}]
FromURL(port) == {[request EXCEPT !.query = token[port]] : request \in ByUser[port]}

Admitted == \A request \in FromPage[Main] : Guard(request, Main) = "next"

(* The URL printed at startup: its token is exchanged for a cookie.         *)
OpenURL(port) ==
    /\ \A request \in FromURL(port) : Guard(request, port) = "303"
    /\ jar' = [jar EXCEPT ![CookieName(port)] = token[port]]
    /\ opened' = opened \cup {port}
    /\ UNCHANGED <<disk, events, server, browser, token, edits, crashed, homes>>

-----------------------------------------------------------------------------
(* fsnotify, and the goroutine that reads what changed.  Removals are       *)
(* ignored; events of different files may be taken in any order.            *)

NotifyCreated(f) == IF disk[f] = Missing THEN [events EXCEPT ![f] = @ + 1] ELSE events  \* mutant
Notify(f) == [events EXCEPT ![f] = @ + 1]

Watch(f) ==
    /\ ~crashed /\ watcher = Missing /\ events[f] > 0
    /\ events' = [events EXCEPT ![f] = @ - 1]
    /\ watcher' = IF Parses(disk[f])
                  THEN [name |-> disk[f].name, rev |-> disk[f].rev, path |-> f]
                  ELSE watcher
    /\ UNCHANGED <<disk, memory, handler, browser, access, edits, crashed, homes>>

(* Resources.Add: a new Resource takes the place of the one of its Ref, and *)
(* every OnChange callback sends a reload.  The map has no lock: an Add     *)
(* while a handler iterates over it may end the process.                    *)
ReloadBefore(n) == {}                                           \* mutant
Reload(n) == {n}

Add ==
    /\ ~crashed /\ watcher # Missing
    /\ \/ /\ memory' = [memory EXCEPT ![watcher.name] =
                           [path |-> watcher.path, rev |-> watcher.rev]]
          /\ handler' = [h \in Handlers |->
                           IF handler[h].name = watcher.name
                           THEN [handler[h] EXCEPT !.current = FALSE] ELSE handler[h]]
          /\ reload' = reload \cup Reload(watcher.name)
          /\ watcher' = Missing
          /\ UNCHANGED crashed
       \/ /\ \E h \in Handlers : handler[h].pc = "find"
          /\ crashed' = TRUE
          /\ UNCHANGED <<server, reload>>
    /\ UNCHANGED <<disk, events, shown, access, edits, homes>>

-----------------------------------------------------------------------------
(* PUT of a dashboard: find it in memory, truncate its file, write the      *)
(* document, then set it on the resource found at the start.                *)

At(h, pc) == handler[h].pc = pc
Goto(h, pc) == handler' = [handler EXCEPT ![h].pc = pc]

(* Handlers other than h that are about to write to f no longer have the    *)
(* file to themselves.                                                      *)
Disturb(f, hs) == [g \in Handlers |->
                     IF handler[g].path = f /\ g \notin hs
                     THEN [handler[g] EXCEPT !.clean = FALSE] ELSE handler[g]]

Put(h, n) ==
    /\ ~crashed /\ Admitted /\ At(h, "idle")
    /\ handler' = [handler EXCEPT ![h] = [Idle EXCEPT !.pc = "find", !.name = n]]
    /\ UNCHANGED <<disk, events, watcher, memory, browser, access, edits, crashed, homes>>

Alone(h, f) == /\ events[f] = 0
               /\ watcher = Missing
               /\ \A g \in Handlers \ {h} : handler[g].path # f \/ handler[g].pc = "done"

Find(h) ==
    /\ ~crashed /\ At(h, "find")
    /\ LET r == memory[handler[h].name] IN
       IF r = Nothing THEN Goto(h, "done")
       ELSE handler' = [Disturb(r.path, {}) EXCEPT
                           ![h] = [handler[h] EXCEPT !.pc = "found", !.path = r.path,
                                   !.current = TRUE, !.clean = Alone(h, r.path)]]
    /\ UNCHANGED <<disk, events, watcher, memory, browser, access, edits, crashed, homes>>

Truncate(h) ==
    /\ ~crashed /\ At(h, "found")
    /\ \/ /\ disk' = [disk EXCEPT ![handler[h].path] = Cut]
          /\ events' = Notify(handler[h].path)
          /\ handler' = [Disturb(handler[h].path, {h}) EXCEPT ![h].pc = "open"]
       \/ Goto(h, "done") /\ UNCHANGED <<disk, events>>
    /\ UNCHANGED <<watcher, memory, browser, access, edits, crashed, homes>>

Encode(h) ==
    LET f == handler[h].path
        doc == [name |-> handler[h].name, rev |-> Revision] IN
    /\ ~crashed /\ At(h, "open")
    /\ \/ /\ disk' \in {[disk EXCEPT ![f] = d] :
                           d \in {doc} \cup (IF disk[f] = Cut THEN {} ELSE {Mixed})}
          /\ events' = Notify(f)
          /\ homes' = [homes EXCEPT ![doc.name] = @ \cup {f}]
          /\ handler' = [Disturb(f, {h}) EXCEPT ![h].pc = "written", ![h].rev = doc.rev]
       \/ Goto(h, "done") /\ UNCHANGED <<disk, events, homes>>
    /\ UNCHANGED <<watcher, memory, browser, access, edits, crashed>>

LeaveRaw(h) == memory                                           \* mutant
SetRaw(h) == IF handler[h].current
             THEN [memory EXCEPT ![handler[h].name].rev = handler[h].rev] ELSE memory

Respond(h) ==
    /\ ~crashed /\ At(h, "written")
    /\ memory' = SetRaw(h)
    /\ Goto(h, "saved")
    /\ UNCHANGED <<disk, events, watcher, browser, access, edits, crashed, homes>>

Done(h) ==
    /\ At(h, "saved") /\ Goto(h, "done")
    /\ UNCHANGED <<disk, events, watcher, memory, browser, access, edits, crashed, homes>>

-----------------------------------------------------------------------------
(* GET of a dashboard, when it is opened and at every reload message.       *)

Get(n) ==
    /\ ~crashed /\ Admitted
    /\ shown[n] = 0 \/ n \in reload
    /\ memory[n] # Nothing
    /\ shown' = [shown EXCEPT ![n] = memory[n].rev]
    /\ reload' = reload \ {n}
    /\ UNCHANGED <<disk, events, server, access, edits, crashed, homes>>

-----------------------------------------------------------------------------
(* Outside the server: editors and other tools, and starting it again.      *)

Save(f, n) ==
    /\ edits < MaxEdits /\ edits' = edits + 1
    /\ disk' = [disk EXCEPT ![f] = [name |-> n, rev |-> Revision]]
    /\ events' = Notify(f)
    /\ homes' = [homes EXCEPT ![n] = @ \cup {f}]
    /\ handler' = Disturb(f, {})
    /\ UNCHANGED <<watcher, memory, browser, access, crashed>>

Spoil(f) ==
    /\ edits < MaxEdits /\ edits' = edits + 1
    /\ disk[f] # Missing
    /\ \/ disk' = [disk EXCEPT ![f] = Cut] /\ events' = Notify(f)
       \/ disk' = [disk EXCEPT ![f] = Missing] /\ UNCHANGED events
    /\ handler' = Disturb(f, {})
    /\ UNCHANGED <<watcher, memory, browser, access, crashed, homes>>

Loaded(m) == \A n \in Names :
    IF \E f \in Files : disk[f].name = n
    THEN \E f \in Files : disk[f].name = n /\ m[n] = [path |-> f, rev |-> disk[f].rev]
    ELSE m[n] = Nothing

(* A new run: a new token, and the files read anew.                         *)
Start(port) ==
    /\ token[port][2] < Runs[port]
    /\ token' = [token EXCEPT ![port][2] = @ + 1]
    /\ opened' = opened \ {port}
    /\ IF port = Main
       THEN /\ memory' \in {m \in [Names -> {Nothing} \cup
                                     {[path |-> f, rev |-> disk[f].rev] : f \in Files}] : Loaded(m)}
            /\ handler' = [h \in Handlers |-> [handler[h] EXCEPT !.pc = "done"]]
            /\ watcher' = Missing /\ events' = [f \in Files |-> 0] /\ crashed' = FALSE
            /\ shown' = [n \in Names |-> 0] /\ reload' = {}
       ELSE UNCHANGED <<events, server, browser, crashed>>
    /\ UNCHANGED <<disk, jar, edits, homes>>

Init ==
    /\ \E d \in [Files -> {Missing} \cup [name : Names, rev : {1}]] :
         /\ disk = d
         /\ homes = [n \in Names |-> {f \in Files : d[f].name = n}]
         /\ memory \in {m \in [Names -> {Nothing} \cup [path : Files, rev : {1}]] :
              \A n \in Names : IF homes[n] = {} THEN m[n] = Nothing ELSE m[n].path \in homes[n]}
    /\ events = [f \in Files |-> 0] /\ watcher = Missing
    /\ handler = [h \in Handlers |-> Idle]
    /\ shown = [n \in Names |-> 0] /\ reload = {}
    /\ token = [p \in Ports |-> <<p, 1>>] /\ jar = [p \in Ports |-> NoToken] /\ opened = {}
    /\ edits = 0 /\ crashed = FALSE

Next ==
    \/ \E p \in Ports : OpenURL(p) \/ Start(p)
    \/ \E f \in Files : Watch(f) \/ Spoil(f) \/ \E n \in Names : Save(f, n)
    \/ Add
    \/ \E n \in Names : Get(n) \/ \E h \in Handlers : Put(h, n)
    \/ \E h \in Handlers : Find(h) \/ Truncate(h) \/ Encode(h) \/ Respond(h) \/ Done(h)

Spec == Init /\ [][Next]_vars

-----------------------------------------------------------------------------
Rev == Nat \ {0}
Documents == {Missing, Cut, Mixed} \cup [name : Names, rev : Rev]

TypeOK ==
    /\ disk \in [Files -> Documents]
    /\ events \in [Files -> Nat]
    /\ watcher \in {Missing} \cup [name : Names, rev : Rev, path : Files]
    /\ memory \in [Names -> {Nothing} \cup [path : Files, rev : Rev]]
    /\ handler \in [Handlers ->
         [pc : {"idle", "find", "found", "open", "written", "saved", "done"},
          name : Names \cup {NoName}, path : Files \cup {NoFile}, rev : Nat,
          current : BOOLEAN, clean : BOOLEAN]]
    /\ shown \in [Names -> Nat] /\ reload \subseteq Names
    /\ token \in [Ports -> Ports \X Nat] /\ jar \in [Ports -> {NoToken} \cup Ports \X Nat]
    /\ opened \subseteq Ports
    /\ edits \in Nat /\ crashed \in BOOLEAN
    /\ homes \in [Names -> SUBSET Files]

(* Opening the URL of a run is enough until that run ends: no other preview *)
(* on the host, on whatever port, takes its cookie away.                    *)
StaysAdmitted ==
    \A p \in opened : \A request \in FromPage[p] : Guard(request, p) = "next"

(* Nor does the other preview get in, although its browser sends the        *)
(* cookies of both: the host is the same and the cookies are SameSite.      *)
PreviewsAreApart ==
    \A p \in Ports : \A request \in FromOther[p] : Guard(request, p) \in {"401", "403"}

Quiet == /\ ~crashed /\ watcher = Missing
         /\ \A f \in Files : events[f] = 0
         /\ \A h \in Handlers : handler[h].pc \in {"idle", "done"}

(* Once the watcher has nothing left to read, memory holds what the file    *)
(* does, whichever saves from the browser and edits crossed each other: for *)
(* each name that was only ever in one file, if that file parses.           *)
CaughtUp ==
    Quiet => \A f \in Files :
        (Parses(disk[f]) /\ homes[disk[f].name] = {f}) =>
            memory[disk[f].name] = [path |-> f, rev |-> disk[f].rev]

(* A save that had its file to itself is served as soon as it is answered,  *)
(* though the watcher may have read the file halfway through: again for     *)
(* names that are in one file only.                                         *)
SaveIsServed ==
    \A h \in Handlers :
        (At(h, "saved") /\ handler[h].clean /\ homes[handler[h].name] = {handler[h].path}) =>
            /\ disk[handler[h].path] = [name |-> handler[h].name, rev |-> handler[h].rev]
            /\ memory[handler[h].name] = [path |-> handler[h].path, rev |-> handler[h].rev]

(* A browser that has followed every reload message shows the file, for     *)
(* each name that was only ever in one file, if that file parses.           *)
PreviewIsFresh ==
    Quiet /\ reload = {} =>
        \A f \in Files :
            (Parses(disk[f]) /\ homes[disk[f].name] = {f}) =>
                shown[disk[f].name] \in {0, disk[f].rev}

-----------------------------------------------------------------------------
(* What the properties rest on                                              *)

(* A browser that opened the URL of a run has its token.                    *)
TokensInv == \A p \in opened : jar[CookieName(p)] = token[p]

(* Whoever speaks of a name, of a file, has it from a file that held it.    *)
HomesInv ==
    /\ \A f \in Files : Parses(disk[f]) => f \in homes[disk[f].name]
    /\ watcher # Missing => watcher.path \in homes[watcher.name]
    /\ \A n \in Names : memory[n] # Nothing => memory[n].path \in homes[n]
    /\ \A h \in Handlers :
         /\ handler[h].pc \in {"find", "found", "open", "written", "saved"} =>
               handler[h].name \in Names
         /\ handler[h].pc \in {"found", "open", "written", "saved"} =>
               /\ handler[h].path \in homes[handler[h].name]
               /\ memory[handler[h].name] # Nothing
         /\ handler[h].pc \in {"written", "saved"} => handler[h].rev \in Rev

(* What the watcher has read of a file, the file still holds, or there is   *)
(* an event to tell it.                                                     *)
WatcherInv ==
    \A f \in Files : Parses(disk[f]) /\ watcher # Missing =>
        \/ events[f] > 0 \/ watcher.path # f
        \/ watcher.name = disk[f].name /\ watcher.rev = disk[f].rev

(* What a file holds is known to memory and to the browser, and no handler  *)
(* is about to overwrite it with something older; or else the watcher is on *)
(* its way.                                                                 *)
Known(f, n, r) ==
    /\ memory[n] = [path |-> f, rev |-> r]
    /\ n \in reload \/ shown[n] \in {0, r}
    /\ \A h \in Handlers :
          handler[h].pc = "written" /\ handler[h].name = n /\ handler[h].current =>
              handler[h].rev = r

FilesInv ==
    \A f \in Files : Parses(disk[f]) /\ homes[disk[f].name] = {f} =>
        \/ events[f] > 0
        \/ watcher = [name |-> disk[f].name, rev |-> disk[f].rev, path |-> f]
        \/ Known(f, disk[f].name, disk[f].rev)

(* A save that has its file to itself: how far it is, and what the watcher  *)
(* may have made of it.                                                     *)
CleanInv ==
    \A h \in Handlers : LET s == handler[h] IN
        s.clean /\ s.pc \in {"found", "open", "written", "saved"} /\ homes[s.name] = {s.path} =>
            /\ \A g \in Handlers \ {h} : handler[g].path # s.path \/ handler[g].pc = "done"
            /\ s.pc = "found" => events[s.path] = 0
            /\ s.pc = "open" => disk[s.path] = Cut
            /\ s.pc \in {"found", "open"} => s.current /\ (watcher = Missing \/ watcher.path # s.path)
            /\ s.pc \in {"written", "saved"} =>
                  /\ disk[s.path] = [name |-> s.name, rev |-> s.rev]
                  /\ \/ watcher = Missing \/ watcher.path # s.path
                     \/ watcher = [name |-> s.name, rev |-> s.rev, path |-> s.path]
                  /\ (s.pc = "written" /\ s.current) \/ memory[s.name].rev = s.rev

Inv ==
    /\ TypeOK /\ StaysAdmitted /\ PreviewsAreApart /\ TokensInv
    /\ HomesInv /\ WatcherInv /\ FilesInv /\ CleanInv
=============================================================================
