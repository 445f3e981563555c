-------------------------- MODULE CredentialProofs --------------------------
(***************************************************************************)
(* The safety properties of CredentialLifecycle, for any number of         *)
(* processes, servers and cookies, and whatever may go wrong.              *)
(***************************************************************************)
EXTENDS CredentialLifecycle, TLAPS, SequenceTheorems

\* Every step of a process but its bookkeeping.
ProcessStep(p) ==
    \/ \E s \in Server : Login(p, s) \/ Update(p, s) \/ Use(p, s)
    \/ ReadPrior(p) \/ StoreLogin(p) \/ WriteConfig(p) \/ Rollback(p)
    \/ GuardRebind(p) \/ Paste(p) \/ StoreUpdate(p)
    \/ Resolve(p) \/ BindLegacy(p) \/ Rotate(p) \/ RotateRejected(p) \/ Persist(p)
    \/ Land(p) \/ Exit(p)

LEMMA Steps ==
    ASSUME [Next]_vars
    PROVE  (\E p \in Process : ProcessStep(p) /\ History(p)) \/ UNCHANGED vars
    BY DEF Next, ProcessStep

-----------------------------------------------------------------------------
(* Cookies                                                                 *)

\* Grafana issues one cookie more, and forgets none that it issued.
LEMMA Issued ==
    ASSUME TypeOK, NEW s \in Server, NEW dead, Issue(s, dead)
    PROVE  /\ Len(issuer) \in Nat
           /\ issuer' \in Seq(Origin)
           /\ Len(issuer') = Len(issuer) + 1
           /\ Cookie' = Cookie \cup {Len(issuer')} /\ Len(issuer') \notin Cookie
           /\ issuer'[Len(issuer')] = s
           /\ \A c \in Cookie : issuer'[c] = issuer[c]
           /\ live' = (live \ dead) \cup {Len(issuer')}
<1>1. issuer \in Seq(Origin) /\ s \in Origin /\ issuer' = Append(issuer, s)
    BY DEF TypeOK, Origin, Issue
<1>2. /\ issuer' \in Seq(Origin) /\ Len(issuer') = Len(issuer) + 1
      /\ \A i \in 1..Len(issuer) : issuer'[i] = issuer[i]
      /\ issuer'[Len(issuer) + 1] = s
    BY <1>1, AppendProperties
<1>3. Len(issuer) \in Nat
    BY <1>1, LenProperties
<1> QED
    BY <1>2, <1>3 DEF Cookie, Issue

\* The steps in which Grafana issues a cookie, and what they leave alone.
LEMMA Issuing ==
    ASSUME TypeOK, NEW p \in Process, ProcessStep(p)
    PROVE  \/ UNCHANGED <<issuer, live>>
           \/ /\ \E s \in Server, dead \in {{}, {cookie[p]}} : Issue(s, dead)
              /\ UNCHANGED <<item, prior, late>>
<1>1. CASE \E s \in Server : Login(p, s) \/ Update(p, s) \/ Use(p, s)
    BY <1>1 DEF Login, Update, Use, BeginConfigured
<1>2. CASE Paste(p) \/ Rotate(p)
  <2>1. server[p] \in Server
    BY <1>2 DEF TypeOK, Paste, Rotate
  <2>2. Issue(server[p], {}) \/ Issue(server[p], {cookie[p]})
    BY <1>2 DEF Paste, Rotate
  <2> QED
    BY <1>2, <2>1, <2>2 DEF Paste, Rotate
<1> QED
    BY <1>1, <1>2 DEF ProcessStep, ReadPrior, StoreLogin, WriteConfig, Rollback,
       GuardRebind, StoreUpdate, Resolve, BindLegacy, RotateRejected, Persist, Land, Exit,
       processVars

\* What any step does to the cookies: they stay cookies, with their issuers.
LEMMA CookiesStay ==
    ASSUME TypeOK, NEW p \in Process, ProcessStep(p)
    PROVE  /\ issuer' \in Seq(Origin)
           /\ Cookie \subseteq Cookie'
           /\ \A c \in Cookie : issuer'[c] = issuer[c]
           /\ Item \subseteq Item'
           /\ live' \subseteq Cookie'
           /\ 0 \notin Cookie
<1>1. /\ issuer' \in Seq(Origin) /\ Cookie \subseteq Cookie' /\ live' \subseteq Cookie'
      /\ \A c \in Cookie : issuer'[c] = issuer[c]
  <2>1. CASE UNCHANGED <<issuer, live>>
    BY <2>1 DEF TypeOK, Cookie
  <2>2. ASSUME NEW s \in Server, NEW dead, Issue(s, dead)
        PROVE  /\ issuer' \in Seq(Origin) /\ Cookie \subseteq Cookie' /\ live' \subseteq Cookie'
               /\ \A c \in Cookie : issuer'[c] = issuer[c]
    BY <2>2, Issued DEF TypeOK
  <2> QED
    BY <2>1, <2>2, Issuing
<1>2. Item \subseteq Item'
    BY <1>1 DEF Item, Origin
<1>3. 0 \notin Cookie
    BY LenProperties DEF TypeOK, Cookie
<1> QED
    BY <1>1, <1>2, <1>3

-----------------------------------------------------------------------------
(* Items                                                                   *)

LEMMA Items ==
    /\ NoItem \in Item /\ Malformed \in Item /\ Unread \notin Item
    /\ \A c \in Cookie, s \in Server : BoundItem(c, s) \in Item
    /\ \A it \in Item \cup {Unread} : it.cookie \in {0} \cup Cookie
<1> USE DEF NoItem, Malformed, Unread, Item, Unbound, Origin, BoundItem
<1>1. NoItem \in Item /\ Malformed \in Item
    OBVIOUS
<1>2. Unread \notin Item
    OBVIOUS
<1>3. \A c \in Cookie, s \in Server : BoundItem(c, s) \in Item
    OBVIOUS
<1>4. ASSUME NEW it \in Item \cup {Unread} PROVE it.cookie \in {0} \cup Cookie
  <2>1. CASE it \in Item
    BY <2>1
  <2>2. CASE it = Unread
    BY <2>2
  <2> QED
    BY <2>1, <2>2
<1> QED
    BY <1>1, <1>2, <1>3, <1>4

\* What a Keychain write does to the item and to the writes given up on.
LEMMA Writes ==
    ASSUME TypeOK, NEW p \in Process, NEW new \in Item, NEW ok \in Label, NEW bad \in Label,
           KeychainWrite(p, new, ok, bad)
    PROVE  /\ item' \in {item, new}
           /\ pc' = [pc EXCEPT ![p] = pc'[p]] /\ pc' \in [Process -> Label]
           /\ pc'[p] \in {ok, bad}
           /\ pc'[p] # bad => item' = new
           /\ pc'[p] # ok => item' = item
           /\ late' = [late EXCEPT ![p] = late'[p]]
           /\ late'[p] \in {late[p], late[p] \cup {new}}
           /\ late' \in [Process -> SUBSET Item]
    BY DEF KeychainWrite, Goto, TypeOK

LEMMA TypeStep ==
    ASSUME TypeOK, OriginInv, NEW p \in Process, ProcessStep(p), History(p)
    PROVE  TypeOK'
<1>0. /\ issuer' \in Seq(Origin) /\ Cookie \subseteq Cookie' /\ Item \subseteq Item'
      /\ live' \subseteq Cookie'
    BY CookiesStay
<1>1. disturbed' \subseteq Process /\ lossy' \in BOOLEAN
    BY DEF History
<1> DEFINE Typed ==
        /\ item' \in Item'
        /\ config' \in Server \cup {Unset, Torn}
        /\ pc' \in [Process -> Label]
        /\ server' \in [Process -> Server \cup {Unset}]
        /\ \A q \in Process : pc'[q] # "idle" => server'[q] \in Server
        /\ own' \in [Process -> BOOLEAN]
        /\ cookie' \in [Process -> {0} \cup Cookie']
        /\ prior' \in [Process -> Item' \cup {Unread}]
        /\ replaced' \in [Process -> Item']
        /\ late' \in [Process -> SUBSET Item']
<1> SUFFICES Typed
    BY <1>0, <1>1 DEF TypeOK
<1>2. /\ item \in Item' /\ cookie \in [Process -> {0} \cup Cookie']
      /\ prior \in [Process -> Item' \cup {Unread}] /\ replaced \in [Process -> Item']
      /\ late \in [Process -> SUBSET Item']
    BY <1>0 DEF TypeOK
<1> USE DEF TypeOK, Goto, Label, Ended, processVars
<1>3. ASSUME NEW s \in Server, Login(p, s) PROVE Typed
  <2>1. Len(issuer') \in Cookie'
    BY <1>3, Issued DEF Login
  <2> QED
    BY <1>2, <1>3, <2>1 DEF Login, Begin
<1>4. ASSUME NEW s \in Server, Update(p, s) \/ Use(p, s) PROVE Typed
  <2>1. PICK label \in {"guard", "resolve"} :
           /\ pc' = [pc EXCEPT ![p] = label] /\ server' = [server EXCEPT ![p] = s]
           /\ \/ own' = [own EXCEPT ![p] = TRUE]
              \/ own' = [own EXCEPT ![p] = FALSE]
           /\ UNCHANGED <<item, config, cookie, prior, replaced, late>>
    BY <1>4 DEF Update, Use, BeginConfigured, Begin
  <2>2. own' \in [Process -> BOOLEAN]
    BY <2>1
  <2>3. /\ pc' \in [Process -> Label] /\ server' \in [Process -> Server \cup {Unset}]
        /\ \A q \in Process : pc'[q] # "idle" => server'[q] \in Server
    BY <2>1
  <2> QED
    BY <1>2, <2>1, <2>2, <2>3
<1>5. CASE ReadPrior(p)
    BY <1>0, <1>2, <1>5 DEF ReadPrior, Readable
<1>6. ASSUME StoreLogin(p) \/ StoreUpdate(p) PROVE Typed
  <2>1. BoundItem(cookie[p], BindTo(p)) \in Item
    BY <1>6, Items DEF StoreLogin, StoreUpdate, BindTo, OriginInv, HoldsFresh
  <2>2. \E ok \in Label : KeychainWrite(p, BoundItem(cookie[p], BindTo(p)), ok, "storeFailed")
    BY <1>6 DEF StoreLogin, StoreUpdate
  <2>4. item' \in Item' /\ late' \in [Process -> SUBSET Item'] /\ pc' \in [Process -> Label]
    <3> HIDE DEF TypeOK, Goto, Label, Ended
    <3>1. "storeFailed" \in Label
      BY DEF Label, Ended
    <3>2. item' \in Item /\ late' \in [Process -> SUBSET Item] /\ pc' \in [Process -> Label]
      BY <2>1, <2>2, <3>1, Writes DEF TypeOK
    <3> QED
      BY <1>0, <3>2
  <2>3. \A q \in Process : pc'[q] # "idle" => pc[q] # "idle"
    <3> HIDE DEF TypeOK, Goto, Label, Ended
    <3>1. pc[p] # "idle"
      BY <1>6 DEF StoreLogin, StoreUpdate
    <3>2. "storeFailed" \in Label
      BY DEF Label, Ended
    <3>3. pc' = [pc EXCEPT ![p] = pc'[p]]
      BY <2>1, <2>2, <3>2, Writes
    <3>4. \A q \in Process \ {p} : pc'[q] = pc[q]
      BY <3>3 DEF TypeOK
    <3> QED
      BY <3>1, <3>4
  <2> QED
    BY <1>0, <1>2, <1>6, <2>3, <2>4 DEF StoreLogin, StoreUpdate
<1>7. CASE WriteConfig(p)
    BY <1>2, <1>7 DEF WriteConfig
<1>8. CASE Rollback(p)
  <2>1. CASE prior[p] = Unread
    BY <1>2, <1>8, <2>1 DEF Rollback
  <2>2. CASE prior[p] # Unread
    <3>1. prior[p] \in Item /\ KeychainWrite(p, prior[p], "restored", "failed")
      BY <1>8, <2>2 DEF Rollback, Restore
    <3>2. item' \in Item' /\ late' \in [Process -> SUBSET Item'] /\ pc' \in [Process -> Label]
      <4> HIDE DEF TypeOK, Goto, Label, Ended
      <4>1. "restored" \in Label /\ "failed" \in Label
        BY DEF Label, Ended
      <4>2. item' \in Item /\ late' \in [Process -> SUBSET Item] /\ pc' \in [Process -> Label]
        BY <3>1, <4>1, Writes DEF TypeOK
      <4> QED
        BY <1>0, <4>2
    <3>3. \A q \in Process : pc'[q] # "idle" => pc[q] # "idle"
      <4> HIDE DEF TypeOK, Goto, Label, Ended
      <4>1. pc[p] # "idle"
        BY <1>8 DEF Rollback
      <4>2. "restored" \in Label /\ "failed" \in Label
        BY DEF Label, Ended
      <4>3. pc' = [pc EXCEPT ![p] = pc'[p]]
        BY <3>1, <4>2, Writes
      <4>4. \A q \in Process \ {p} : pc'[q] = pc[q]
        BY <4>3 DEF TypeOK
      <4> QED
        BY <4>1, <4>4
    <3> QED
      BY <1>2, <1>8, <3>2, <3>3 DEF Rollback
  <2> QED
    BY <2>1, <2>2
<1>9. CASE GuardRebind(p)
    BY <1>2, <1>9 DEF GuardRebind
<1>10. CASE Paste(p)
  <2>1. Len(issuer') \in Cookie'
    BY <1>10, Issued DEF Paste
  <2> QED
    BY <1>2, <1>10, <2>1 DEF Paste
<1>11. CASE Resolve(p)
  <2>1. cookie' \in [Process -> {0} \cup Cookie']
    BY <1>0, <1>2, <1>11, Items DEF Resolve, Readable
  <2> QED
    BY <1>2, <1>11, <2>1 DEF Resolve
<1>12. CASE BindLegacy(p) \/ Persist(p)
  <2>1. BoundItem(cookie[p], server[p]) \in Item
    BY <1>12, Items DEF BindLegacy, Persist, OriginInv, HoldsFresh
  <2>2. KeychainWrite(p, BoundItem(cookie[p], server[p]), "using", "using")
    BY <1>12 DEF BindLegacy, Persist, Persisted
  <2>3. item' \in Item' /\ late' \in [Process -> SUBSET Item'] /\ pc' \in [Process -> Label]
    <3> HIDE DEF TypeOK, Goto, Label, Ended
    <3>1. "using" \in Label
      BY DEF Label, Ended
    <3>2. item' \in Item /\ late' \in [Process -> SUBSET Item] /\ pc' \in [Process -> Label]
      BY <2>1, <2>2, <3>1, Writes DEF TypeOK
    <3> QED
      BY <1>0, <3>2
  <2>4. \A q \in Process : pc'[q] # "idle" => pc[q] # "idle"
    <3> HIDE DEF TypeOK, Goto, Label, Ended
    <3>1. pc[p] # "idle"
      BY <1>12 DEF BindLegacy, Persist
    <3>2. "using" \in Label
      BY DEF Label, Ended
    <3>3. pc' = [pc EXCEPT ![p] = pc'[p]]
      BY <2>1, <2>2, <3>2, Writes
    <3>4. \A q \in Process \ {p} : pc'[q] = pc[q]
      BY <3>3 DEF TypeOK
    <3> QED
      BY <3>1, <3>4
  <2> QED
    BY <1>2, <1>12, <2>3, <2>4 DEF BindLegacy, Persist
<1>13. CASE Rotate(p)
  <2>1. Len(issuer') \in Cookie'
    BY <1>13, Issued DEF Rotate
  <2> QED
    BY <1>2, <1>13, <2>1 DEF Rotate
<1>14. CASE RotateRejected(p)
    BY <1>2, <1>14 DEF RotateRejected
<1>15. CASE Land(p)
    BY <1>0, <1>2, <1>15 DEF Land
<1>16. CASE Exit(p)
  <2>1. NoItem \in Item'
    BY <1>0, Items
  <2> QED
    BY <1>2, <1>16, <2>1 DEF Exit
<1> QED
    BY <1>3, <1>4, <1>5, <1>6, <1>7, <1>8, <1>9, <1>10, <1>11, <1>12, <1>13, <1>14, <1>15,
       <1>16 DEF ProcessStep

\* A step of a process leaves what the others hold alone.
LEMMA OneProcessMoves ==
    ASSUME TypeOK, NEW p \in Process, ProcessStep(p), NEW q \in Process, q # p
    PROVE  /\ pc'[q] = pc[q] /\ server'[q] = server[q] /\ own'[q] = own[q]
           /\ cookie'[q] = cookie[q] /\ prior'[q] = prior[q] /\ replaced'[q] = replaced[q]
           /\ late'[q] = late[q]
<1> USE DEF TypeOK, Goto, processVars
<1>1. CASE \E s \in Server : Login(p, s) \/ Update(p, s) \/ Use(p, s)
    BY <1>1 DEF Login, Update, Use, BeginConfigured, Begin
<1>2. CASE ReadPrior(p) \/ WriteConfig(p) \/ GuardRebind(p) \/ Paste(p) \/ Resolve(p)
    BY <1>2 DEF ReadPrior, WriteConfig, GuardRebind, Paste, Resolve
<1>3. CASE StoreLogin(p) \/ StoreUpdate(p)
    BY <1>3 DEF StoreLogin, StoreUpdate, KeychainWrite
<1>4. CASE Rollback(p)
    BY <1>4 DEF Rollback, KeychainWrite
<1>5. CASE BindLegacy(p) \/ Persist(p)
    BY <1>5 DEF BindLegacy, Persist, KeychainWrite
<1>6. CASE Rotate(p) \/ RotateRejected(p)
    BY <1>6 DEF Rotate, RotateRejected
<1>7. CASE Land(p) \/ Exit(p)
    BY <1>7 DEF Land, Exit
<1> QED
    BY <1>1, <1>2, <1>3, <1>4, <1>5, <1>6, <1>7 DEF ProcessStep

-----------------------------------------------------------------------------
(* Who issued what                                                         *)

LEMMA SoundStays ==
    ASSUME TypeOK, NEW p \in Process, ProcessStep(p), NEW it, SoundItem(it)
    PROVE  SoundItem(it)'
    BY CookiesStay DEF SoundItem

\* What the process that moves has written, and what it holds.
MovedOrigin(p) ==
    /\ SoundItem(item)'
    /\ SoundItem(prior[p])' /\ \A it \in late'[p] : SoundItem(it)'
    /\ HoldsFresh(p)' => cookie'[p] \in Cookie' /\ issuer'[cookie'[p]] = server'[p]
    /\ pc'[p] = "bind" => cookie'[p] \in Cookie' /\ issuer'[cookie'[p]] = Unbound
    /\ pc'[p] = "using" =>
          cookie'[p] \in Cookie' /\ issuer'[cookie'[p]] \in {server'[p], Unbound}

\* A Keychain write of a sound item.
LEMMA SoundWrite ==
    ASSUME TypeOK, OriginInv, NEW p \in Process, ProcessStep(p),
           NEW new \in Item, SoundItem(new), NEW ok \in Label, NEW bad \in Label,
           KeychainWrite(p, new, ok, bad)
    PROVE  SoundItem(item)' /\ \A it \in late'[p] : SoundItem(it)'
<1>1. item' \in {item, new} /\ late'[p] \in {late[p], late[p] \cup {new}}
    BY Writes
<1>2. \A it \in {item, new} \cup late[p] : SoundItem(it)'
    BY SoundStays DEF OriginInv
<1>3. CASE item' = new
    BY <1>1, <1>2, <1>3 DEF SoundItem
<1>4. CASE item' = item
    BY <1>1, <1>2, <1>4 DEF SoundItem
<1> QED
    BY <1>1, <1>3, <1>4

\* The process that moves writes and keeps only sound items and cookies.
LEMMA MovedOriginStep ==
    ASSUME TypeOK, OriginInv, NEW p \in Process, ProcessStep(p)
    PROVE  MovedOrigin(p)
<1>0. /\ \A it \in late[p] : SoundItem(it)'
      /\ item' = item => SoundItem(item)'
      /\ prior'[p] = prior[p] => SoundItem(prior[p])'
  <2>1. \A it : SoundItem(it) => SoundItem(it)'
    BY SoundStays
  <2> QED
    BY <2>1 DEF OriginInv, SoundItem
<1>00. Cookie \subseteq Cookie' /\ \A c \in Cookie : issuer'[c] = issuer[c]
    BY CookiesStay
<1> USE DEF TypeOK, Goto, processVars, MovedOrigin, HoldsFresh
<1>3. ASSUME NEW s \in Server, Login(p, s) PROVE MovedOrigin(p)
  <2>1. /\ cookie'[p] \in Cookie' /\ issuer'[cookie'[p]] = s /\ server'[p] = s
        /\ pc'[p] = "verified"
    BY <1>3, Issued DEF Login, Begin
  <2> QED
    BY <1>0, <1>3, <2>1 DEF Login
<1>4. ASSUME NEW s \in Server, Update(p, s) \/ Use(p, s) PROVE MovedOrigin(p)
    BY <1>0, <1>4 DEF Update, Use, BeginConfigured, Begin
<1>5. CASE ReadPrior(p)
  <2>1. SoundItem(prior[p])'
    BY <1>0, <1>5 DEF ReadPrior, Readable, SoundItem, Unread, OriginInv
  <2> QED
    BY <1>0, <1>5, <2>1 DEF ReadPrior, OriginInv, Cookie
<1>6. CASE StoreLogin(p) \/ StoreUpdate(p)
  <2> DEFINE new == BoundItem(cookie[p], server[p])
  <2>1. new \in Item /\ SoundItem(new)
    BY <1>6, Items DEF StoreLogin, StoreUpdate, OriginInv, SoundItem, BoundItem
  <2>2. PICK ok \in {"stored", "updated", "rebound"} : KeychainWrite(p, new, ok, "storeFailed")
    BY <1>6 DEF StoreLogin, StoreUpdate, BindTo
  <2>3. {"stored", "updated", "rebound", "storeFailed"} \subseteq Label
    BY DEF Label, Ended
  <2>4. SoundItem(item)' /\ \A it \in late'[p] : SoundItem(it)'
    <3> HIDE DEF TypeOK, Goto, new
    <3> QED
      BY <2>1, <2>2, <2>3, SoundWrite
  <2>5. pc'[p] \in {"stored", "updated", "rebound", "storeFailed"}
    BY <2>2 DEF KeychainWrite
  <2> QED
    BY <1>0, <1>6, <2>4, <2>5 DEF StoreLogin, StoreUpdate
<1>7. CASE WriteConfig(p)
    BY <1>0, <1>7 DEF WriteConfig
<1>8. CASE Rollback(p)
  <2>1. CASE prior[p] = Unread
    BY <1>0, <1>8, <2>1 DEF Rollback
  <2>2. CASE prior[p] # Unread
    <3>1. prior[p] \in Item /\ KeychainWrite(p, prior[p], "restored", "failed")
      BY <1>8, <2>2 DEF Rollback, Restore
    <3>2. SoundItem(prior[p])
      BY DEF OriginInv
    <3>3. SoundItem(item)' /\ \A it \in late'[p] : SoundItem(it)'
      <4> HIDE DEF TypeOK, Goto
      <4>1. "restored" \in Label /\ "failed" \in Label
        BY DEF Label, Ended
      <4> QED
        BY <3>1, <3>2, <4>1, SoundWrite
    <3>4. pc'[p] \in {"restored", "failed"}
      BY <3>1 DEF KeychainWrite
    <3> QED
      BY <1>0, <1>8, <3>3, <3>4 DEF Rollback
  <2> QED
    BY <2>1, <2>2
<1>9. CASE GuardRebind(p)
    BY <1>0, <1>9 DEF GuardRebind
<1>10. CASE Paste(p)
  <2>1. /\ cookie'[p] \in Cookie' /\ issuer'[cookie'[p]] = server'[p]
        /\ pc'[p] \in {"pasted", "pastedRebind"}
    BY <1>10, Issued DEF Paste
  <2> QED
    BY <1>0, <1>10, <2>1 DEF Paste
<1>11. CASE Resolve(p)
  <2>1. pc'[p] \in {"using", "bind"} =>
           /\ cookie'[p] = item.cookie
           /\ item.kind = IF pc'[p] = "using" THEN "bound" ELSE "legacy"
           /\ pc'[p] = "using" => item.origin = server[p]
    BY <1>11 DEF Resolve, Readable, BoundHere, MayBind, Unread
  <2> QED
    BY <1>0, <1>11, <2>1 DEF Resolve, OriginInv, SoundItem, Cookie
<1>12. CASE BindLegacy(p) \/ Persist(p)
  <2> DEFINE new == BoundItem(cookie[p], server[p])
  <2>1. new \in Item /\ SoundItem(new)
    BY <1>12, Items DEF BindLegacy, Persist, OriginInv, SoundItem, BoundItem
  <2>2. KeychainWrite(p, new, "using", "using")
    BY <1>12 DEF BindLegacy, Persist, Persisted
  <2>4. SoundItem(item)' /\ \A it \in late'[p] : SoundItem(it)'
    <3> HIDE DEF TypeOK, Goto, new
    <3>1. "using" \in Label
      BY DEF Label, Ended
    <3> QED
      BY <2>1, <2>2, <3>1, SoundWrite
  <2>5. pc'[p] = "using"
    BY <2>2 DEF KeychainWrite
  <2>6. /\ cookie'[p] \in Cookie' /\ issuer'[cookie'[p]] \in {server'[p], Unbound}
        /\ prior' = prior
    BY <1>00, <1>12 DEF BindLegacy, Persist, OriginInv
  <2> QED
    BY <1>0, <2>4, <2>5, <2>6
<1>13. CASE Rotate(p)
  <2>1. /\ cookie'[p] # cookie[p] => cookie'[p] \in Cookie' /\ issuer'[cookie'[p]] = server'[p]
        /\ pc'[p] = "persist" => cookie'[p] \in Cookie' /\ issuer'[cookie'[p]] = server'[p]
        /\ pc'[p] \in {"persist", "failed"}
    BY <1>13, Issued DEF Rotate
  <2> QED
    BY <1>0, <1>13, <2>1 DEF Rotate
<1>14. CASE RotateRejected(p)
    BY <1>0, <1>14 DEF RotateRejected
<1>15. CASE Land(p)
    BY <1>0, <1>00, <1>15 DEF Land, OriginInv, SoundItem, Cookie
<1>16. CASE Exit(p)
    BY <1>0, <1>16 DEF Exit, SoundItem, NoItem
<1> QED
    BY <1>3, <1>4, <1>5, <1>6, <1>7, <1>8, <1>9, <1>10, <1>11, <1>12, <1>13, <1>14, <1>15,
       <1>16 DEF ProcessStep

LEMMA OriginStep ==
    ASSUME TypeOK, OriginInv, NEW p \in Process, ProcessStep(p)
    PROVE  OriginInv'
<1>1. MovedOrigin(p)
    BY MovedOriginStep
<1>2. Cookie \subseteq Cookie' /\ \A c \in Cookie : issuer'[c] = issuer[c]
    BY CookiesStay
<1>3. ASSUME NEW q \in Process, q # p
      PROVE  /\ SoundItem(prior[q])' /\ \A it \in late'[q] : SoundItem(it)'
             /\ HoldsFresh(q)' => cookie'[q] \in Cookie' /\ issuer'[cookie'[q]] = server'[q]
             /\ pc'[q] = "bind" => cookie'[q] \in Cookie' /\ issuer'[cookie'[q]] = Unbound
             /\ pc'[q] = "using" =>
                   cookie'[q] \in Cookie' /\ issuer'[cookie'[q]] \in {server'[q], Unbound}
  <2>1. /\ pc'[q] = pc[q] /\ server'[q] = server[q] /\ cookie'[q] = cookie[q]
        /\ prior'[q] = prior[q] /\ late'[q] = late[q]
    BY <1>3, OneProcessMoves
  <2>2. \A it : SoundItem(it) => SoundItem(it)'
    BY SoundStays
  <2>3. SoundItem(prior[q])'
    BY <2>1, <1>2 DEF OriginInv, SoundItem
  <2> QED
    BY <1>2, <2>1, <2>2, <2>3 DEF OriginInv, HoldsFresh
<1> QED
    BY <1>1, <1>3 DEF OriginInv, MovedOrigin

-----------------------------------------------------------------------------
(* Fresh cookies                                                           *)

\* Where the cookies come from that a step writes or keeps: from the item, from
\* what the process holds, or from Grafana.
LEMMA CookieSources ==
    ASSUME TypeOK, NEW p \in Process, ProcessStep(p)
    PROVE  /\ \/ item'.cookie \in {item.cookie, cookie[p], prior[p].cookie}
              \/ \E it \in late[p] : item'.cookie = it.cookie
           /\ cookie'[p] \in {0, cookie[p], item.cookie} \/ cookie'[p] \in Cookie' \ Cookie
           /\ prior'[p].cookie \in {0, prior[p].cookie, item.cookie}
           /\ \A it \in late'[p] :
                 it \in late[p] \/ it.cookie \in {cookie[p], prior[p].cookie}
           /\ live \ {cookie[p]} \subseteq live'
<1> USE DEF TypeOK, Goto, processVars
<1>1. CASE \E s \in Server : Login(p, s)
    BY <1>1, Issued DEF Login, Begin
<1>2. CASE \E s \in Server : Update(p, s) \/ Use(p, s)
    BY <1>2 DEF Update, Use, BeginConfigured
<1>3. CASE ReadPrior(p)
    BY <1>3 DEF ReadPrior, Readable, Unread
<1>4. CASE StoreLogin(p) \/ StoreUpdate(p)
    BY <1>4 DEF StoreLogin, StoreUpdate, KeychainWrite, BoundItem
<1>5. CASE Rollback(p)
    BY <1>5 DEF Rollback, KeychainWrite, Restore
<1>6. CASE Paste(p)
    BY <1>6, Issued DEF Paste
<1>7. CASE Resolve(p)
    BY <1>7 DEF Resolve, Readable, Unread
<1>8. CASE BindLegacy(p) \/ Persist(p)
    BY <1>8 DEF BindLegacy, Persist, Persisted, KeychainWrite, BoundItem
<1>9. CASE Rotate(p)
    BY <1>9, Issued DEF Rotate
<1>10. CASE WriteConfig(p) \/ GuardRebind(p) \/ RotateRejected(p)
    BY <1>10 DEF WriteConfig, GuardRebind, RotateRejected
<1>11. CASE Land(p)
    BY <1>11 DEF Land
<1>12. CASE Exit(p)
    BY <1>12 DEF Exit, NoItem
<1> QED
    BY <1>1, <1>2, <1>3, <1>4, <1>5, <1>6, <1>7, <1>8, <1>9, <1>10, <1>11, <1>12
       DEF ProcessStep

\* What FreshInv says of one process.
Fresh(p) ==
    /\ cookie[p] \in live
    /\ item.cookie # cookie[p]
    /\ \A q \in Process :
          /\ q # p => cookie[q] # cookie[p]
          /\ prior[q].cookie # cookie[p]
          /\ \A it \in late[q] : it.cookie # cookie[p]

\* A cookie that Grafana issues in this step is fresh.
LEMMA IssuedIsFresh ==
    ASSUME TypeOK, NEW p \in Process, ProcessStep(p),
           cookie'[p] \in live' \ Cookie, UNCHANGED <<item, prior, late>>,
           cookie'[p] # 0
    PROVE  Fresh(p)'
<1>1. \A q \in Process : q # p => cookie'[q] \in {0} \cup Cookie
    BY OneProcessMoves DEF TypeOK
<1>2. \A it \in Item \cup {Unread} : it.cookie \in {0} \cup Cookie
    BY Items
<1>3. /\ item \in Item /\ \A q \in Process : prior[q] \in Item \cup {Unread}
      /\ \A q \in Process : late[q] \subseteq Item
    BY DEF TypeOK
<1> QED
    BY <1>1, <1>2, <1>3 DEF Fresh

LEMMA MovedFreshStep ==
    ASSUME TypeOK, OriginInv, FreshInv, NEW p \in Process, ProcessStep(p), HoldsFresh(p)'
    PROVE  Fresh(p)'
<1> USE DEF Goto, processVars, HoldsFresh
<1>1. CASE \E s \in Server : Login(p, s)
  <2>1. /\ cookie'[p] \in live' \ Cookie /\ UNCHANGED <<item, prior, late>> /\ cookie'[p] # 0
    BY <1>1, Issued DEF Login, TypeOK
  <2> QED
    BY <2>1, IssuedIsFresh
<1>2. CASE Paste(p) \/ Rotate(p)
  <2>1. /\ cookie'[p] \in live' \ Cookie /\ UNCHANGED <<item, prior, late>> /\ cookie'[p] # 0
    BY <1>2, Issued DEF Paste, Rotate, TypeOK
  <2> QED
    BY <2>1, IssuedIsFresh
<1>3. CASE ReadPrior(p)
  <2>1. /\ HoldsFresh(p) /\ UNCHANGED <<item, live, cookie, late>> /\ 0 # cookie[p]
        /\ \E it \in {item, Unread} : prior' = [prior EXCEPT ![p] = it]
    BY <1>3, CookiesStay DEF ReadPrior, Readable, OriginInv
  <2> QED
    BY <2>1 DEF FreshInv, Fresh, Unread, TypeOK
<1>4. CASE Land(p)
    BY <1>4 DEF Land, FreshInv, Fresh, TypeOK
<1>5. CASE \E s \in Server : Update(p, s) \/ Use(p, s)
    BY <1>5 DEF Update, Use, BeginConfigured, Begin, TypeOK
<1>6. CASE StoreLogin(p) \/ StoreUpdate(p)
    BY <1>6 DEF StoreLogin, StoreUpdate, KeychainWrite, TypeOK
<1>7. CASE Rollback(p)
    BY <1>7 DEF Rollback, KeychainWrite, TypeOK
<1>8. CASE BindLegacy(p) \/ Persist(p)
    BY <1>8 DEF BindLegacy, Persist, KeychainWrite, TypeOK
<1>9. CASE WriteConfig(p) \/ GuardRebind(p) \/ RotateRejected(p) \/ Resolve(p) \/ Exit(p)
    BY <1>9 DEF WriteConfig, GuardRebind, RotateRejected, Resolve, Exit, TypeOK
<1> QED
    BY <1>1, <1>2, <1>3, <1>4, <1>5, <1>6, <1>7, <1>8, <1>9 DEF ProcessStep

LEMMA FreshStep ==
    ASSUME TypeOK, OriginInv, FreshInv, NEW p \in Process, ProcessStep(p)
    PROVE  FreshInv'
<1> SUFFICES ASSUME NEW q \in Process, HoldsFresh(q)' PROVE Fresh(q)'
    BY DEF FreshInv, Fresh
<1>1. CASE q = p
    BY <1>1, MovedFreshStep
<1>2. CASE q # p
  <2>1. HoldsFresh(q) /\ cookie'[q] = cookie[q]
    BY <1>2, OneProcessMoves DEF HoldsFresh
  <2>2. Fresh(q) /\ cookie[q] \in Cookie /\ cookie[q] # 0
    BY <2>1, CookiesStay DEF FreshInv, Fresh, OriginInv
  <2>3. /\ item'.cookie # cookie[q] /\ cookie'[p] # cookie[q] /\ prior'[p].cookie # cookie[q]
        /\ \A it \in late'[p] : it.cookie # cookie[q]
        /\ cookie[q] \in live'
    BY <1>2, <2>2, CookieSources DEF Fresh
  <2>4. \A r \in Process \ {p} :
           cookie'[r] = cookie[r] /\ prior'[r] = prior[r] /\ late'[r] = late[r]
    BY OneProcessMoves
  <2> QED
    BY <2>1, <2>2, <2>3, <2>4 DEF Fresh
<1> QED
    BY <1>1, <1>2

-----------------------------------------------------------------------------
(* What a command that nobody disturbs can rely on                         *)

\* All that is said of one undisturbed process.
Quiet(p) ==
    /\ pc[p] = "loggedIn" => item = BoundItem(cookie[p], server[p])
    /\ pc[p] = "loggedIn" /\ own[p] => config = server[p]
    /\ pc[p] \in {"restored", "storeFailed"} => item = replaced[p]
    /\ pc[p] = "updated" =>
          /\ replaced[p].kind \in {"none", "bound", "legacy"}
          /\ replaced[p].kind = "bound" => replaced[p].origin = server[p]
          /\ replaced[p].kind = "legacy" => own[p]
    /\ pc[p] = "stored" => item = BoundItem(cookie[p], server[p])
    /\ pc[p] = "read" => prior[p] \in {item, Unread}
    /\ pc[p] \in {"stored", "rollback"} => prior[p] \in {replaced[p], Unread}
    /\ pc[p] \in {"prompt", "pasted"} => ~NeedsRebind(p, item)
    /\ pc[p] = "bind" => item = LegacyItem(cookie[p])

QuietInv == \A p \in Process \ disturbed : Quiet(p)

LEMMA QuietMeans ==
    QuietInv <=> LoginIsUsable /\ FailureLeavesItem /\ NoSilentRebind /\ UndisturbedInv
    BY DEF QuietInv, Quiet, LoginIsUsable, FailureLeavesItem, NoSilentRebind, UndisturbedInv

\* A command is undisturbed if it was, and nobody else has written in this step.
LEMMA StaysUndisturbed ==
    ASSUME NEW p \in Process, History(p), NEW q \in Process \ disturbed', pc'[q] # "idle"
    PROVE  /\ pc[q] = "idle" \/ q \notin disturbed
           /\ q # p => UNCHANGED <<item, config>>
           /\ pc' = pc => item' = item
    BY DEF History, Late

LEMMA MovedQuietStep ==
    ASSUME TypeOK, OriginInv, NEW p \in Process, ProcessStep(p), History(p),
           p \notin disturbed', pc'[p] # "idle", pc[p] = "idle" \/ Quiet(p)
    PROVE  Quiet(p)'
<1> USE DEF Goto, processVars, TypeOK, Quiet
<1>1. CASE \E s \in Server : Login(p, s) \/ Update(p, s) \/ Use(p, s)
    BY <1>1 DEF Login, Update, Use, BeginConfigured, Begin
<1>2. CASE ReadPrior(p)
    BY <1>2 DEF ReadPrior, Readable
<1>3. CASE StoreLogin(p)
    BY <1>3 DEF StoreLogin, KeychainWrite, BindTo
<1>4. CASE WriteConfig(p)
    BY <1>4 DEF WriteConfig
<1>5. CASE Rollback(p)
    BY <1>5 DEF Rollback, KeychainWrite, Restore
<1>6. CASE GuardRebind(p)
  <2>1. pc'[p] = "prompt" => ~NeedsRebind(p, item)
    BY <1>6 DEF GuardRebind, Readable, NeedsRebind, Unread
  <2> QED
    BY <1>6, <2>1 DEF GuardRebind, NeedsRebind
<1>7. CASE Paste(p)
    BY <1>7 DEF Paste, NeedsRebind
<1>8. CASE StoreUpdate(p)
    BY <1>8 DEF StoreUpdate, KeychainWrite, NeedsRebind, Item
<1>9. CASE Resolve(p)
  <2>1. pc'[p] = "bind" => item = LegacyItem(item.cookie) /\ cookie'[p] = item.cookie
    BY <1>9 DEF Resolve, Readable, MayBind, Unread, OriginInv, SoundItem
  <2> QED
    BY <1>9, <2>1 DEF Resolve
<1>10. CASE BindLegacy(p) \/ Persist(p)
    BY <1>10 DEF BindLegacy, Persist, KeychainWrite
<1>11. CASE Rotate(p) \/ RotateRejected(p)
    BY <1>11 DEF Rotate, RotateRejected
<1>12. CASE Land(p)
  <2>1. UNCHANGED <<item, config, pc, server, own, cookie, prior, replaced>>
    BY <1>12, StaysUndisturbed DEF Land
  <2> QED
    BY <1>12, <2>1 DEF Land, NeedsRebind
<1>13. CASE Exit(p)
    BY <1>13 DEF Exit
<1> QED
    BY <1>1, <1>2, <1>3, <1>4, <1>5, <1>6, <1>7, <1>8, <1>9, <1>10, <1>11, <1>12, <1>13
       DEF ProcessStep

LEMMA QuietStep ==
    ASSUME TypeOK, OriginInv, QuietInv, NEW p \in Process, ProcessStep(p), History(p)
    PROVE  QuietInv'
<1> SUFFICES ASSUME NEW q \in Process \ disturbed' PROVE Quiet(q)'
    BY DEF QuietInv
<1>1. CASE pc'[q] = "idle"
    BY <1>1 DEF Quiet
<1>2. CASE pc'[q] # "idle" /\ q = p
    BY <1>2, StaysUndisturbed, MovedQuietStep DEF QuietInv
<1>3. CASE pc'[q] # "idle" /\ q # p
  <2>1. UNCHANGED <<item, config>> /\ pc'[q] = pc[q] /\ Quiet(q)
    BY <1>3, StaysUndisturbed, OneProcessMoves DEF QuietInv
  <2>2. /\ server'[q] = server[q] /\ own'[q] = own[q] /\ cookie'[q] = cookie[q]
        /\ prior'[q] = prior[q] /\ replaced'[q] = replaced[q]
    BY <1>3, OneProcessMoves
  <2> QED
    BY <2>1, <2>2 DEF Quiet, NeedsRebind
<1> QED
    BY <1>1, <1>2, <1>3

-----------------------------------------------------------------------------
(* The stored cookie is one that Grafana accepts                           *)

\* Only a rotation makes Grafana reject a cookie, and only its successor's way
\* to the Keychain ends a persist.
LEMMA LiveStays ==
    ASSUME live \subseteq live', \A r \in Process : pc[r] = "persist" => pc'[r] = "persist",
           NEW it, Live(it)
    PROVE  Live(it)'
    BY DEF Live

\* A step that is neither: it keeps what was live so.
LEMMA OtherSteps ==
    ASSUME TypeOK, NEW p \in Process, ProcessStep(p), pc[p] # "persist", ~Rotate(p)
    PROVE  /\ live \subseteq live'
           /\ \A r \in Process : pc[r] = "persist" => pc'[r] = "persist"
<1>1. \A r \in Process : pc[r] = "persist" => pc'[r] = "persist"
    BY OneProcessMoves
<1>2. CASE \E s \in Server : Login(p, s)
    BY <1>1, <1>2, Issued DEF Login
<1>3. CASE Paste(p)
    BY <1>1, <1>3, Issued DEF Paste, TypeOK
<1> QED
    BY <1>1, <1>2, <1>3 DEF ProcessStep, Update, Use, BeginConfigured, ReadPrior, StoreLogin,
       WriteConfig, Rollback, GuardRebind, StoreUpdate, Resolve, BindLegacy, RotateRejected,
       Persist, Land, Exit, processVars

\* What a process writes or has read that did not lose a rotation is live.
LEMMA MovedLiveStep ==
    ASSUME TypeOK, OriginInv, FreshInv, QuietInv, LiveInv, ~lossy,
           NEW p \in Process, ProcessStep(p), History(p), ~lossy',
           pc[p] # "persist", ~Rotate(p)
    PROVE  /\ Live(item)'
           /\ p \notin disturbed' /\ pc'[p] \in {"read", "stored", "rollback"} => Live(prior[p])'
<1>1. \A it : Live(it) => Live(it)'
    BY OtherSteps, LiveStays
<1>2. live \subseteq live'
    BY OtherSteps
<1>3. Live(item)
    BY DEF LiveInv
<1>4. item' = item => Live(item)'
    BY <1>1, <1>3 DEF Live
<1>5. pc[p] \in {"rollback", "bind"} => p \notin disturbed
    BY DEF History
<1>6. pc[p] \in {"read", "stored", "rollback"} /\ p \notin disturbed => Live(prior[p])
    BY DEF LiveInv
<1>7. p \notin disturbed' /\ pc'[p] # "idle" => pc[p] = "idle" \/ p \notin disturbed
    BY StaysUndisturbed
<1>8. pc' = pc => item' = item
    BY DEF History, Late
<1> USE DEF TypeOK, Goto, processVars
<1>10. CASE \E s \in Server : Login(p, s) \/ Update(p, s) \/ Use(p, s)
    BY <1>4, <1>10 DEF Login, Update, Use, BeginConfigured, Begin
<1>11. CASE ReadPrior(p)
  <2>1. prior'[p] = item \/ prior'[p] = Unread
    BY <1>11 DEF ReadPrior, Readable
  <2>2. Live(prior[p])'
    BY <1>1, <1>3, <2>1 DEF Live, Unread
  <2> QED
    BY <1>4, <1>11, <2>2 DEF ReadPrior
<1>12. CASE StoreLogin(p) \/ StoreUpdate(p)
  <2>1. cookie[p] \in live
    BY <1>12 DEF StoreLogin, StoreUpdate, FreshInv, HoldsFresh
  <2>2. item' = item \/ item'.cookie = cookie[p]
    BY <1>12 DEF StoreLogin, StoreUpdate, KeychainWrite, BoundItem
  <2>3. Live(item)'
    BY <1>2, <1>4, <2>1, <2>2 DEF Live
  <2>4. pc'[p] \in {"read", "stored", "rollback"} => pc[p] = "read" /\ prior' = prior
    BY <1>12 DEF StoreLogin, StoreUpdate, KeychainWrite
  <2> QED
    BY <1>1, <1>6, <1>7, <2>3, <2>4 DEF Live
<1>13. CASE WriteConfig(p)
  <2>1. item' = item /\ prior' = prior /\ pc[p] = "stored"
    BY <1>13 DEF WriteConfig
  <2> QED
    BY <1>1, <1>4, <1>6, <1>7, <2>1 DEF Live
<1>14. CASE Rollback(p)
  <2>1. item' \in {item, prior[p]} /\ pc[p] = "rollback"
    BY <1>14 DEF Rollback, KeychainWrite, Restore
  <2>2. Live(prior[p])
    BY <1>5, <1>6, <2>1
  <2>3. Live(item)'
    BY <1>1, <1>4, <2>1, <2>2 DEF Live
  <2>4. pc'[p] \notin {"read", "stored", "rollback"}
    BY <1>14 DEF Rollback, KeychainWrite
  <2> QED
    BY <2>3, <2>4
<1>15. CASE BindLegacy(p)
  <2>1. item = LegacyItem(cookie[p])
    BY <1>5, <1>15 DEF BindLegacy, QuietInv, Quiet
  <2>2. item' = item \/ item' = BoundItem(cookie[p], server[p])
    BY <1>15 DEF BindLegacy, KeychainWrite
  <2>3. Live(item)'
    BY <1>1, <1>3, <1>4, <2>1, <2>2 DEF Live, LegacyItem, BoundItem
  <2>4. pc'[p] = "using"
    BY <1>15 DEF BindLegacy, KeychainWrite
  <2> QED
    BY <2>3, <2>4
<1>16. CASE GuardRebind(p) \/ Paste(p) \/ Resolve(p) \/ RotateRejected(p) \/ Exit(p)
    BY <1>4, <1>16 DEF GuardRebind, Paste, Resolve, RotateRejected, Exit
<1>17. CASE Land(p)
  <2>1. UNCHANGED <<item, pc, prior>>
    BY <1>8, <1>17 DEF Land
  <2>2. pc[p] \in {"read", "stored", "rollback"} /\ p \notin disturbed' => p \notin disturbed
    BY <1>7, <2>1
  <2> QED
    BY <1>1, <1>4, <1>6, <2>1, <2>2 DEF Live
<1> QED
    BY <1>10, <1>11, <1>12, <1>13, <1>14, <1>15, <1>16, <1>17 DEF ProcessStep, Persist

LEMMA LiveStep ==
    ASSUME TypeOK, OriginInv, FreshInv, QuietInv, LiveInv, NEW p \in Process, ProcessStep(p),
           History(p)
    PROVE  LiveInv'
<1> SUFFICES ASSUME ~lossy' PROVE LiveInv'
    BY DEF LiveInv
<1>1. ~lossy /\ ~Late
    BY DEF History
<1>2. \A q \in Process \ disturbed' : q # p /\ pc'[q] \in {"read", "stored", "rollback"} =>
         /\ UNCHANGED item /\ prior'[q] = prior[q] /\ Live(prior[q])
  <2> SUFFICES ASSUME NEW q \in Process \ disturbed', q # p,
                      pc'[q] \in {"read", "stored", "rollback"}
               PROVE  /\ UNCHANGED item /\ prior'[q] = prior[q] /\ Live(prior[q])
    OBVIOUS
  <2>1. pc'[q] = pc[q] /\ prior'[q] = prior[q]
    BY OneProcessMoves
  <2>2. UNCHANGED item /\ q \notin disturbed
    BY <2>1, StaysUndisturbed
  <2> QED
    BY <1>1, <2>1, <2>2 DEF LiveInv
<1>3. CASE Rotate(p)
  <2>1. live' # live
    BY <1>3, Issued DEF Rotate, TypeOK
  <2>2. pc'[p] = "persist"
    BY <1>3, <2>1 DEF Rotate, History, Goto, TypeOK
  <2> QED
    BY <2>2 DEF LiveInv, Live
<1>4. CASE pc[p] = "persist"
  <2>0. cookie[p] \in live /\ item.cookie # cookie[p]
    BY <1>4 DEF FreshInv, HoldsFresh
  <2>1. item' = Persisted(p)
    BY <1>4 DEF History
  <2>2. item' # item
    BY <2>0, <2>1 DEF Persisted, BoundItem
  <2>3. pc' # pc /\ Persist(p)
    BY <1>1, <1>4, <2>2 DEF Late, ProcessStep, Login, Update, Use, BeginConfigured, Begin,
       ReadPrior, StoreLogin, WriteConfig, Rollback, GuardRebind, Paste, StoreUpdate, Resolve,
       BindLegacy, Rotate, RotateRejected, Land, Exit, processVars
  <2>4. cookie[p] \in live' /\ pc'[p] = "using"
    BY <2>0, <2>3 DEF Persist, KeychainWrite, Goto, TypeOK
  <2>5. Live(item)'
    BY <2>1, <2>4 DEF Live, Persisted, BoundItem
  <2> QED
    BY <1>2, <2>2, <2>4, <2>5 DEF LiveInv
<1>5. CASE pc[p] # "persist" /\ ~Rotate(p)
  <2>1. /\ Live(item)'
        /\ p \notin disturbed' /\ pc'[p] \in {"read", "stored", "rollback"} => Live(prior[p])'
    BY <1>1, <1>5, MovedLiveStep
  <2>2. \A it : Live(it) => Live(it)'
    BY <1>5, OtherSteps, LiveStays
  <2>3. ASSUME NEW q \in Process \ disturbed', q # p, pc'[q] \in {"read", "stored", "rollback"}
        PROVE  Live(prior[q])'
    BY <1>2, <2>2, <2>3 DEF Live
  <2> QED
    BY <2>1, <2>3 DEF LiveInv
<1> QED
    BY <1>3, <1>4, <1>5

-----------------------------------------------------------------------------
(* The theorems                                                            *)

\* The inductive invariant: Inv with the two properties that rest on it.
IInv == Inv /\ FailureLeavesItem /\ NoSilentRebind

LEMMA IInvMeans == IInv <=> TypeOK /\ OriginInv /\ FreshInv /\ QuietInv /\ LiveInv
    BY QuietMeans DEF IInv, Inv

LEMMA InitInv == Init => IInv
<1> SUFFICES ASSUME Init PROVE TypeOK /\ OriginInv /\ FreshInv /\ QuietInv /\ LiveInv
    BY IInvMeans
<1>0. item.kind = "bound" => config \in Server
  <2>1. item = NoItem \/ item = Malformed \/ item = LegacyItem(1) \/ config \in Server
    BY DEF Init
  <2> QED
    BY <2>1 DEF NoItem, Malformed, LegacyItem
<1>1. /\ issuer \in Seq(Origin) /\ Len(issuer) = 1
      /\ issuer[1] = IF item.kind = "bound" THEN config ELSE Unbound
  <2>1. CASE item.kind = "bound"
    BY <1>0, <2>1 DEF Init, Origin
  <2>2. CASE item.kind # "bound"
    BY <2>2 DEF Init, Origin
  <2> QED
    BY <2>1, <2>2
<1>2. Cookie = {1}
    BY <1>1 DEF Cookie
<1>3. \/ item = NoItem \/ item = Malformed \/ item = LegacyItem(1)
      \/ config \in Server /\ item = BoundItem(1, config)
    BY DEF Init
<1>4. item \in Item /\ SoundItem(item) /\ Live(item)
    BY <1>1, <1>2, <1>3 DEF Init, Item, Origin, SoundItem, Live, NoItem, Malformed, LegacyItem,
       BoundItem
<1>5. NoItem \in Item /\ SoundItem(NoItem)
    BY <1>2 DEF Item, Origin, NoItem, SoundItem
<1>6. TypeOK
    BY <1>1, <1>2, <1>4, <1>5 DEF TypeOK, Init, Label
<1>7. OriginInv /\ FreshInv /\ QuietInv
    BY <1>4, <1>5 DEF Init, OriginInv, FreshInv, QuietInv, Quiet, HoldsFresh
<1>8. LiveInv
    BY <1>4 DEF Init, LiveInv
<1> QED
    BY <1>6, <1>7, <1>8

LEMMA StepInv == IInv /\ [Next]_vars => IInv'
<1> SUFFICES ASSUME TypeOK, OriginInv, FreshInv, QuietInv, LiveInv, [Next]_vars
             PROVE  TypeOK' /\ OriginInv' /\ FreshInv' /\ QuietInv' /\ LiveInv'
  <2>1. IInv' <=> TypeOK' /\ OriginInv' /\ FreshInv' /\ QuietInv' /\ LiveInv'
    BY IInvMeans, PTL
  <2> QED
    BY <2>1, IInvMeans
<1>1. CASE \E p \in Process : ProcessStep(p) /\ History(p)
    BY <1>1, TypeStep, OriginStep, FreshStep, QuietStep, LiveStep
<1>2. CASE UNCHANGED vars
  <2>1. TypeOK' /\ QuietInv'
    BY <1>2 DEF vars, TypeOK, Item, Cookie, QuietInv, Quiet, NeedsRebind
  <2>2. OriginInv' /\ FreshInv'
    BY <1>2 DEF vars, OriginInv, FreshInv, HoldsFresh, SoundItem, Cookie
  <2>3. LiveInv'
    BY <1>2 DEF vars, LiveInv, Live
  <2> QED
    BY <2>1, <2>2, <2>3
<1> QED
    BY <1>1, <1>2, Steps

LEMMA Invariance == Spec => []IInv
    BY InitInv, StepInv, PTL DEF Spec

\* The stored credentials of a context stay sound: every item and every cookie
\* in a process's hands names the server that issued it, a cookie just issued is
\* in nobody else's hands, what an undisturbed command read still stands, and a
\* login that reports success leaves a context that works.
THEOREM CredentialsAreSound == Spec => []Inv
    BY Invariance, PTL DEF IInv

\* No command ever sends a cookie to another server than the one that issued it
\* (ResolveContextSessionCookie), for any number of processes and logins that
\* replace the item meanwhile, and whatever fails or crashes.
THEOREM CookiesGoHome == Spec => []CookieOnlyToItsServer
<1>1. IInv => CookieOnlyToItsServer
    BY DEF IInv, Inv, OriginInv, HoldsFresh, CookieOnlyToItsServer
<1> QED
    BY <1>1, Invariance, PTL

\* As long as no rotated cookie is lost on its way, the Keychain holds one that
\* Grafana accepts or a process is about to store its successor.
THEOREM SessionSurvives == Spec => []KeychainKeepsLiveSession
<1>1. IInv => KeychainKeepsLiveSession
    BY DEF IInv, Inv, LiveInv, Live, KeychainKeepsLiveSession
<1> QED
    BY <1>1, Invariance, PTL

\* A login that failed and that nobody disturbed has put back the very item that
\* it found, if it could read it.
THEOREM FailedLoginRestores == Spec => []FailureLeavesItem
    BY Invariance, PTL DEF IInv

\* A login update without --rebind never replaces another server's credential
\* that was already there when it asked for the cookie.
THEOREM UpdateAsksFirst == Spec => []NoSilentRebind
    BY Invariance, PTL DEF IInv

=============================================================================
