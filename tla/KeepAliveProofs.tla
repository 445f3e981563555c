-------------------------- MODULE KeepAliveProofs --------------------------
(* The safety properties of KeepAlive, for any contexts, windows, intervals *)
(* and faults.                                                              *)
EXTENDS KeepAlive, TLAPS, WellFoundedInduction, SequenceTheorems

-----------------------------------------------------------------------------
(* Numbers                                                                  *)

LEMMA MinOfTwo ==
    ASSUME NEW a \in Int, NEW b \in Int
    PROVE  Min({a, b}) = IF a <= b THEN a ELSE b
<1>1. \E x \in {a, b} : \A y \in {a, b} : x <= y
    OBVIOUS
<1>2. Min({a, b}) \in {a, b} /\ \A y \in {a, b} : Min({a, b}) <= y
    BY <1>1 DEF Min
<1> QED
    BY <1>2

LEMMA MinOfSome ==
    ASSUME NEW S \in SUBSET Nat, S # {}
    PROVE  Min(S) \in S
<1>1. \E x \in S : \A y \in S : x <= y
  <2> DEFINE R == OpToRel(<, Nat)
  <2>1. PICK x \in S : \A y \in S : <<y, x>> \notin R
    <3> HIDE DEF R
    <3>1. IsWellFoundedOn(R, Nat)
      BY NatLessThanWellFounded DEF R
    <3> QED
      BY <3>1, WFMin
  <2>2. \A y \in S : ~(y < x)
    BY <2>1 DEF OpToRel
  <2>3. \A y \in S : y \in Nat
    OBVIOUS
  <2>4. \A y \in S : x <= y
    <3> HIDE DEF R
    <3> QED
      BY <2>2, <2>3
  <2> QED
    BY <2>4
<1> QED
    BY <1>1 DEF Min

(* The interval that is derived is one that an agent may have.              *)
LEMMA Derived ==
    ASSUME TypeOK, OptedIn # {}
    PROVE  DeriveInterval(Min({window[c] : c \in OptedIn})) \in DerivedMin..DerivedMax
<1> DEFINE S == {window[c] : c \in OptedIn}
<1>1. S \in SUBSET Nat /\ S # {}
    BY BoundsAssumption DEF OptedIn, ParsedLiveWindow
<1>2. Min(S) \in Nat
    BY <1>1, MinOfSome
<1>3. Min(S) \div 2 \in Int
    BY <1>2
<1> HIDE DEF S
<1>4. DerivedMin \in Nat /\ DerivedMax \in Nat /\ DerivedMin <= DerivedMax
    BY BoundsAssumption
<1>5. \A n \in Int : Clamp(n) \in DerivedMin..DerivedMax
    BY <1>4 DEF Clamp
<1>6. DeriveInterval(Min(S)) \in DerivedMin..DerivedMax
    BY <1>3, <1>5 DEF DeriveInterval
<1> QED
    BY <1>6 DEF S

(* Every interval an agent may have is within bounds.                       *)
LEMMA IntervalsInBounds == Intervals \subseteq MinWindow..MaxWindow
    BY BoundsAssumption DEF Intervals

LEMMA NotAgents == None \notin Agents /\ Cut \notin Agents /\ None # Cut
<1>1. \A a \in Agents : a.every > 0
    BY BoundsAssumption DEF Agents
<1>2. None.every = 0 /\ Cut.every = -1
    BY DEF None, Cut
<1> QED
    BY <1>1, <1>2

-----------------------------------------------------------------------------
(* Types                                                                    *)

Refreshes == [by : {"user", "agent", "elsewhere"}, selected : SUBSET Contexts,
              todo : SUBSET Contexts, seen : Seq(Outcomes),
              exit : {"0", "1", "2", "running", "killed"}]

(* What a bootout does to the agent, the watched sessions and the refresh.  *)
LEMMA BootsOut ==
    ASSUME TypeOK, NEW answer, Bootout(answer)
    PROVE  /\ \/ loaded' = loaded /\ asleep' = asleep /\ watched' = watched /\ refresh' = refresh
              \/ /\ loaded' = None /\ asleep' = 0 /\ watched' = [c \in Contexts |-> FALSE]
                 /\ refresh' \in {refresh, [NoRefresh EXCEPT !.exit = "killed"]}
           /\ answer \in {"ok", "ErrNotLoaded"} => loaded' = None
           /\ faults' \in Nat
    BY BoundsAssumption DEF TypeOK, Bootout, Fault, NoFault

LEMMA NoRefreshTypes ==
    /\ NoRefresh \in Refreshes /\ [NoRefresh EXCEPT !.exit = "killed"] \in Refreshes
    /\ NotBegun \in Refreshes
<1>1. <<>> \in Seq(Outcomes)
    BY EmptySeq
<1> QED
    BY <1>1 DEF NoRefresh, NotBegun, Refreshes

(* The outcomes noted so far are distinct, so that there are at most three. *)
LEMMA Noted ==
    ASSUME NEW seen \in Seq(Outcomes),
           \A i, j \in DOMAIN seen : seen[i] = seen[j] => i = j
    PROVE  seen \in UNION {[1..n -> Outcomes] : n \in 0..3}
<1>1. Len(seen) \in Nat /\ DOMAIN seen = 1..Len(seen) /\ seen \in [1..Len(seen) -> Outcomes]
    BY LenProperties, ElementOfSeq
<1>2. Len(seen) <= 3
  <2> SUFFICES ASSUME Len(seen) >= 4 PROVE FALSE
    BY <1>1
  <2>1. 1 \in 1..Len(seen) /\ 2 \in 1..Len(seen) /\ 3 \in 1..Len(seen) /\ 4 \in 1..Len(seen)
    BY <1>1
  <2>2. {seen[1], seen[2], seen[3], seen[4]} \subseteq {"rejected", "errored", "unbound"}
    BY <1>1, <2>1 DEF Outcomes
  <2> QED
    BY <1>1, <2>1, <2>2
<1>3. Len(seen) \in 0..3
    BY <1>1, <1>2
<1> QED
    BY <1>1, <1>3

(* A refresh that ends without a failure exits 0, any other one 1 or 2.     *)
LEMMA ExitsAre ==
    ASSUME NEW seen \in UNION {[1..n -> Outcomes] : n \in 0..3}
    PROVE  /\ seen = <<>> => Exits[seen] = {"0"}
           /\ seen # <<>> => Exits[seen] \subseteq {"1", "2"}
<1>1. \A e : E!ExitStatus(e) \in {"1", "2"}
    BY DEF E!ExitStatus
<1> DEFINE Joined(other) == E!ExitStatus(E!Join([i \in DOMAIN seen |-> ErrorOf(seen[i], other)]))
           Rest == {Joined(other) : other \in Errored}
<1>2. Rest \subseteq {"1", "2"}
    BY <1>1
<1>3. Exits[seen] = CASE seen = <<>> -> {"0"}
      [] \E i \in DOMAIN seen : seen[i] = "rejected" -> {E!ExitStatus(<<"APIError 401">>)}
      [] OTHER -> Rest
    BY DEF Exits
<1>4. seen = <<>> => DOMAIN seen = {}
    OBVIOUS
<1> HIDE DEF Rest
<1>5. CASE seen = <<>>
    BY <1>3, <1>4, <1>5
<1>6. CASE seen # <<>> /\ \E i \in DOMAIN seen : seen[i] = "rejected"
  <2>1. Exits[seen] = {E!ExitStatus(<<"APIError 401">>)}
    BY <1>3, <1>6
  <2> QED
    BY <1>1, <1>6, <2>1
<1>7. CASE seen # <<>> /\ ~\E i \in DOMAIN seen : seen[i] = "rejected"
    BY <1>2, <1>3, <1>7
<1> QED
    BY <1>5, <1>6, <1>7

-----------------------------------------------------------------------------
(* Exit statuses                                                            *)

(* Of an error with one type in its chain.                                  *)
LEMMA FirstOfOne ==
    ASSUME NEW e, NEW i, E!Finds(i, <<e>>) # {}
    PROVE  E!First(i, <<e>>) = e /\ e \in E!Converters[i]
<1>1. E!Finds(i, <<e>>) = {1} /\ e \in E!Converters[i]
    BY DEF E!Finds
<1>2. E!Min({1}) = 1
    BY DEF E!Min
<1> QED BY <1>1, <1>2 DEF E!First

LEMMA StatusOfOne ==
    /\ \A e : e \notin E!SessionErrors => E!ExitStatus(<<e>>) = "1"
    /\ E!ExitStatus(<<>>) = "1"
    /\ E!ExitStatus(<<"APIError 401">>) = "2"
<1>1. DOMAIN E!Converters = 1..10
    BY DEF E!Converters
<1>2. ASSUME NEW e, e \notin E!SessionErrors PROVE E!ExitStatus(<<e>>) = "1"
  <2>1. \A i \in E!Converting(<<e>>) : E!First(i, <<e>>) = e
      BY FirstOfOne DEF E!Converting
  <2> QED BY <1>2, <2>1 DEF E!ExitStatus
<1>3. E!ExitStatus(<<>>) = "1"
  <2>1. \A i : E!Finds(i, <<>>) = {}
      BY DEF E!Finds
  <2> QED BY <2>1 DEF E!ExitStatus, E!Converting
<1>4. ASSUME NEW e, e = "APIError 401" PROVE E!ExitStatus(<<e>>) = "2"
  <2>1. e \in E!Converters[8] /\ e # "APIError" /\ e # "DetailedError" /\ e \in E!SessionErrors
      BY <1>4 DEF E!Converters, E!Auth, E!SessionErrors
  <2>2. 8 \in E!Converting(<<e>>) /\ E!First(8, <<e>>) = e
    <3>1. 1 \in DOMAIN <<e>> /\ <<e>>[1] = e
        OBVIOUS
    <3>2. E!Finds(8, <<e>>) # {}
        BY <2>1, <3>1 DEF E!Finds
    <3> QED BY <1>1, <2>1, <3>2, FirstOfOne DEF E!Converting
  <2>3. ASSUME NEW j \in 1..7 PROVE e \notin E!Converters[j]
    <3>1. E!Converters[j] \in {E!Config, E!SessionBinding, E!FS, E!Resources, E!Alerts,
                               E!ServerPolicy, E!Network}
        BY DEF E!Converters
    <3>2. e \notin E!Config \cup E!SessionBinding \cup E!FS \cup E!Resources \cup E!Alerts
                   \cup E!ServerPolicy \cup E!Network
        BY <1>4 DEF E!Config, E!SessionBinding, E!FS, E!Resources, E!Alerts, E!ServerPolicy,
                    E!Network
    <3> QED BY <3>1, <3>2
  <2>4. \A j \in E!Converting(<<e>>) : 8 <= j
      BY <1>1, <2>3, FirstOfOne DEF E!Converting
  <2>5. ~E!Contains(<<e>>, "DetailedError")
    <3>1. \A i \in 1..Len(<<e>>) : <<e>>[i] = e
        OBVIOUS
    <3> QED BY <2>1, <3>1 DEF E!Contains
  <2> QED BY <2>1, <2>2, <2>4, <2>5 DEF E!ExitStatus
<1> QED BY <1>2, <1>3, <1>4

LEMMA JoinOfOne ==
    ASSUME NEW e
    PROVE  E!Join(<<e>>) = e
<1> DEFINE f == [i \in 1..1 |-> e]
           seqs == <<e>>
<1>1. f = [i \in 1..1 |-> IF i = 1 THEN seqs[i] ELSE f[i - 1] \o seqs[i]]
    OBVIOUS
<1> DEFINE g == CHOOSE h : h = [i \in 1..1 |-> IF i = 1 THEN seqs[i] ELSE h[i - 1] \o seqs[i]]
<1>2. g = [i \in 1..1 |-> IF i = 1 THEN seqs[i] ELSE g[i - 1] \o seqs[i]]
  <2> HIDE DEF f, seqs
  <2> QED
    BY <1>1
<1> HIDE DEF g
<1>3. g[1] = e
    BY <1>2
<1>4. Len(seqs) = 1
    OBVIOUS
<1>5. E!Join(seqs) = g[Len(seqs)]
  <2> HIDE DEF seqs
  <2> QED
    BY <1>4 DEF E!Join, E!FlattenSeq, g
<1> QED
    BY <1>3, <1>4, <1>5

(* One rejected rotation makes exit status 2, and without it only a session *)
(* that is not bound to the server can.                                     *)
LEMMA WorstExit ==
    ASSUME NEW seen \in UNION {[1..n -> Outcomes] : n \in 0..3},
           \A i, j \in DOMAIN seen : seen[i] = seen[j] => i = j
    PROVE  /\ (\E i \in DOMAIN seen : seen[i] = "rejected") => Exits[seen] = {"2"}
           /\ "2" \in Exits[seen] =>
                 \E i \in DOMAIN seen : seen[i] \in {"rejected", "unbound"}
<1> DEFINE Joined(other) == E!ExitStatus(E!Join([i \in DOMAIN seen |-> ErrorOf(seen[i], other)]))
           Rest == {Joined(other) : other \in Errored}
<1>1. Exits[seen] = CASE seen = <<>> -> {"0"}
      [] \E i \in DOMAIN seen : seen[i] = "rejected" -> {E!ExitStatus(<<"APIError 401">>)}
      [] OTHER -> Rest
    BY DEF Exits
<1>2. seen = <<>> => DOMAIN seen = {}
    OBVIOUS
<1>3. ASSUME \E i \in DOMAIN seen : seen[i] = "rejected" PROVE Exits[seen] = {"2"}
  <2>1. Exits[seen] = {E!ExitStatus(<<"APIError 401">>)}
    BY <1>1, <1>2, <1>3
  <2> QED
    BY <2>1, StatusOfOne
<1>4. ASSUME \A i \in DOMAIN seen : seen[i] \notin {"rejected", "unbound"}, seen # <<>>
      PROVE  Rest = {"1"}
  <2>1. PICK n \in 0..3 : seen \in [1..n -> Outcomes]
    OBVIOUS
  <2>2. \A i \in 1..n : seen[i] = "errored"
    BY <1>4, <2>1 DEF Outcomes
  <2>3. n = 1
    BY <1>4, <2>1, <2>2
  <2>4. \A other : [i \in DOMAIN seen |-> ErrorOf(seen[i], other)] = <<other>>
    BY <2>1, <2>2, <2>3 DEF ErrorOf
  <2>5. \A other : Joined(other) = E!ExitStatus(other)
    BY <2>4, JoinOfOne
  <2>6. \A other \in Errored : E!ExitStatus(other) = "1"
    <3>1. "url.Error" \notin E!SessionErrors /\ "ErrSessionOriginMismatch" \notin E!SessionErrors
      BY DEF E!SessionErrors
    <3> QED
      BY <3>1, StatusOfOne DEF Errored
  <2>7. Errored # {}
    BY DEF Errored
  <2> HIDE DEF Joined
  <2> QED
    BY <2>5, <2>6, <2>7
<1> HIDE DEF Rest
<1>5. ASSUME \A i \in DOMAIN seen : seen[i] \notin {"rejected", "unbound"}
      PROVE  "2" \notin Exits[seen]
  <2>1. ~ \E i \in DOMAIN seen : seen[i] = "rejected"
    BY <1>5
  <2>2. CASE seen = <<>>
    BY <1>1, <2>2
  <2>3. CASE seen # <<>>
    BY <1>1, <1>4, <1>5, <2>1, <2>3
  <2> QED
    BY <2>2, <2>3
<1> QED
    BY <1>3, <1>5

-----------------------------------------------------------------------------
(* Steps of commands and refreshes                                          *)

(* What noting one outcome does to the refresh.                             *)
LEMMA Records ==
    ASSUME TypeOK, RefreshInv, NEW c \in refresh.todo,
           NEW status \in Outcomes \cup {"skipped", "succeeded"}, Record(c, status)
    PROVE  /\ refresh' \in Refreshes
           /\ refresh'.todo = refresh.todo \ {c}
           /\ refresh'.todo # {} => refresh'.exit = "running"
           /\ refresh'.exit = "0" => refresh'.seen = <<>>
           /\ refresh'.exit = "running" \/ refresh'.exit \in Exits[refresh'.seen]
           /\ refresh'.seen \in UNION {[1..n -> Outcomes] : n \in 0..3}
           /\ refresh'.seen # <<>> => refresh'.selected = {}
           /\ refresh'.seen = <<>> =>
                 refresh'.selected = refresh.selected /\ status \notin Outcomes
           /\ \A i, j \in DOMAIN refresh'.seen : refresh'.seen[i] = refresh'.seen[j] => i = j
<1> DEFINE seen == IF status \in Outcomes /\ ~Saw(status)
                   THEN Append(refresh.seen, status) ELSE refresh.seen
           next == [refresh EXCEPT !.todo = @ \ {c}, !.seen = seen,
                                   !.selected = IF seen = <<>> THEN @ ELSE {}]
<1>1. refresh \in Refreshes /\ refresh.seen \in Seq(Outcomes) /\ refresh.exit = "running"
    BY DEF TypeOK, Refreshes, RefreshInv
<1>2. seen \in Seq(Outcomes) /\ \A i, j \in DOMAIN seen : seen[i] = seen[j] => i = j
  <2>1. CASE status \in Outcomes /\ ~Saw(status)
    <3> DEFINE n == Len(refresh.seen)
    <3>1. /\ n \in Nat /\ DOMAIN refresh.seen = 1..n
          /\ seen = Append(refresh.seen, status)
      BY <1>1, <2>1, LenProperties
    <3>2. /\ seen \in Seq(Outcomes) /\ DOMAIN seen = 1..(n + 1)
          /\ \A i \in 1..n : seen[i] = refresh.seen[i]
          /\ seen[n + 1] = status
      BY <1>1, <2>1, <3>1, AppendProperties, LenProperties
    <3>3. \A i \in 1..n : refresh.seen[i] # status
      BY <2>1, <3>1 DEF Saw
    <3>4. \A i, j \in 1..n : refresh.seen[i] = refresh.seen[j] => i = j
      BY <3>1 DEF RefreshInv
    <3>5. ASSUME NEW i \in 1..(n + 1), NEW j \in 1..(n + 1), seen[i] = seen[j] PROVE i = j
      <4>1. (i \in 1..n \/ i = n + 1) /\ (j \in 1..n \/ j = n + 1)
        BY <3>1
      <4> HIDE DEF seen, n
      <4> QED
        BY <3>2, <3>3, <3>4, <3>5, <4>1
    <3> QED
      BY <3>2, <3>5
  <2>2. CASE ~(status \in Outcomes /\ ~Saw(status))
    BY <1>1, <2>2 DEF RefreshInv
  <2> QED
    BY <2>1, <2>2
<1>3. seen = <<>> => status \notin Outcomes /\ refresh.seen = <<>>
  <2>1. CASE status \in Outcomes /\ ~Saw(status)
    <3>1. Len(seen) = Len(refresh.seen) + 1 /\ Len(refresh.seen) \in Nat
      BY <1>1, <2>1, AppendProperties, LenProperties
    <3>2. seen # <<>>
      <4> HIDE DEF seen
      <4> QED
        BY <3>1
    <3> QED
      BY <3>2
  <2>2. CASE status \in Outcomes /\ Saw(status)
    BY <1>1, <2>2, EmptySeq DEF Saw
  <2>3. CASE status \notin Outcomes
    BY <2>3
  <2> QED
    BY <2>1, <2>2, <2>3
<1>4. /\ next \in Refreshes /\ next.todo = refresh.todo \ {c} /\ next.seen = seen
      /\ next.selected = (IF seen = <<>> THEN refresh.selected ELSE {})
      /\ next.exit = "running"
  <2> HIDE DEF seen
  <2> QED
    BY <1>1, <1>2 DEF Refreshes
<1>5. IF next.todo = {}
      THEN \E exit \in Exits[seen] : refresh' = [next EXCEPT !.by = "user", !.exit = exit]
      ELSE refresh' = next
    BY DEF Record
<1>6. /\ seen = <<>> => Exits[seen] = {"0"}
      /\ seen # <<>> => Exits[seen] \subseteq {"1", "2"}
      /\ seen \in UNION {[1..n -> Outcomes] : n \in 0..3}
  <2> HIDE DEF seen
  <2> QED
    BY <1>2, Noted, ExitsAre
<1> HIDE DEF seen, next
<1>7. /\ refresh' \in Refreshes /\ refresh'.todo = next.todo /\ refresh'.seen = seen
      /\ refresh'.selected = next.selected
      /\ next.todo # {} => refresh'.exit = "running"
      /\ refresh'.exit = "0" => seen = <<>>
      /\ refresh'.exit = "running" \/ refresh'.exit \in Exits[seen]
  <2>1. CASE next.todo = {}
    BY <1>4, <1>5, <1>6, <2>1 DEF Refreshes
  <2>2. CASE next.todo # {}
    BY <1>4, <1>5, <2>2
  <2> QED
    BY <2>1, <2>2
<1> QED
    BY <1>2, <1>3, <1>4, <1>6, <1>7

Commands == [pc : {"idle", "write", "replace", "bootstrap", "remove"},
             spec : Agents \cup {None},
             result : {"none", "refused", "running", "failed", "installed", "warned",
                       "removed", "killed"}]

(* Faults and edits are counted, and commands and refreshes forgotten.      *)
LEMMA Counted ==
    ASSUME TypeOK
    PROVE  /\ Fault \/ NoFault => faults' \in Nat
           /\ edits < MaxEdits /\ edits' = edits + 1 => edits' \in 0..MaxEdits
           /\ version \in 1..(edits' + 1) \/ edits' \notin {edits, edits + 1}
<1>1. faults \in Nat /\ edits \in 0..MaxEdits /\ version \in 1..(edits + 1) /\ MaxEdits \in Nat
    BY BoundsAssumption DEF TypeOK
<1>2. Fault \/ NoFault => faults' \in Nat
    BY <1>1 DEF Fault, NoFault
<1>3. edits < MaxEdits /\ edits' = edits + 1 => edits' \in 0..MaxEdits
    BY <1>1
<1>4. version \in 1..(edits' + 1) \/ edits' \notin {edits, edits + 1}
    BY <1>1
<1> QED
    BY <1>2, <1>3, <1>4

LEMMA Forgets ==
    ASSUME TypeOK
    PROVE  /\ ForgetRefresh => /\ refresh' \in {refresh, NoRefresh} \cap Refreshes
                               /\ ~Quiet => refresh' = refresh
           /\ ForgetCommand => /\ command' \in {command, Idle("none")}
                               /\ command.pc # "idle" => command' = command
    BY NoRefreshTypes DEF ForgetRefresh, ForgetCommand, TypeOK, Refreshes

(* What an edit does to everything but its own variables.                   *)
LEMMA Edits ==
    ASSUME TypeOK, Edit
    PROVE  /\ refresh' \in {refresh, NoRefresh} \cap Refreshes
           /\ ~Quiet => refresh' = refresh
           /\ command' \in {command, Idle("none")}
           /\ command.pc # "idle" => command' = command
           /\ faults' \in Nat /\ edits' \in 0..MaxEdits /\ edits' = edits + 1
           /\ version \in 1..(edits' + 1) /\ version + 1 \in 1..(edits' + 1)
<1>1. faults' \in Nat /\ edits' \in 0..MaxEdits /\ edits' = edits + 1
    BY Counted DEF Edit
<1>2. version \in 1..(edits' + 1) /\ version + 1 \in 1..(edits' + 1)
    BY <1>1 DEF TypeOK
<1> QED
    BY <1>1, <1>2, Forgets DEF Edit

(* What the start of a refresh does, and a refresh of those that are due.   *)
LEMMA Starts ==
    ASSUME TypeOK, NEW by \in {"user", "agent", "elsewhere"}, NEW todo \in SUBSET Contexts,
           Start(by, todo)
    PROVE  /\ refresh' \in Refreshes /\ refresh'.seen = <<>>
           /\ refresh'.selected = todo /\ refresh'.todo = todo
           /\ todo # {} => refresh'.exit = "running"
           /\ refresh'.exit # "2"
<1>1. <<>> \in Seq(Outcomes)
    BY EmptySeq
<1> QED
    BY <1>1 DEF Start, Refreshes

LEMMA RunsDue ==
    ASSUME TypeOK, NEW by \in {"user", "agent", "elsewhere"}, RunDue(by)
    PROVE  /\ refresh' \in Refreshes /\ refresh'.seen = <<>>
           /\ refresh'.selected = refresh'.todo
           /\ refresh'.todo # {} => refresh'.exit = "running"
           /\ refresh'.exit # "2"
           /\ watched' \in [Contexts -> BOOLEAN]
           /\ \A c \in Contexts :
                 watched'[c] => watched[c] /\ (by = "agent" /\ Due(c) => c \in refresh'.todo)
           /\ faults' \in Nat
<1>0. CASE LoadFails(by)
  <2>1. /\ refresh' = NotBegun /\ faults' \in Nat
        /\ watched' = [c \in Contexts |-> watched[c] /\ (by = "agent" => ~Due(c))]
    BY <1>0, Counted DEF LoadFails
  <2>2. watched' \in [Contexts -> BOOLEAN]
    BY <2>1
  <2>3. /\ refresh'.seen = <<>> /\ refresh'.selected = {} /\ refresh'.todo = {}
        /\ refresh'.exit = "1"
    BY <2>1 DEF NotBegun, NoRefresh
  <2> QED
    BY <2>1, <2>2, <2>3, NoRefreshTypes
<1> SUFFICES ASSUME ~LoadFails(by)
             PROVE  /\ refresh' \in Refreshes /\ refresh'.seen = <<>>
                    /\ refresh'.selected = refresh'.todo
                    /\ refresh'.todo # {} => refresh'.exit = "running"
                    /\ refresh'.exit # "2"
                    /\ watched' \in [Contexts -> BOOLEAN]
                    /\ \A c \in Contexts :
                          watched'[c] =>
                              watched[c] /\ (by = "agent" /\ Due(c) => c \in refresh'.todo)
                    /\ faults' \in Nat
    BY <1>0
<1>1. PICK unread \in {{}} \cup {{c} : c \in {d \in Contexts : stored[d] # "none"}} :
          /\ Start(by, {c \in Contexts \ unread : Due(c)})
          /\ watched' = [c \in Contexts |-> watched[c] /\ c \notin unread]
          /\ faults' \in Nat
    BY Counted DEF RunDue
<1>2. {c \in Contexts \ unread : Due(c)} \in SUBSET Contexts
    OBVIOUS
<1>3. /\ refresh' \in Refreshes /\ refresh'.seen = <<>>
      /\ refresh'.selected = refresh'.todo /\ refresh'.todo = {c \in Contexts \ unread : Due(c)}
      /\ refresh'.todo # {} => refresh'.exit = "running"
      /\ refresh'.exit # "2"
    BY <1>1, <1>2, Starts
<1> QED
    BY <1>1, <1>3 DEF TypeOK

(* ByHand never stops watching a session but one that it could not read.    *)
LEMMA Asks ==
    ASSUME TypeOK, NEW by \in {"user", "elsewhere"}, Asked(by)
    PROVE  /\ refresh' \in Refreshes /\ refresh'.seen = <<>>
           /\ refresh'.selected = refresh'.todo
           /\ refresh'.todo # {} => refresh'.exit = "running"
           /\ refresh'.exit # "2"
           /\ watched' \in [Contexts -> BOOLEAN]
           /\ \A c \in Contexts : watched'[c] => watched[c]
           /\ faults' \in Nat
<1>1. CASE RunDue(by)
    BY <1>1, RunsDue
<1>2. CASE Start(by, Contexts) /\ UNCHANGED watched /\ NoFault
    BY <1>2, Starts DEF NoFault, TypeOK
<1>3. CASE /\ \E c \in Contexts : IF stored[c] = "none" THEN refresh' = NotBegun
                                  ELSE Start(by, {c})
           /\ UNCHANGED watched /\ NoFault
  <2>1. PICK c \in Contexts : IF stored[c] = "none" THEN refresh' = NotBegun
                              ELSE Start(by, {c})
    BY <1>3
  <2>2. CASE refresh' = NotBegun
    BY <1>3, <2>2, NoRefreshTypes DEF NotBegun, NoRefresh, NoFault, TypeOK
  <2>3. CASE Start(by, {c})
    BY <1>3, <2>3, Starts DEF NoFault, TypeOK
  <2> QED
    BY <2>1, <2>2, <2>3
<1> QED
    BY <1>1, <1>2, <1>3 DEF Asked

LEMMA TypeStep ==
    ASSUME TypeOK, AgentInv, RefreshInv, Next
    PROVE  TypeOK'
<1> USE DEF TypeOK, Fault, NoFault, agent, sessions, Idle, Versions
<1>0. NoRefresh \in Refreshes /\ NotBegun \in Refreshes /\ refresh \in Refreshes
    BY NoRefreshTypes DEF Refreshes
<1>1. CASE InstallRefused
    BY <1>0, <1>1, Forgets DEF InstallRefused, Refreshes
<1>2. CASE Install
  <2>1. \A i \in (Overrides \cap MinWindow..MaxWindow)
                    \cup {DeriveInterval(Min({window[c] : c \in OptedIn}))} :
             [every |-> i, program |-> ResolveBinaryPath] \in Agents
    <3>1. DeriveInterval(Min({window[c] : c \in OptedIn})) \in MinWindow..MaxWindow
      BY <1>2, Derived, IntervalsInBounds DEF Install, Intervals
    <3>2. version \in Versions
      BY BoundsAssumption
    <3> QED
      BY <3>1, <3>2 DEF Agents, ResolveBinaryPath
  <2>2. command' \in Commands
    <3>1. PICK i \in (Overrides \cap MinWindow..MaxWindow)
                       \cup {DeriveInterval(Min({window[c] : c \in OptedIn}))} :
              command' = [pc |-> "write", result |-> "running",
                          spec |-> [every |-> i, program |-> ResolveBinaryPath]]
      BY <1>2 DEF Install
    <3> DEFINE spec == [every |-> i, program |-> ResolveBinaryPath]
    <3>2. spec \in Agents
      BY <2>1
    <3> HIDE DEF spec
    <3>3. command' = [pc |-> "write", result |-> "running", spec |-> spec]
      BY <3>1 DEF spec
    <3> QED
      BY <3>2, <3>3 DEF Commands
  <2> QED
    BY <1>2, <2>2, Forgets DEF Install, Commands, Refreshes
<1>3. CASE WritePlist
  <2>1. command.spec \in Agents
    BY <1>3 DEF WritePlist, AgentInv
  <2>2. faults' \in Nat
    BY <1>3, Counted DEF WritePlist
  <2>3. plist' \in Agents \cup {None, Cut}
    BY <1>3, <2>1 DEF WritePlist
  <2>4. command' \in Commands
    BY <1>3 DEF WritePlist, Commands
  <2> QED
    BY <1>3, <2>2, <2>3, <2>4 DEF WritePlist, Commands
<1>4. CASE Replace \/ Uninstall
  <2>1. PICK answer : Bootout(answer)
    BY <1>4 DEF Replace, Uninstall
  <2>2. /\ refresh' \in Refreshes /\ loaded' \in Agents \cup {None}
        /\ asleep' \in 0..MaxWindow /\ watched' \in [Contexts -> BOOLEAN]
        /\ faults' \in Nat
    <3>1. 0 \in 0..MaxWindow
      BY BoundsAssumption
    <3> HIDE DEF TypeOK
    <3>2. /\ loaded \in Agents \cup {None} /\ asleep \in 0..MaxWindow
          /\ watched \in [Contexts -> BOOLEAN]
      BY DEF TypeOK
    <3> QED
      BY <1>0, <2>1, <3>1, <3>2, BootsOut, NoRefreshTypes
  <2>3. CASE Replace
    BY <2>2, <2>3 DEF Replace, Refreshes
  <2>4. CASE Uninstall
    BY <2>2, <2>4 DEF Uninstall, Refreshes
  <2> QED
    BY <1>4, <2>3, <2>4
<1>5. CASE Bootstrap
    BY <1>5, BoundsAssumption DEF Bootstrap
<1>6. CASE RemovePlist \/ Killed
    BY <1>6 DEF RemovePlist, Killed
<1>7. CASE Wake
  <2>1. refresh' \in Refreshes /\ watched' \in [Contexts -> BOOLEAN] /\ faults' \in Nat
    BY <1>0, <1>7, RunsDue DEF Wake
  <2>2. command' \in Commands
    <3>1. command' \in {command, Idle("none")}
      BY <1>7, Forgets DEF Wake
    <3> QED
      BY <3>1 DEF Commands
  <2>3. asleep' = 0 /\ UNCHANGED <<window, stored, age, idle, plist, loaded, version, edits>>
    BY <1>7 DEF Wake
  <2>4. 0 \in 0..MaxWindow
    BY BoundsAssumption
  <2> QED
    BY <2>1, <2>2, <2>3, <2>4 DEF Commands, Refreshes
<1>8. CASE ByHand
  <2>1. refresh' \in Refreshes /\ watched' \in [Contexts -> BOOLEAN] /\ faults' \in Nat
    BY <1>8, Asks DEF ByHand
  <2>2. edits' \in {edits, edits + 1} /\ edits' \in 0..MaxEdits
    BY <1>8, BoundsAssumption DEF ByHand
  <2>3. version \in 1..(edits' + 1)
    BY <2>2, Counted
  <2>4. command' \in Commands
    BY <1>8, Forgets DEF ByHand, Commands
  <2> QED
    BY <1>8, <2>1, <2>2, <2>3, <2>4 DEF ByHand, Commands, Refreshes
<1>9. CASE RefreshContext
  <2>1. PICK c \in refresh.todo : Skip(c) \/ Rotate(c) \/ Unresolved(c) \/ NotRotated(c)
    BY <1>9 DEF RefreshContext
  <2>2. \E status \in Outcomes \cup {"skipped", "succeeded"} : Record(c, status)
    BY <2>1 DEF Skip, Rotate, Unresolved, NotRotated, Outcomes
  <2>3. refresh' \in Refreshes
    BY <2>2, Records
  <2>4. /\ stored' \in [Contexts -> {"none", "legacy", "bound"}]
        /\ age' \in [Contexts -> 0..MaxWindow] /\ idle' \in [Contexts -> 0..InactiveLifetime]
        /\ watched' \in [Contexts -> BOOLEAN] /\ faults' \in Nat
    <3>1. CASE Skip(c)
      BY <3>1 DEF Skip
    <3>2. CASE Rotate(c)
      <4>1. Scheduled(c) \in BOOLEAN /\ 0 \in 0..MaxWindow /\ 0 \in 0..InactiveLifetime
        BY BoundsAssumption DEF Scheduled
      <4>2. faults' \in Nat
        BY <3>2, Counted DEF Rotate
      <4> QED
        <5>1. idle' \in [Contexts -> 0..InactiveLifetime]
          BY <3>2, <4>1 DEF Rotate
        <5>2. /\ stored' \in [Contexts -> {"none", "legacy", "bound"}]
              /\ age' \in [Contexts -> 0..MaxWindow] /\ watched' \in [Contexts -> BOOLEAN]
          <6>1. /\ stored' \in {stored, [stored EXCEPT ![c] = "bound"]}
                /\ age' \in {age, [age EXCEPT ![c] = 0]}
                /\ watched' \in {[watched EXCEPT ![c] = Scheduled(c)],
                                  [watched EXCEPT ![c] = FALSE]}
            BY <3>2 DEF Rotate, Bind, BindFails
          <6>2. c \in Contexts
            OBVIOUS
          <6>3. stored' \in [Contexts -> {"none", "legacy", "bound"}]
            BY <6>1, <6>2
          <6>4. age' \in [Contexts -> 0..MaxWindow]
            BY <4>1, <6>1, <6>2
          <6>5. watched' \in [Contexts -> BOOLEAN]
            BY <4>1, <6>1, <6>2
          <6> QED
            BY <6>3, <6>4, <6>5
        <5> QED
          BY <4>2, <5>1, <5>2
    <3>3. CASE Unresolved(c)
      BY <3>3 DEF Unresolved
    <3>4. CASE NotRotated(c)
      <4>1. /\ stored' \in {stored, [stored EXCEPT ![c] = "bound"]} /\ UNCHANGED idle
            /\ age' \in {age, [age EXCEPT ![c] = 0]}
            /\ watched' = [watched EXCEPT ![c] = FALSE]
            /\ Fault \/ NoFault
        BY <3>4 DEF NotRotated, Bind, BindFails
      <4>2. faults' \in Nat
        BY <4>1, Counted
      <4>3. 0 \in 0..MaxWindow /\ c \in Contexts
        BY BoundsAssumption
      <4>4. age' \in [Contexts -> 0..MaxWindow]
        BY <4>1, <4>3
      <4>5. stored' \in [Contexts -> {"none", "legacy", "bound"}]
        BY <4>1, <4>3
      <4>6. watched' \in [Contexts -> BOOLEAN]
        BY <4>1, <4>3
      <4> QED
        BY <4>1, <4>2, <4>4, <4>5, <4>6
    <3> QED
      BY <2>1, <3>1, <3>2, <3>3, <3>4
  <2> QED
    BY <1>9, <2>3, <2>4 DEF RefreshContext, Refreshes
<1>10. CASE ConfigSet
  <2>1. /\ window' \in [Contexts -> Windows] /\ watched' \in [Contexts -> BOOLEAN]
    BY <1>10, BoundsAssumption DEF ConfigSet, Windows, ParsedLiveWindow
  <2> QED
    BY <1>10, <2>1, Edits DEF ConfigSet, Refreshes
<1>11. CASE Login
  <2>1. 0 \in 0..MaxWindow /\ 0 \in 0..InactiveLifetime
        /\ \A c \in Contexts : Scheduled(c) \in BOOLEAN
    BY BoundsAssumption DEF Scheduled
  <2> QED
    BY <1>11, <2>1, Edits DEF Login, Refreshes
<1>12. CASE BindOnUse
  <2>1. 0 \in 0..MaxWindow
    BY BoundsAssumption
  <2> QED
    BY <1>12, <2>1, Edits DEF BindOnUse, Refreshes
<1>13. CASE Upgrade
    BY <1>13, Edits DEF Upgrade, Refreshes
<1>14. CASE Tick
  <2>1. \A c \in Contexts : /\ Min({age[c] + 1, MaxWindow}) \in 0..MaxWindow
                            /\ Min({idle[c] + 1, InactiveLifetime}) \in 0..InactiveLifetime
    <3> TAKE c \in Contexts
    <3>1. /\ age[c] \in 0..MaxWindow /\ MaxWindow \in Nat
          /\ idle[c] \in 0..InactiveLifetime /\ InactiveLifetime \in Nat
      BY BoundsAssumption
    <3> HIDE DEF TypeOK
    <3> QED
      BY <3>1, MinOfTwo
  <2>2. age' \in [Contexts -> 0..MaxWindow] /\ idle' \in [Contexts -> 0..InactiveLifetime]
    <3>1. 0 \in 0..MaxWindow /\ 0 \in 0..InactiveLifetime
      BY BoundsAssumption
    <3> QED
      BY <1>14, <2>1, <3>1 DEF Tick, Later
  <2>3. asleep' \in 0..MaxWindow
    BY <1>14, BoundsAssumption DEF Tick, Agents
  <2> QED
    BY <1>0, <1>14, <2>2, <2>3 DEF Tick, Refreshes
<1> QED
    BY <1>1, <1>2, <1>3, <1>4, <1>5, <1>6, <1>7, <1>8, <1>9, <1>10, <1>11, <1>12, <1>13,
       <1>14 DEF Next

-----------------------------------------------------------------------------
(* The agent                                                                *)

AgentSound == NoOrphanAgent /\ AgentInv /\ KeepaliveReportsAreTrue

LEMMA AgentStep ==
    ASSUME TypeOK, AgentSound, Next
    PROVE  AgentSound'
<1> USE DEF NoOrphanAgent, AgentInv, KeepaliveReportsAreTrue, AgentSound, Idle, agent
<1>0. /\ command \in Commands /\ loaded \in Agents \cup {None} /\ plist \in Agents \cup {None, Cut}
      /\ None \notin Agents /\ Cut \notin Agents /\ None # Cut
      /\ asleep \in Nat
    BY NotAgents, BoundsAssumption DEF TypeOK, Commands
<1>1. CASE \/ InstallRefused
           \/ UNCHANGED <<plist, loaded, asleep>> /\ command' \in {command, Idle("none")}
    BY <1>1 DEF InstallRefused
<1>2. CASE Install
  <2>1. PICK i \in (Overrides \cap MinWindow..MaxWindow)
                     \cup {DeriveInterval(Min({window[c] : c \in OptedIn}))} :
            command' = [pc |-> "write", result |-> "running",
                        spec |-> [every |-> i, program |-> ResolveBinaryPath]]
    BY <1>2 DEF Install
  <2>2. i \in Intervals
    BY <1>2, <2>1, Derived DEF Install, Intervals
  <2>3. i # 0
    BY <2>2, IntervalsInBounds, BoundsAssumption
  <2>4. command'.spec.every = i /\ command'.spec # None
    BY <2>1, <2>3 DEF None
  <2> QED
    BY <1>2, <2>1, <2>2, <2>4 DEF Install
<1>3. CASE WritePlist
  <2>1. command'.spec \in {command.spec, None} /\ plist' \in {command.spec, Cut}
    BY <1>0, <1>3 DEF WritePlist, Commands
  <2>2. command'.pc \in {"replace", "idle"} /\ command'.result \in {"running", "failed"}
        /\ (command'.pc = "idle" => command'.result = "failed")
        /\ (command'.pc # "idle" => command'.result = "running")
    BY <1>0, <1>3 DEF WritePlist, Commands
  <2>3. plist' # None
    BY <1>0, <1>3 DEF WritePlist
  <2> QED
    BY <1>3, <2>1, <2>2, <2>3 DEF WritePlist
<1>4. CASE Replace
  <2>1. loaded' \in {loaded, None} /\ (loaded' # None => asleep' = asleep)
    BY <1>4, BootsOut DEF Replace
  <2>2. /\ command'.pc = "bootstrap" /\ command'.spec = command.spec
        /\ command'.result = "running"
    BY <1>0, <1>4 DEF Replace, Commands
  <2> QED
    BY <1>4, <2>1, <2>2 DEF Replace
<1>5. CASE Uninstall
  <2>1. PICK answer \in {"ok", "ErrNotLoaded", "other"}, state \in ClassifyLoadState :
         /\ Bootout(answer)
         /\ command' = IF Gone(answer, state)
                       THEN [pc |-> "remove", spec |-> None, result |-> "running"]
                       ELSE Idle("failed")
    BY <1>5 DEF Uninstall
  <2>2. loaded' \in {loaded, None} /\ (loaded' # None => asleep' = asleep)
    BY <2>1, BootsOut
  <2>3. Gone(answer, state) => loaded' = None
    BY <2>1, <2>2, BootsOut DEF Gone, ClassifyLoadState
  <2> QED
    BY <1>5, <2>1, <2>2, <2>3 DEF Uninstall
<1>6. CASE Bootstrap
  <2>1. \A a \in Agents : 0 <= a.every
    BY BoundsAssumption DEF Agents
  <2>2. CASE loaded' = plist /\ plist \in Agents /\ asleep' = 0 /\ command' = Idle("installed")
    BY <1>0, <1>6, <2>1, <2>2 DEF Bootstrap
  <2>3. CASE UNCHANGED <<loaded, asleep>> /\ command' = Idle("warned")
    BY <1>6, <2>3 DEF Bootstrap
  <2> QED
    BY <1>0, <1>6, <2>2, <2>3 DEF Bootstrap
<1>7. CASE RemovePlist
  <2>1. loaded = None /\ UNCHANGED <<loaded, asleep>> /\ plist' \in {plist, None}
        /\ command' \in {Idle("removed"), Idle("failed")}
        /\ (command' = Idle("removed") => plist' = None)
    BY <1>7 DEF RemovePlist
  <2> QED
    BY <2>1
<1>8. CASE Killed
    BY <1>8 DEF Killed
<1>9. CASE Wake
  <2>1. /\ UNCHANGED <<plist, loaded>> /\ asleep' = 0 /\ loaded \in Agents
        /\ command' \in {command, Idle("none")}
    BY <1>0, <1>9, Forgets DEF Wake
  <2>2. 0 <= loaded.every
    BY <2>1, BoundsAssumption DEF Agents
  <2> QED
    BY <2>1, <2>2
<1>10. CASE Tick
  <2>1. /\ UNCHANGED <<plist, loaded>> /\ command' = Idle("none")
        /\ loaded # None => asleep < loaded.every /\ asleep' = asleep + 1
    BY <1>10 DEF Tick
  <2>2. loaded # None => loaded.every \in Nat
    BY <1>0, BoundsAssumption DEF Agents
  <2>3. loaded # None => asleep' <= loaded.every
    BY <1>0, <2>1, <2>2
  <2> QED
    BY <2>1, <2>3
<1>11. CASE ByHand
  <2>1. UNCHANGED <<plist, loaded, asleep>> /\ command' \in {command, Idle("none")}
    BY <1>11, Forgets DEF ByHand
  <2> QED
    BY <2>1, <1>1
<1>12. CASE RefreshContext
    BY <1>1, <1>12 DEF RefreshContext
<1>13. CASE ConfigSet \/ Login \/ BindOnUse \/ Upgrade
  <2>1. UNCHANGED <<plist, loaded, asleep>> /\ command' \in {command, Idle("none")}
    BY <1>13, Edits DEF ConfigSet, Login, BindOnUse, Upgrade
  <2> QED
    BY <2>1, <1>1
<1> QED
    BY <1>1, <1>2, <1>3, <1>4, <1>5, <1>6, <1>7, <1>8, <1>9, <1>10, <1>11, <1>12, <1>13
       DEF Next

-----------------------------------------------------------------------------
(* The refresh                                                              *)

RefreshSound == RefreshInv /\ ExitTellsTheWorst

LEMMA NothingRefreshed ==
    ASSUME refresh' \in {NoRefresh, NotBegun, [NoRefresh EXCEPT !.exit = "killed"]}
    PROVE  RefreshSound'
    BY DEF RefreshSound, RefreshInv, ExitTellsTheWorst, ZeroIsComplete, Saw, NoRefresh, NotBegun

(* The refresh is as it was, and no session any staler.                     *)
LEMMA SameRefresh ==
    ASSUME TypeOK, RefreshSound, refresh' = refresh,
           \A c \in Contexts : stored[c] = "none" \/ idle[c] = 0 => stored'[c] = "none" \/ idle'[c] = 0
    PROVE  RefreshSound'
    BY DEF TypeOK, RefreshSound, RefreshInv, ExitTellsTheWorst, ZeroIsComplete, Saw

(* The refresh has just begun, or found nothing to do.                      *)
LEMMA NewRefresh ==
    ASSUME refresh'.seen = <<>>, refresh'.selected = refresh'.todo,
           refresh'.todo # {} => refresh'.exit = "running", refresh'.exit # "2"
    PROVE  RefreshSound'
    BY DEF RefreshSound, RefreshInv, ExitTellsTheWorst, ZeroIsComplete, Saw

LEMMA RefreshStep ==
    ASSUME TypeOK, RefreshSound, Next
    PROVE  RefreshSound'
<1> USE DEF agent, sessions
<1>1. CASE InstallRefused \/ Install
  <2>1. refresh' \in {refresh, NoRefresh} /\ UNCHANGED <<stored, idle>>
    BY <1>1, Forgets DEF InstallRefused, Install
  <2> QED
    BY <2>1, NothingRefreshed, SameRefresh
<1>2. CASE WritePlist \/ Bootstrap \/ RemovePlist \/ Killed
    BY <1>2, SameRefresh DEF WritePlist, Bootstrap, RemovePlist, Killed
<1>3. CASE Replace \/ Uninstall
  <2>1. /\ refresh' \in {refresh, [NoRefresh EXCEPT !.exit = "killed"]}
        /\ UNCHANGED <<stored, idle>>
    BY <1>3, BootsOut DEF Replace, Uninstall
  <2> QED
    BY <2>1, NothingRefreshed, SameRefresh
<1>4. CASE Wake
  <2>1. UNCHANGED <<stored, idle>> /\ (RunDue("agent") \/ refresh' = refresh)
    BY <1>4 DEF Wake
  <2> QED
    BY <2>1, RunsDue, SameRefresh, NewRefresh
<1>5. CASE ByHand
    BY <1>5, Asks, NewRefresh DEF ByHand
<1>6. CASE RefreshContext
  <2>1. PICK c \in refresh.todo : Skip(c) \/ Rotate(c) \/ Unresolved(c) \/ NotRotated(c)
    BY <1>6 DEF RefreshContext
  <2>2. PICK status \in Outcomes \cup {"skipped", "succeeded"} :
           /\ Record(c, status)
           /\ status \notin Outcomes => Skip(c) \/ Rotate(c)
    BY <2>1 DEF Skip, Rotate, Unresolved, NotRotated, Outcomes
  <2>3. /\ refresh' \in Refreshes
        /\ refresh'.todo = refresh.todo \ {c}
        /\ refresh'.todo # {} => refresh'.exit = "running"
        /\ refresh'.exit = "0" => refresh'.seen = <<>>
        /\ refresh'.exit = "running" \/ refresh'.exit \in Exits[refresh'.seen]
        /\ refresh'.seen \in UNION {[1..n -> Outcomes] : n \in 0..3}
        /\ refresh'.seen # <<>> => refresh'.selected = {}
        /\ refresh'.seen = <<>> => refresh'.selected = refresh.selected /\ status \notin Outcomes
        /\ \A i, j \in DOMAIN refresh'.seen : refresh'.seen[i] = refresh'.seen[j] => i = j
    BY <2>2, Records DEF RefreshSound
  <2>4. c \in Contexts /\ refresh.exit = "running" /\ refresh.selected \subseteq Contexts
    BY DEF TypeOK, RefreshSound, RefreshInv
  <2>5. ASSUME refresh'.seen = <<>>, NEW d \in refresh'.selected \ refresh'.todo
        PROVE  stored'[d] = "none" \/ idle'[d] = 0
    <3>1. Skip(c) \/ Rotate(c)
      BY <2>2, <2>3, <2>5
    <3>2. d = c => stored'[d] = "none" \/ idle'[d] = 0
      BY <2>4, <3>1 DEF Skip, Rotate, Bind, BindFails, TypeOK
    <3>3. d # c => stored[d] = "none" \/ idle[d] = 0
      BY <2>3, <2>4, <2>5 DEF RefreshSound, RefreshInv
    <3>4. d # c => stored'[d] = stored[d] /\ idle'[d] = idle[d]
      <4>1. d \in Contexts
        BY <2>3, <2>4, <2>5
      <4> QED
        BY <2>4, <3>1, <4>1 DEF Skip, Rotate, Bind, BindFails, TypeOK
    <3> QED
      BY <3>2, <3>3, <3>4
  <2>6. /\ Saw("rejected")' => refresh'.exit \in {"2", "running", "killed"}
        /\ refresh'.exit = "2" => Saw("rejected")' \/ Saw("unbound")'
    BY <2>3, WorstExit DEF Saw
  <2> QED
    BY <2>3, <2>5, <2>6 DEF RefreshSound, RefreshInv, ExitTellsTheWorst, ZeroIsComplete
<1>7. CASE ConfigSet \/ Login \/ BindOnUse \/ Upgrade
  <2>1. refresh' \in {refresh, NoRefresh}
    BY <1>7, Edits DEF ConfigSet, Login, BindOnUse, Upgrade
  <2>2. \A c \in Contexts :
           stored[c] = "none" \/ idle[c] = 0 => stored'[c] = "none" \/ idle'[c] = 0
    BY <1>7 DEF ConfigSet, Login, BindOnUse, Upgrade, TypeOK
  <2> QED
    BY <2>1, <2>2, NothingRefreshed, SameRefresh
<1>8. CASE Tick
    BY <1>8, NothingRefreshed DEF Tick
<1> QED
    BY <1>1, <1>2, <1>3, <1>4, <1>5, <1>6, <1>7, <1>8 DEF Next

-----------------------------------------------------------------------------
(* The sessions that are watched                                            *)

(* A session that nothing in the step concerns.                             *)
LEMMA SameWarm ==
    ASSUME NEW c \in Contexts, Warm(c),
           UNCHANGED <<loaded, asleep, version>>,
           stored'[c] = stored[c], window'[c] = window[c], age'[c] = age[c], idle'[c] = idle[c],
           refresh'.todo = refresh.todo \/ refresh.todo = {} \/ c \in refresh'.todo
    PROVE  Warm(c)'
    BY DEF Warm, Scheduled, Runs, ParsedLiveWindow

(* A session that was just rotated and stored.                              *)
LEMMA JustRotated ==
    ASSUME TypeOK, NEW c \in Contexts, UNCHANGED <<window, loaded, asleep, version>>,
           stored'[c] = "bound", age'[c] = 0, idle'[c] = 0, Scheduled(c)
    PROVE  Warm(c)'
<1>1. Min({0, MaxWindow}) = 0 /\ 0 < MaxWindow /\ MaxWindow \in Nat
    BY MinOfTwo, BoundsAssumption
<1>2. loaded \in Agents
    BY DEF Scheduled, TypeOK
<1>3. 0 < MaxWindow + asleep /\ 0 < MaxWindow + loaded.every
    BY <1>1, <1>2, BoundsAssumption DEF TypeOK, Agents
<1> QED
    BY <1>1, <1>3 DEF Warm, Scheduled, Runs, ParsedLiveWindow

LEMMA WarmStep ==
    ASSUME TypeOK, AgentSound, RefreshSound, WarmInv, Next
    PROVE  WarmInv'
<1> SUFFICES ASSUME NEW c \in Contexts, watched'[c] PROVE Warm(c)'
    BY DEF WarmInv
<1> USE DEF agent, sessions
<1>0. ~Quiet <=> refresh.exit = "running"
    BY DEF Quiet
<1>00. Quiet => refresh.todo = {}
    BY <1>0 DEF RefreshSound, RefreshInv
<1>1. CASE InstallRefused \/ Install
  <2>1. /\ refresh' = refresh \/ refresh.todo = {}
        /\ UNCHANGED <<window, loaded, asleep, sessions, version>>
    BY <1>00, <1>1, Forgets DEF InstallRefused, Install
  <2> QED
    BY <2>1, SameWarm DEF WarmInv
<1>2. CASE WritePlist \/ RemovePlist \/ Killed
  <2>1. UNCHANGED <<window, loaded, asleep, sessions, version, refresh>>
    BY <1>2 DEF WritePlist, RemovePlist, Killed
  <2> QED
    BY <2>1, SameWarm DEF WarmInv
<1>3. CASE Bootstrap
  <2>1. UNCHANGED <<window, sessions, version, refresh>> /\ Warm(c)
    BY <1>3 DEF Bootstrap, WarmInv
  <2>2. loaded # None
    BY <2>1 DEF Warm, Scheduled
  <2>3. UNCHANGED <<loaded, asleep>>
    BY <1>3, <2>2 DEF Bootstrap
  <2> QED
    BY <2>1, <2>3, SameWarm
<1>4. CASE Replace \/ Uninstall
  <2>1. /\ UNCHANGED <<window, stored, age, idle, version>>
        /\ loaded' = loaded /\ asleep' = asleep /\ watched' = watched /\ refresh' = refresh
    BY <1>4, BootsOut DEF Replace, Uninstall
  <2> QED
    BY <2>1, SameWarm DEF WarmInv
<1>5. CASE Wake
  <2>1. /\ UNCHANGED <<window, stored, age, idle, loaded, version>> /\ asleep' = 0 /\ Quiet
        /\ Runs(loaded.program) => RunDue("agent")
        /\ ~Runs(loaded.program) => watched' = watched
    BY <1>5 DEF Wake
  <2>2. watched[c]
    BY <2>1, RunsDue
  <2>3. Warm(c)
    BY <2>2 DEF WarmInv
  <2>4. Due(c) => c \in refresh'.todo
    BY <2>1, <2>3, RunsDue DEF Warm, Scheduled
  <2>5. ~Due(c) => idle[c] < MaxWindow
    <3> SUFFICES ASSUME ~Due(c) PROVE idle[c] < MaxWindow
      OBVIOUS
    <3>1. age[c] \in Nat /\ idle[c] \in Nat /\ MaxWindow \in Nat
      BY BoundsAssumption DEF TypeOK
    <3>2. window[c] \in MinWindow..MaxWindow /\ ~(age[c] >= window[c])
      BY <2>3 DEF Due, Warm, Scheduled, ParsedLiveWindow
    <3>3. age[c] = IF idle[c] <= MaxWindow THEN idle[c] ELSE MaxWindow
      BY <2>3, <3>1, MinOfTwo DEF Warm
    <3> QED
      BY <3>1, <3>2, <3>3, BoundsAssumption
  <2> QED
    BY <2>1, <2>3, <2>4, <2>5, BoundsAssumption DEF Warm, Scheduled, Runs, ParsedLiveWindow
<1>6. CASE ByHand
  <2>1. /\ UNCHANGED <<window, stored, age, idle, loaded, asleep, version>> /\ Quiet
        /\ watched[c]
    BY <1>6, Asks DEF ByHand
  <2> QED
    BY <1>00, <2>1, SameWarm DEF WarmInv
<1>7. CASE RefreshContext
  <2>1. PICK d \in refresh.todo : Skip(d) \/ Rotate(d) \/ Unresolved(d) \/ NotRotated(d)
    BY <1>7 DEF RefreshContext
  <2>2. UNCHANGED <<window, loaded, asleep, version>> /\ d \in Contexts
    BY <1>7 DEF RefreshContext, TypeOK
  <2>3. CASE c # d
    <3>1. refresh'.todo = refresh.todo \ {d}
      <4>1. \E status \in Outcomes \cup {"skipped", "succeeded"} : Record(d, status)
        BY <2>1 DEF Skip, Rotate, Unresolved, NotRotated, Outcomes
      <4> QED
        BY <4>1, Records DEF RefreshSound
    <3>2. /\ stored'[c] = stored[c] /\ age'[c] = age[c] /\ idle'[c] = idle[c]
          /\ watched'[c] = watched[c]
      BY <2>1, <2>2, <2>3 DEF Skip, Rotate, Bind, BindFails, Unresolved, NotRotated, TypeOK
    <3>3. Warm(c)
      BY <3>2 DEF WarmInv
    <3>4. CASE c \in refresh.todo
      BY <2>2, <2>3, <3>1, <3>2, <3>3, <3>4, SameWarm
    <3>5. CASE c \notin refresh.todo
      BY <2>2, <3>1, <3>2, <3>3, <3>5 DEF Warm, Scheduled, Runs, ParsedLiveWindow
    <3> QED
      BY <3>4, <3>5
  <2>4. CASE c = d /\ Rotate(c)
    <3>1. stored'[c] = "bound" /\ age'[c] = 0 /\ idle'[c] = 0 /\ Scheduled(c)
      BY <2>4 DEF Rotate, TypeOK
    <3> QED
      BY <2>2, <3>1, JustRotated
  <2>5. CASE c = d /\ Skip(c)
    <3>1. watched[c] /\ stored[c] = "none"
      BY <2>5 DEF Skip
    <3> QED
      BY <3>1 DEF WarmInv, Warm
  <2>6. CASE c = d /\ (Unresolved(c) \/ NotRotated(c))
    BY <2>6 DEF Unresolved, NotRotated, TypeOK
  <2> QED
    BY <2>1, <2>3, <2>4, <2>5, <2>6
<1>8. CASE ConfigSet \/ Login \/ BindOnUse \/ Upgrade
  <2>1. refresh' = refresh \/ refresh.todo = {}
    BY <1>00, <1>8, Edits DEF ConfigSet, Login, BindOnUse, Upgrade
  <2>2. UNCHANGED <<loaded, asleep>>
    BY <1>8 DEF ConfigSet, Login, BindOnUse, Upgrade
  <2>3. CASE ConfigSet
    <3>1. watched[c] /\ (window'[c] = window[c] \/ ParsedLiveWindow(window'[c]))
      BY <2>3 DEF ConfigSet, TypeOK
    <3>2. UNCHANGED <<stored, age, idle, version>>
      BY <2>3 DEF ConfigSet
    <3> QED
      BY <2>1, <2>2, <3>1, <3>2 DEF WarmInv, Warm, Scheduled, Runs, ParsedLiveWindow
  <2>4. CASE Login
    <3>1. PICK d \in Contexts :
             /\ stored' = [stored EXCEPT ![d] = "bound"]
             /\ age' = [age EXCEPT ![d] = 0]
             /\ idle' = [idle EXCEPT ![d] = 0]
             /\ watched' = [watched EXCEPT ![d] = Scheduled(d)]
             /\ UNCHANGED <<window, version>>
      BY <2>4 DEF Login
    <3>2. CASE c = d
      BY <2>2, <3>1, <3>2, JustRotated DEF TypeOK
    <3>3. CASE c # d
      BY <2>1, <2>2, <3>1, <3>3, SameWarm DEF WarmInv, TypeOK
    <3> QED
      BY <3>2, <3>3
  <2>5. CASE BindOnUse
    <3>1. Warm(c) /\ UNCHANGED <<window, version, idle>>
      BY <2>5 DEF BindOnUse, WarmInv
    <3>2. stored'[c] = stored[c] /\ age'[c] = age[c]
      BY <2>5, <3>1 DEF BindOnUse, Warm, TypeOK
    <3> QED
      BY <2>1, <2>2, <3>1, <3>2, SameWarm
  <2>6. CASE Upgrade
    BY <2>6 DEF Upgrade
  <2> QED
    BY <1>8, <2>3, <2>4, <2>5, <2>6
<1>9. CASE Tick
  <2>1. /\ UNCHANGED <<window, stored, loaded, version>> /\ Warm(c)
        /\ age'[c] = Min({age[c] + 1, MaxWindow})
        /\ idle'[c] = Min({idle[c] + 1, InactiveLifetime})
    BY <1>9 DEF Tick, Later, WarmInv, Warm
  <2>2. /\ loaded # None /\ asleep < loaded.every /\ asleep' = asleep + 1
        /\ idle[c] < MaxWindow + asleep
    BY <1>00, <1>9, <2>1 DEF Tick, Warm, Scheduled
  <2>3. /\ idle[c] \in Nat /\ age[c] \in Nat /\ MaxWindow \in Nat /\ InactiveLifetime \in Nat
        /\ asleep \in Nat /\ loaded.every \in Nat /\ MaxWindow <= InactiveLifetime
        /\ idle[c] <= InactiveLifetime
    BY <2>2, BoundsAssumption DEF TypeOK, Agents
  <2>5. age[c] = IF idle[c] <= MaxWindow THEN idle[c] ELSE MaxWindow
    BY <2>1, <2>3, MinOfTwo DEF Warm
  <2>6. /\ idle'[c] = IF idle[c] + 1 <= InactiveLifetime THEN idle[c] + 1 ELSE InactiveLifetime
        /\ idle'[c] \in Nat
        /\ idle'[c] < MaxWindow + asleep' /\ idle'[c] < MaxWindow + loaded.every
    <3>1. Min({idle[c] + 1, InactiveLifetime}) =
             IF idle[c] + 1 <= InactiveLifetime THEN idle[c] + 1 ELSE InactiveLifetime
      <4>1. idle[c] + 1 \in Int /\ InactiveLifetime \in Int
        BY <2>3
      <4> QED
        BY <4>1, MinOfTwo
    <3> QED
      BY <2>1, <2>2, <2>3, <3>1
  <2>7. age'[c] = Min({idle'[c], MaxWindow})
    <3>1. age'[c] = IF age[c] + 1 <= MaxWindow THEN age[c] + 1 ELSE MaxWindow
      <4>1. age[c] + 1 \in Int /\ MaxWindow \in Int
        BY <2>3
      <4>2. Min({age[c] + 1, MaxWindow}) =
               IF age[c] + 1 <= MaxWindow THEN age[c] + 1 ELSE MaxWindow
        BY <4>1, MinOfTwo
      <4> QED
        BY <2>1, <4>2
    <3>2. Min({idle'[c], MaxWindow}) = IF idle'[c] <= MaxWindow THEN idle'[c] ELSE MaxWindow
      BY <2>3, <2>6, MinOfTwo
    <3> QED
      BY <2>3, <2>5, <2>6, <3>1, <3>2
  <2> QED
    BY <2>1, <2>6, <2>7 DEF Warm, Scheduled, Runs, ParsedLiveWindow
<1> QED
    BY <1>1, <1>2, <1>3, <1>4, <1>5, <1>6, <1>7, <1>8, <1>9 DEF Next

-----------------------------------------------------------------------------
(* The theorems                                                             *)

IInv == TypeOK /\ AgentSound /\ RefreshSound /\ WarmInv

LEMMA InitInv == Init => IInv
<1> SUFFICES ASSUME Init PROVE IInv
    OBVIOUS
<1>1. /\ Windows \subseteq Int /\ WindowChoices \cup {Unset} \subseteq Windows
      /\ 0 \in 0..MaxWindow /\ 0 \in 0..InactiveLifetime /\ 0 \in 0..MaxEdits
    BY BoundsAssumption DEF Windows, Unset, Invalid
<1>2. TypeOK
    BY <1>1, NoRefreshTypes DEF Init, TypeOK, Idle, Refreshes
<1>3. AgentSound
    BY DEF Init, AgentSound, NoOrphanAgent, AgentInv, KeepaliveReportsAreTrue, Idle
<1>4. RefreshSound
    BY DEF Init, RefreshSound, RefreshInv, ExitTellsTheWorst, ZeroIsComplete, Saw, NoRefresh
<1>5. WarmInv
    BY DEF Init, WarmInv
<1> QED
    BY <1>2, <1>3, <1>4, <1>5 DEF IInv

LEMMA StepInv == IInv /\ [Next]_vars => IInv'
<1> SUFFICES ASSUME IInv, [Next]_vars PROVE IInv'
    OBVIOUS
<1>1. CASE Next
    BY <1>1, TypeStep, AgentStep, RefreshStep, WarmStep DEF IInv, AgentSound, RefreshSound
<1>2. CASE UNCHANGED vars
  <2>1. TypeOK'
    BY <1>2 DEF IInv, TypeOK, vars
  <2>2. AgentSound' /\ RefreshSound'
    BY <1>2 DEF IInv, AgentSound, NoOrphanAgent, AgentInv, KeepaliveReportsAreTrue,
       RefreshSound, RefreshInv, ExitTellsTheWorst, ZeroIsComplete, Saw, vars
  <2>3. WarmInv'
    BY <1>2 DEF IInv, WarmInv, Warm, Scheduled, Runs, ParsedLiveWindow, vars
  <2> QED
    BY <2>1, <2>2, <2>3 DEF IInv
<1> QED
    BY <1>1, <1>2

LEMMA Invariance == Spec => []IInv
    BY InitInv, StepInv, PTL DEF Spec

(* For any windows, intervals, faults and edits: an agent that is loaded    *)
(* always has a plist, whichever step of install or uninstall failed or was *)
(* killed, its interval is one that deriveInterval or the user chose and    *)
(* within the bounds of launchd.ValidateInterval, and a session that is     *)
(* watched was not due when the agent last ran or is about to be rotated.   *)
THEOREM AgentIsSound == Spec => []Inv
<1>1. IInv => Inv
    BY DEF IInv, Inv, AgentSound, RefreshSound
<1> QED
    BY <1>1, Invariance, PTL

(* The intervals users give with --interval leave Grafana's lifetime room   *)
(* for the longest window, as the derived ones do.                          *)
OverridesFit ==
    \A i \in Overrides \cap MinWindow..MaxWindow : MaxWindow + i <= InactiveLifetime

(* A session that was rotated and stored under a loaded agent is rotated    *)
(* again before Grafana gives it up, for every window and derived interval. *)
THEOREM SessionsStayWarm == OverridesFit => (Spec => []StaysWarm)
<1> SUFFICES ASSUME OverridesFit PROVE Spec => []StaysWarm
    OBVIOUS
<1>1. \A i \in Intervals : i \in Nat /\ MaxWindow + i <= InactiveLifetime
    BY BoundsAssumption DEF OverridesFit, Intervals
<1>2. ASSUME IInv PROVE StaysWarm
  <2> SUFFICES ASSUME NEW c \in Contexts, watched[c] PROVE idle[c] < InactiveLifetime
    BY DEF StaysWarm
  <2>1. Warm(c)
    BY <1>2 DEF IInv, WarmInv
  <2>2. loaded.every \in Intervals
    BY <1>2, <2>1, NotAgents DEF IInv, TypeOK, AgentSound, AgentInv, Warm, Scheduled
  <2> QED
    BY <1>1, <1>2, <2>1, <2>2, BoundsAssumption DEF IInv, TypeOK, Warm
<1> QED
    BY <1>2, Invariance, PTL

(* "installed" and "removed" are never reported of an agent that is not; a  *)
(* refresh that exits 0 met no failure and left no selected session stale;  *)
(* one rejected rotation makes it exit 2, whatever else failed.             *)
THEOREM ReportsHold == Spec => []ReportsAreTrue
<1>1. IInv => ReportsAreTrue
    BY DEF IInv, AgentSound, RefreshSound, ReportsAreTrue
<1> QED
    BY <1>1, Invariance, PTL

=============================================================================
