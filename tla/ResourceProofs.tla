--------------------------- MODULE ResourceProofs ---------------------------
(* The safety of the resources commands (ResourceCommands), for any server, *)
(* directory, command line and tree: what a delete may remove, what a pull  *)
(* leaves of the files, what the reader collects and in which order it is   *)
(* pushed.                                                                  *)
EXTENDS ResourceCommands, TLAPS, FiniteSetTheorems, SequenceTheorems, WellFoundedInduction

-----------------------------------------------------------------------------
(* Sequences made of sets and of sequences                                  *)

(* A set of numbers with 0 and the successor of each of its members.        *)
LEMMA AllNumbers ==
    ASSUME NEW S \in SUBSET Nat, 0 \in S, \A n \in S : n + 1 \in S
    PROVE  S = Nat
<1> DEFINE T == Nat \ S
           R == OpToRel(<, Nat)
<1> SUFFICES ASSUME T # {} PROVE FALSE
    OBVIOUS
<1>1. PICK x \in T : \A y \in T : <<y, x>> \notin R
  <2>1. IsWellFoundedOn(R, Nat)
    BY NatLessThanWellFounded DEF R
  <2>2. T \subseteq Nat
    OBVIOUS
  <2> HIDE DEF R, T
  <2> QED
    BY <2>1, <2>2, WFMin
<1>2. \A y \in T : ~(y < x)
    BY <1>1 DEF OpToRel
<1>3. x \in Nat /\ x # 0
    OBVIOUS
<1>4. x - 1 \in Nat /\ x - 1 < x /\ (x - 1) + 1 = x
    BY <1>3
<1>5. x - 1 \in S
    BY <1>2, <1>4
<1> QED
    BY <1>4, <1>5

(* SetToSeq(S) has all that S has.                                          *)
LEMMA SetToSeqIs ==
    ASSUME NEW S, IsFiniteSet(S)
    PROVE  SetToSeq(S) \in Seq(S) /\ ToSet(SetToSeq(S)) = S
<1> DEFINE n == Cardinality(S)
           f == SetToSeq(S)
<1>1. n \in Nat /\ ExistsBijection(1..n, S)
    BY FS_CardinalityType
<1>2. \E g \in [1..n -> S] : IsInjective(g)
    BY <1>1 DEF ExistsBijection, Bijection, Injection
<1>3. f \in [1..n -> S] /\ IsInjective(f)
    BY <1>2 DEF SetToSeq
<1>4. f \in Injection(1..n, S)
    BY <1>3 DEF Injection
<1>5. Cardinality(1..n) = n
    BY <1>1, FS_Interval
<1>6. f \in Surjection(1..n, S)
  <2> HIDE DEF f, n
  <2> QED
    BY <1>4, <1>5, FS_Injection DEF n
<1>7. ToSet(f) = S
  <2> HIDE DEF f, n
  <2> QED
    BY <1>6 DEF Surjection, ToSet
<1>8. f \in Seq(S)
  <2> HIDE DEF f, n
  <2> QED
    BY <1>1, <1>3, SeqDef
<1> QED
    BY <1>7, <1>8

(* SetToSeq(S) has each member of S once.                                   *)
LEMMA SetToSeqOnce ==
    ASSUME NEW S, IsFiniteSet(S)
    PROVE  \A i, j \in DOMAIN SetToSeq(S) : SetToSeq(S)[i] = SetToSeq(S)[j] => i = j
<1> DEFINE n == Cardinality(S)
           f == SetToSeq(S)
<1>1. n \in Nat /\ ExistsBijection(1..n, S)
    BY FS_CardinalityType
<1>2. \E g \in [1..n -> S] : IsInjective(g)
    BY <1>1 DEF ExistsBijection, Bijection, Injection
<1>3. f \in [1..n -> S] /\ IsInjective(f)
    BY <1>2 DEF SetToSeq
<1> QED
    BY <1>3 DEF IsInjective

(* What FlattenSeq starts with, up to its n-th part.                        *)
Joined(ss, g, n, T) ==
    /\ g \in [1..n -> Seq(T)]
    /\ \A i \in 1..n : g[i] = IF i = 1 THEN ss[i] ELSE g[i - 1] \o ss[i]

LEMMA JoinedExists ==
    ASSUME NEW T, NEW ss \in Seq(Seq(T)), NEW n \in Nat, n <= Len(ss)
    PROVE  \E g : Joined(ss, g, n, T)
<1> DEFINE S == {m \in Nat : m <= Len(ss) => \E g : Joined(ss, g, m, T)}
<1>0. /\ Len(ss) \in Nat
      /\ \A i \in 1..Len(ss) : ss[i] \in Seq(T)
    BY LenProperties, ElementOfSeq
<1>1. 0 \in S
  <2> DEFINE g == [i \in 1..0 |-> <<>>]
  <2>1. Joined(ss, g, 0, T)
    BY DEF Joined
  <2> QED
    BY <2>1
<1>2. ASSUME NEW m \in S PROVE m + 1 \in S
  <2> SUFFICES ASSUME m + 1 <= Len(ss) PROVE \E g : Joined(ss, g, m + 1, T)
    OBVIOUS
  <2>1. m \in Nat /\ m <= Len(ss)
    BY <1>0
  <2>2. PICK g : Joined(ss, g, m, T)
    BY <2>1
  <2> DEFINE h == [i \in 1..(m + 1) |-> IF i \in 1..m THEN g[i]
                                        ELSE IF i = 1 THEN ss[i] ELSE g[i - 1] \o ss[i]]
  <2>3. ASSUME NEW i \in 1..(m + 1) PROVE h[i] \in Seq(T) /\ h[i] = IF i = 1 THEN ss[i] ELSE h[i - 1] \o ss[i]
    <3>1. CASE i \in 1..m
      <4>1. h[i] = g[i] /\ g[i] \in Seq(T) /\ g[i] = IF i = 1 THEN ss[i] ELSE g[i - 1] \o ss[i]
        BY <2>2, <3>1 DEF Joined
      <4>2. ASSUME i # 1 PROVE h[i - 1] = g[i - 1]
        <5>1. i - 1 \in 1..m /\ i - 1 \in 1..(m + 1)
          BY <2>1, <3>1, <4>2
        <5> QED
          BY <5>1
      <4> HIDE DEF h
      <4> QED
        BY <4>1, <4>2
    <3>2. CASE i = m + 1 /\ i = 1
      BY <1>0, <2>1, <3>2
    <3>3. CASE i = m + 1 /\ i # 1
      <4>1. i - 1 \in 1..m /\ i \notin 1..m
        BY <2>1, <3>3
      <4>2. g[i - 1] \in Seq(T) /\ ss[i] \in Seq(T)
        BY <1>0, <2>1, <2>2, <4>1 DEF Joined
      <4>3. h[i] = g[i - 1] \o ss[i]
        BY <3>3, <4>1
      <4>5. h[i - 1] = g[i - 1]
        <5>1. i - 1 \in 1..(m + 1)
          BY <2>1, <4>1
        <5> QED
          BY <4>1, <5>1
      <4>4. g[i - 1] \o ss[i] \in Seq(T)
        BY <4>2, ConcatProperties
      <4> HIDE DEF h
      <4> QED
        BY <3>3, <4>3, <4>4, <4>5
    <3> QED
      BY <2>1, <3>1, <3>2, <3>3
  <2>4. h \in [1..(m + 1) -> Seq(T)]
    BY <2>3
  <2> QED
    BY <2>3, <2>4 DEF Joined
<1>3. S = Nat
  <2> HIDE DEF S
  <2>1. S \in SUBSET Nat
    BY DEF S
  <2> QED
    BY <1>1, <1>2, <2>1, AllNumbers
<1> QED
    BY <1>3

(* FlattenSeq keeps all that its parts have.                                *)
LEMMA FlattenSeqIs ==
    ASSUME NEW T, NEW ss \in Seq(Seq(T))
    PROVE  /\ FlattenSeq(ss) \in Seq(T)
           /\ ToSet(FlattenSeq(ss)) = UNION {ToSet(ss[i]) : i \in DOMAIN ss}
<1> DEFINE n == Len(ss)
           Body(f) == [i \in 1..n |-> IF i = 1 THEN ss[i] ELSE f[i - 1] \o ss[i]]
           flatten == CHOOSE f : f = Body(f)
<1>1. n \in Nat /\ DOMAIN ss = 1..n /\ \A i \in 1..n : ss[i] \in Seq(T)
    BY LenProperties, ElementOfSeq
<1>2. CASE n = 0
  <2>1. ss = <<>>
    BY <1>2, EmptySeq
  <2>2. FlattenSeq(ss) = <<>>
    BY <1>2, <2>1 DEF FlattenSeq
  <2> QED
    BY <1>1, <1>2, <2>2 DEF ToSet
<1>3. CASE n # 0
  <2>1. FlattenSeq(ss) = flatten[n]
    BY <1>3 DEF FlattenSeq
  <2>2. PICK g : Joined(ss, g, n, T)
    BY <1>1, JoinedExists
  <2>3. g = Body(g)
    BY <2>2 DEF Joined
  <2>4. flatten = Body(flatten)
    BY <2>3
  <2> HIDE DEF flatten
  <2> DEFINE All(m) == UNION {ToSet(ss[i]) : i \in 1..m}
  <2>9. \A m \in Nat : \A x : x \in All(m) <=> \E i \in 1..m : x \in ToSet(ss[i])
    OBVIOUS
  <2> HIDE DEF All
  <2> DEFINE S == {m \in Nat : m + 1 \in 1..n =>
                     flatten[m + 1] \in Seq(T) /\ ToSet(flatten[m + 1]) = All(m + 1)}
  <2>5. 0 \in S
    <3>1. n \in Nat /\ n # 0 /\ 0 + 1 \in 1..n /\ 1..(0 + 1) = {1}
      BY <1>1, <1>3
    <3>2. flatten[0 + 1] = ss[1] /\ ss[1] \in Seq(T)
      BY <1>1, <2>4, <3>1
    <3>3. All(0 + 1) = ToSet(ss[1])
      <4>1. \A x : x \in All(1) <=> x \in ToSet(ss[1])
        BY <2>9
      <4>2. All(1) = ToSet(ss[1])
        BY <4>1
      <4>3. 0 + 1 = 1
        OBVIOUS
      <4> QED
        BY <4>2, <4>3
    <3> QED
      BY <3>1, <3>2, <3>3
  <2>6. ASSUME NEW m \in S PROVE m + 1 \in S
    <3> SUFFICES ASSUME (m + 1) + 1 \in 1..n
                 PROVE  /\ flatten[(m + 1) + 1] \in Seq(T)
                        /\ ToSet(flatten[(m + 1) + 1]) = All((m + 1) + 1)
      OBVIOUS
    <3>1. PICK k \in Nat : k = m + 1
      OBVIOUS
    <3>2. k \in 1..n /\ k + 1 \in 1..n /\ k + 1 # 1 /\ (k + 1) - 1 = k /\ 1..(k + 1) = 1..k \cup {k + 1}
      BY <1>1, <3>1
    <3>3. flatten[k + 1] = flatten[k] \o ss[k + 1]
      <4>1. PICK j \in 1..n : j = k + 1
        BY <3>2
      <4>2. j # 1 /\ j - 1 = k
        BY <3>2, <4>1
      <4>3. flatten[j] = flatten[j - 1] \o ss[j]
        BY <2>4, <4>2
      <4> QED
        BY <4>1, <4>2, <4>3
    <3>4. flatten[k] \in Seq(T) /\ ToSet(flatten[k]) = All(k)
      BY <3>1, <3>2
    <3>5. ss[k + 1] \in Seq(T)
      BY <1>1, <3>2
    <3> DEFINE a == flatten[k]
               b == ss[k + 1]
    <3>6. ToSet(a \o b) = ToSet(a) \cup ToSet(b) /\ a \o b \in Seq(T)
      <4> HIDE DEF a, b
      <4>1. a \in Seq(T) /\ b \in Seq(T)
        BY <3>4, <3>5 DEF a, b
      <4>2. Range(a \o b) = Range(a) \cup Range(b) /\ a \o b \in Seq(T)
        BY <4>1, ConcatProperties, RangeConcatenation
      <4> QED
        BY <4>2 DEF Range, ToSet
    <3>7. All(k + 1) = All(k) \cup ToSet(ss[k + 1])
      BY <2>9, <3>2
    <3> QED
      BY <3>1, <3>3, <3>4, <3>6, <3>7
  <2>7. S = Nat
    <3> HIDE DEF S
    <3>1. S \in SUBSET Nat
      BY DEF S
    <3> QED
      BY <2>5, <2>6, <3>1, AllNumbers
  <2>8. n - 1 \in S /\ (n - 1) + 1 = n /\ n \in 1..n
    <3> HIDE DEF S
    <3> QED
      BY <1>1, <1>3, <2>7
  <2>10. ToSet(flatten[n]) = All(n) /\ flatten[n] \in Seq(T)
    BY <2>8
  <2> QED
    BY <1>1, <2>1, <2>10 DEF All
<1> QED
    BY <1>2, <1>3

-----------------------------------------------------------------------------
(* Selectors and filters                                                    *)

(* What of the resources of d has the name that s gives, in the group and   *)
(* version it gives.                                                        *)
LEMMA ByName ==
    ASSUME NEW d, NEW name, NEW i \in KindCandidates(d, name)
    PROVE  /\ i \in DOMAIN d.resources
           /\ name \in {d.resources[i].kind, d.resources[i].singular, d.resources[i].plural}
    BY DEF KindCandidates

LEMMA GroupsAreNamed ==
    ASSUME NEW d, NEW wanted, NEW g \in LongGroup(d, wanted) \cup ShortGroup(d, wanted)
    PROVE  \E h \in ToSet(d.groups) : h.name = g /\ wanted \in {h.name, h.short}
    BY DEF LongGroup, ShortGroup, ToSet

(* What a lookup finds is of a type that has the name in a group and a      *)
(* version that s admits.                                                   *)
Found(d, s, r) ==
    /\ r \in ToSet(d.resources)
    /\ s.version \in {"", r.version}
    /\ s.group # "" => \E h \in ToSet(d.groups) : h.name = r.group /\ s.group \in {h.name, h.short}
    /\ \E c \in ToSet(d.resources) :
          c.group = r.group /\ c.kind = r.kind /\ s.resource \in {c.kind, c.singular, c.plural}

LEMMA LookupFinds ==
    ASSUME NEW d, NEW s, NEW preferred \in BOOLEAN, NEW r \in LookupFor(d, s, preferred)
    PROVE  Found(d, s, r)
<1> DEFINE candidates == KindCandidates(d, s.resource)
           Via(g, c, v) ==
               /\ s.group # "" => g \in LongGroup(d, s.group) \cup ShortGroup(d, s.group)
               /\ s.version \in {"", v}
               /\ c \in FirstAt(d, InGroup(d, candidates, g))
               /\ r \in OfType(d, g, c.kind, v)
<1>1. ASSUME r \in LookupPartialGVK(d, s) PROVE \E g, c, v : Via(g, c, v)
  <2>1. PICK g \in CandidateGroup(d, candidates, s.group) :
            \E v \in IF s.version # "" THEN {s.version} ELSE Preferred(d, g) :
              \E c \in FirstAt(d, InGroup(d, candidates, g)) : r \in OfType(d, g, c.kind, v)
    BY <1>1 DEF LookupPartialGVK
  <2>2. PICK v \in IF s.version # "" THEN {s.version} ELSE Preferred(d, g) :
            \E c \in FirstAt(d, InGroup(d, candidates, g)) : r \in OfType(d, g, c.kind, v)
    BY <2>1
  <2>3. PICK c \in FirstAt(d, InGroup(d, candidates, g)) : r \in OfType(d, g, c.kind, v)
    BY <2>2
  <2>4. s.group # "" => g \in LongGroup(d, s.group) \cup ShortGroup(d, s.group)
    BY DEF CandidateGroup
  <2>5. s.version \in {"", v}
    OBVIOUS
  <2> QED
    BY <2>3, <2>4, <2>5
<1>2. ASSUME r \in LookupAllVersions(d, s) PROVE \E g, c, v : Via(g, c, v)
  <2>1. CASE s.version # ""
    BY <1>1, <1>2, <2>1 DEF LookupAllVersions
  <2>2. CASE s.version = ""
    <3>1. PICK g \in TargetGroups(d, candidates, s.group) :
              \E c \in FirstAt(d, InGroup(d, candidates, g)) : r \in OfType(d, g, c.kind, r.version)
      BY <1>2, <2>2 DEF LookupAllVersions
    <3>3. PICK c \in FirstAt(d, InGroup(d, candidates, g)) : r \in OfType(d, g, c.kind, r.version)
      BY <3>1
    <3>4. s.group # "" => g \in LongGroup(d, s.group) \cup ShortGroup(d, s.group)
      BY DEF TargetGroups
    <3> QED
      BY <2>2, <3>3, <3>4
  <2> QED
    BY <2>1, <2>2
<1>3. PICK g, c, v : Via(g, c, v)
    BY <1>1, <1>2 DEF LookupFor
<1>4. PICK i \in DOMAIN d.resources :
          r = d.resources[i] /\ r.group = g /\ r.kind = c.kind /\ r.version = v
    BY <1>3 DEF OfType, FirstAt, InGroup
<1>5. PICK j \in candidates : c = d.resources[j] /\ c.group = g
    BY <1>3 DEF FirstAt, InGroup
<1>6. j \in DOMAIN d.resources /\ s.resource \in {c.kind, c.singular, c.plural}
    BY <1>5, ByName
<1>7. r \in ToSet(d.resources) /\ c \in ToSet(d.resources)
    BY <1>4, <1>5, <1>6 DEF ToSet
<1>8. ASSUME s.group # ""
      PROVE  \E h \in ToSet(d.groups) : h.name = r.group /\ s.group \in {h.name, h.short}
  <2>1. g \in LongGroup(d, s.group) \cup ShortGroup(d, s.group)
    BY <1>3, <1>8
  <2>2. \E h \in ToSet(d.groups) : h.name = g /\ s.group \in {h.name, h.short}
    <3> HIDE DEF Via, candidates
    <3> QED
      BY <2>1, GroupsAreNamed
  <2> QED
    BY <1>4, <2>2
<1> QED
    BY <1>3, <1>4, <1>5, <1>6, <1>7, <1>8 DEF Found

(* The members of a sequence, or of another finite function, are finitely many. *)
LEMMA MembersFinite ==
    ASSUME NEW f, IsFiniteSet(DOMAIN f)
    PROVE  IsFiniteSet(ToSet(f))
<1> DEFINE g == [x \in DOMAIN f |-> f[x]]
<1>1. g \in Surjection(DOMAIN f, ToSet(f))
    BY DEF Surjection, ToSet
<1> HIDE DEF g
<1> QED
    BY <1>1, FS_Surjection

(* The filters of a command line are those of what its selectors find.      *)
LEMMA FiltersAre ==
    ASSUME NEW d, IsFiniteSet(DOMAIN d.resources), NEW sels \in Seq(Selectors),
           NEW preferred \in BOOLEAN, NEW fs, fs = MakeFilters(d, sels, preferred)
    PROVE  /\ DOMAIN fs = 1..Len(fs) /\ Len(fs) \in Nat
           /\ \A f \in ToSet(fs) : \E i \in DOMAIN sels :
                 \E r \in LookupFor(d, sels[i], preferred) : f = Filter(r, sels[i].uids)
           /\ \A i \in DOMAIN sels : \A r \in LookupFor(d, sels[i], preferred) :
                 Filter(r, sels[i].uids) \in ToSet(fs)
<1> DEFINE Of(i) == {Filter(r, sels[i].uids) : r \in LookupFor(d, sels[i], preferred)}
           ss == [i \in DOMAIN sels |-> SetToSeq(Of(i))]
           T == UNION {Of(i) : i \in DOMAIN sels}
<1>1. ASSUME NEW i \in DOMAIN sels PROVE IsFiniteSet(Of(i))
  <2> DEFINE L == LookupFor(d, sels[i], preferred)
             g == [r \in L |-> Filter(r, sels[i].uids)]
  <2>1. L \subseteq ToSet(d.resources)
    BY LookupFinds DEF Found
  <2>2. IsFiniteSet(L)
    BY <2>1, MembersFinite, FS_Subset
  <2>3. g \in Surjection(L, Of(i))
    BY DEF Surjection
  <2> HIDE DEF L, g
  <2>4. IsFiniteSet(Of(i))
    BY <2>2, <2>3, FS_Surjection
  <2> QED
    BY <2>4
<1>2. ASSUME NEW i \in DOMAIN sels
      PROVE  ss[i] \in Seq(T) /\ ToSet(ss[i]) = Of(i)
  <2> DEFINE O == Of(i)
  <2>1. O \subseteq T /\ IsFiniteSet(O) /\ ss[i] = SetToSeq(O)
    BY <1>1
  <2> HIDE DEF O, T
  <2>2. SetToSeq(O) \in Seq(O) /\ ToSet(SetToSeq(O)) = O
    BY <2>1, SetToSeqIs
  <2>3. SetToSeq(O) \in Seq(T)
    BY <2>1, <2>2
  <2>4. ss[i] \in Seq(T) /\ ToSet(ss[i]) = O
    BY <2>1, <2>2, <2>3
  <2> QED
    BY <2>4 DEF O
<1>3. DOMAIN sels = 1..Len(sels) /\ Len(sels) \in Nat
    BY LenProperties
<1>4. ss \in Seq(Seq(T)) /\ DOMAIN ss = DOMAIN sels
  <2>1. DOMAIN ss = DOMAIN sels
    OBVIOUS
  <2> HIDE DEF ss, T
  <2>2. ss \in [1..Len(sels) -> Seq(T)]
    BY <1>2, <1>3, <2>1 DEF ss
  <2> QED
    BY <1>3, <2>1, <2>2, SeqDef
<1>5. fs = FlattenSeq(ss)
    BY DEF MakeFilters
<1>6. fs \in Seq(T) /\ ToSet(fs) = UNION {ToSet(ss[i]) : i \in DOMAIN ss}
  <2> HIDE DEF ss, T
  <2> QED
    BY <1>4, <1>5, FlattenSeqIs
<1>7. DOMAIN fs = 1..Len(fs) /\ Len(fs) \in Nat
  <2> HIDE DEF T
  <2> QED
    BY <1>6, LenProperties
<1>8. \A f : f \in ToSet(fs) <=> \E i \in DOMAIN sels : f \in Of(i)
  <2> HIDE DEF ss, T, Of
  <2> QED
    BY <1>2, <1>4, <1>6
<1> HIDE DEF ss, T
<1> QED
    BY <1>7, <1>8

-----------------------------------------------------------------------------
(* The invariant of pull, delete, get and edit                              *)

(* What the command was given has not changed since.                        *)
CaseInv ==
    \/ command = NoPush /\ pc \in {"push", "done"}
    \/ IsCase([disc |-> disc, files |-> tree, command |-> command])

(* The filter f is one of what s asks for.                                  *)
Asks(s, f) ==
    /\ f.uids = s.uids
    /\ \E r \in ToSet(disc.resources) : r.group = f.group /\ r.kind = f.kind /\ Names(disc, s, r)

(* What the arguments of a delete let it remove.                            *)
Deletable(o) ==
    /\ command.name = "delete"
    /\ IF command.args = <<>> THEN command.force /\ command.path
       ELSE \E s \in ToSet(command.args) : Means(s, o) /\ (s.uids # {} \/ command.force)
    /\ command.path => \E p \in DOMAIN tree : tree[p] # Cut /\ Object(tree[p]) = o

(* The goroutine of a filter fetches only what its filter asks for.         *)
Fits(f, name) == f.uids = {} \/ name \in f.uids
FetchInv ==
    /\ DOMAIN fetch \subseteq DOMAIN filters
    /\ \A k \in DOMAIN fetch :
          /\ fetch[k] = [todo |-> fetch[k].todo, again |-> fetch[k].again, items |-> fetch[k].items,
                         round |-> fetch[k].round, state |-> fetch[k].state]
          /\ \A t \in fetch[k].todo \cup fetch[k].again : Fits(filters[k], t.name)
          /\ \A i \in fetch[k].items :
                /\ "kind" \in DOMAIN i
                /\ i.group = filters[k].group /\ i.kind = filters[k].kind /\ Fits(filters[k], i.name)
          /\ fetch[k].state = "list" => filters[k].uids = {}

(* From the selectors of a delete to what it removes, each step has only    *)
(* what the one before it had.                                              *)
AskedInv ==
    command.name = "delete" =>
        /\ pc \in {"fetch", "read", "delete"} => Accepted
        /\ \A k \in DOMAIN filters : \E s \in ToSet(command.args) : Asks(s, filters[k])
        /\ pc = "read" => command.path /\ (command.args # <<>> => filters # <<>>)
        /\ pc = "fetch" => ~command.path
        /\ \A i \in collection : Deletable(Object(i))
        /\ \A o \in removed : Deletable(o) /\ ~command.dryRun

(* Files are written by a pull that has fetched what it must, one at a time.*)
FilesInv ==
    /\ pc \in {"parse", "fetch", "read", "delete", "print", "editor"} => files = tree
    /\ (pc = "write" => command.name = "pull") /\ (pc = "editor" => command.name = "edit")
    /\ pc \in {"read", "delete"} \/ removed # {} => command.name = "delete"
    /\ command.name = "delete" => files = tree
    /\ \A i \in DOMAIN fetch : fetch[i].state = "failed" /\ FetchStops =>
          aborted /\ files = tree /\ pc \in {"fetch", "done"}
    /\ writing # Nobody =>
          /\ pc = "write" \/ (pc = "done" /\ exit = "killed")
          /\ "kind" \in DOMAIN writing
    /\ \A p \in DOMAIN files : files[p] = Cut =>
          \/ p \in DOMAIN tree /\ tree[p] = Cut
          \/ \E i \in lost : Path(i) = p
          \/ exit = "killed"
          \/ pc = "write" /\ writing # Nobody /\ Path(writing) = p
    /\ pc \in {"parse", "fetch", "read"} => collection = {} /\ removed = {}
    /\ command.name \in {"pull", "edit"} => \A i \in collection : "kind" \in DOMAIN i
    /\ pc = "parse" => fetch = <<>>
    /\ exit = "2" => pc \in {"done", "push"} /\ files = tree /\ removed = {} /\ collection = {}
    /\ pc \notin {"done", "push"} => exit = "none"
    /\ IsFiniteSet(inflight) /\ IsFiniteSet(DOMAIN files)

PullDeleteIInv == CaseInv /\ TypeOK /\ FetchInv /\ AskedInv /\ FilesInv

(* Nothing of the invariant depends on what the server holds.               *)
LEMMA SameState ==
    ASSUME PullDeleteIInv,
           UNCHANGED <<input, files, pc, fetching, aborted, collection, batch, exit, removed, lost, tree>>
    PROVE  PullDeleteIInv'
<1> USE DEF input, fetching, batch
<1>1. CaseInv'
    BY DEF PullDeleteIInv, CaseInv
<1>2. TypeOK'
    BY DEF PullDeleteIInv, TypeOK
<1>3. FetchInv'
    BY DEF PullDeleteIInv, FetchInv, Fits
<1>4. AskedInv'
    BY DEF PullDeleteIInv, AskedInv, Accepted, Asks, Deletable, Means
<1>5. FilesInv'
    BY DEF PullDeleteIInv, FilesInv, FetchStops, StopOnError
<1> QED
    BY <1>1, <1>2, <1>3, <1>4, <1>5 DEF PullDeleteIInv

(* A command that ends says 2 only of a session that is dead or unbound, and*)
(* ends a file half written only when it is killed.                         *)
LEMMA EndStays ==
    ASSUME PullDeleteIInv, pc # "push",
           UNCHANGED <<input, files, fetching, aborted, collection, batch, removed, lost, tree>>,
           pc' = "done", exit' \in {"0", "1", "2", "killed"},
           exit' = "2" => pc \in {"parse", "fetch"},
           writing # Nobody => exit' = "killed", exit # "killed"
    PROVE  PullDeleteIInv'
<1> USE DEF input, fetching, batch
<1>1. CaseInv'
    BY DEF PullDeleteIInv, CaseInv
<1>2. TypeOK'
    BY DEF PullDeleteIInv, TypeOK
<1>3. FetchInv'
    BY DEF PullDeleteIInv, FetchInv, Fits
<1>4. AskedInv'
    BY DEF PullDeleteIInv, AskedInv, Accepted, Asks, Deletable, Means
<1>5. FilesInv'
    BY DEF PullDeleteIInv, FilesInv, FetchStops, StopOnError
<1> QED
    BY <1>1, <1>2, <1>3, <1>4, <1>5 DEF PullDeleteIInv

LEMMA Statuses == \A error : E!ExitStatus(error) \in {"1", "2"}
    BY DEF E!ExitStatus

(* The steps that only end a command.                                       *)
LEMMA EndsStay ==
    ASSUME PullDeleteIInv,
           \/ Refuse \/ DiscoveryFails \/ FetchAborted \/ Unwritable \/ Report
           \/ EditorFails \/ EditCancelled \/ Killed
    PROVE  PullDeleteIInv'
<1> USE DEF input, fetching, batch, history, bounds, Ends, Fault, PullDeleteIInv
<1>1. pc \notin {"done", "push"} => exit = "none"
    BY DEF FilesInv
<1>2. writing # Nobody => pc \in {"write", "done"}
    BY DEF FilesInv
<1>3. CASE Refuse
    BY <1>1, <1>2, <1>3, EndStays DEF Refuse
<1>4. CASE DiscoveryFails
    BY <1>1, <1>2, <1>4, EndStays, Statuses DEF DiscoveryFails
<1>5. CASE FetchAborted
    BY <1>1, <1>2, <1>5, EndStays, Statuses DEF FetchAborted
<1>6. CASE Unwritable
    BY <1>1, <1>6, EndStays DEF Unwritable
<1>7. CASE Report
    BY <1>1, <1>7, EndStays DEF Report, Status
<1>8. CASE EditorFails
    BY <1>1, <1>2, <1>8, EndStays DEF EditorFails
<1>9. CASE EditCancelled
    BY <1>1, <1>2, <1>9, EndStays DEF EditCancelled
<1>10. CASE Killed
    BY <1>1, <1>10, EndStays DEF Killed
<1> QED
    BY <1>3, <1>4, <1>5, <1>6, <1>7, <1>8, <1>9, <1>10

(* What a goroutine may make of its state.                                  *)
Fetching(f, e) ==
    /\ e = [todo |-> e.todo, again |-> e.again, items |-> e.items, round |-> e.round,
            state |-> e.state]
    /\ \A t \in e.todo \cup e.again : Fits(f, t.name)
    /\ \A i \in e.items :
          "kind" \in DOMAIN i /\ i.group = f.group /\ i.kind = f.kind /\ Fits(f, i.name)
    /\ e.state = "list" => f.uids = {}

LEMMA FetchingStays ==
    ASSUME PullDeleteIInv, pc = "fetch", NEW i \in DOMAIN fetch, NEW e,
           fetch' = [fetch EXCEPT ![i] = e], Fetching(filters[i], e),
           e.state = "failed" /\ FetchStops => aborted', aborted => aborted',
           UNCHANGED <<input, files, pc, filters, collection, batch, exit, removed, lost, tree>>
    PROVE  PullDeleteIInv'
<1> USE DEF input, batch
<1>0. DOMAIN fetch' = DOMAIN fetch /\ \A k \in DOMAIN fetch : fetch'[k] = IF k = i THEN e ELSE fetch[k]
    OBVIOUS
<1>1. CaseInv'
    BY DEF PullDeleteIInv, CaseInv
<1>2. TypeOK'
    BY DEF PullDeleteIInv, TypeOK
<1>3. FetchInv'
  <2>1. DOMAIN fetch' \subseteq DOMAIN filters'
    BY <1>0 DEF PullDeleteIInv, FetchInv
  <2>2. ASSUME NEW k \in DOMAIN fetch PROVE Fetching(filters[k], fetch'[k])
    <3>1. Fetching(filters[k], fetch[k])
      BY DEF PullDeleteIInv, FetchInv, Fetching
    <3> QED
      BY <1>0, <3>1
  <2>3. \A k \in DOMAIN fetch' : Fetching(filters'[k], fetch'[k])
    BY <1>0, <2>2
  <2>4. FetchInv' <=> /\ DOMAIN fetch' \subseteq DOMAIN filters'
                     /\ \A k \in DOMAIN fetch' : Fetching(filters'[k], fetch'[k])
    BY DEF FetchInv, Fetching, Fits
  <2> QED
    BY <2>1, <2>3, <2>4
<1>4. AskedInv'
    BY DEF PullDeleteIInv, AskedInv, Accepted, Asks, Deletable, Means
<1>5. FilesInv'
  <2>1. \A k \in DOMAIN fetch' : fetch'[k].state = "failed" /\ FetchStops' => aborted'
    BY <1>0 DEF PullDeleteIInv, FilesInv, FetchStops, StopOnError
  <2>2. files' = tree' /\ files = tree
    BY DEF PullDeleteIInv, FilesInv
  <2> QED
    BY <2>1, <2>2 DEF PullDeleteIInv, FilesInv
<1> QED
    BY <1>1, <1>2, <1>3, <1>4, <1>5 DEF PullDeleteIInv

LEMMA FetchersStay ==
    ASSUME PullDeleteIInv, NEW i \in DOMAIN fetch,
           List(i) \/ Get(i) \/ NextRound(i) \/ FetchFails(i)
    PROVE  PullDeleteIInv'
<1> DEFINE f == filters[i]
           e == fetch[i]
<1>0. Fetching(f, e)
    BY DEF PullDeleteIInv, FetchInv, Fetching
<1> USE DEF history, bounds, input, batch
<1>1. CASE List(i)
  <2> DEFINE new == [todo |-> {}, round |-> 1, state |-> "get",
          items |-> {Item(o, filters[i].version) : o \in
                       {p \in Listed(filters[i]) : remote[p].stored = ""}},
          again |-> {[name |-> o[3], version |-> remote[o].stored] : o \in
                       {p \in Listed(filters[i]) : remote[p].stored # ""}}]
  <2>1. fetch' = [fetch EXCEPT ![i] = new] /\ pc = "fetch" /\ e.state = "list"
    BY <1>1 DEF List
  <2>2. f.uids = {}
    BY <1>0, <2>1 DEF Fetching
  <2>3. Fetching(f, new)
    <3>1. ASSUME NEW x \in new.items
          PROVE  "kind" \in DOMAIN x /\ x.group = f.group /\ x.kind = f.kind
      <4>1. PICK o \in Listed(f) : x = Item(o, f.version)
        OBVIOUS
      <4> QED
        BY <4>1 DEF Item, Listed
    <3> QED
      BY <2>2, <3>1 DEF Fetching, Fits
  <2> HIDE DEF new
  <2>4. new.state = "get"
    BY DEF new
  <2> QED
    BY <1>1, <2>1, <2>3, <2>4, FetchingStays DEF List
<1>2. CASE Get(i)
  <2> DEFINE Enough(t) == e.round = 2 \/ remote[Target(i, t)].stored = ""
             After(t) == [e EXCEPT
                 !.todo = @ \ {t},
                 !.again = IF Enough(t) THEN @
                           ELSE @ \cup {[name |-> t.name, version |-> remote[Target(i, t)].stored]},
                 !.items = IF Enough(t) THEN @ \cup {Item(Target(i, t), t.version)} ELSE @]
  <2>1. PICK t \in e.todo : fetch' = [fetch EXCEPT ![i] = After(t)]
    BY <1>2 DEF Get
  <2> DEFINE new == After(t)
  <2>2. fetch' = [fetch EXCEPT ![i] = new]
    BY <2>1
  <2>3. Fits(f, t.name)
    BY <1>0 DEF Fetching
  <2> DEFINE item == Item(Target(i, t), t.version)
  <2>4. "kind" \in DOMAIN item /\ item.group = f.group /\ item.kind = f.kind /\ item.name = t.name
    BY DEF Item, Target
  <2>5. /\ new = [todo |-> new.todo, again |-> new.again, items |-> new.items,
                 round |-> new.round, state |-> new.state]
        /\ new.todo \subseteq e.todo /\ new.items \subseteq e.items \cup {item}
        /\ new.again \subseteq e.again \cup {[name |-> t.name, version |-> remote[Target(i, t)].stored]}
        /\ new.state = e.state
    <3> DEFINE again == IF Enough(t) THEN e.again
                        ELSE e.again \cup {[name |-> t.name, version |-> remote[Target(i, t)].stored]}
               items == IF Enough(t) THEN e.items \cup {item} ELSE e.items
    <3>1. e = [todo |-> e.todo, again |-> e.again, items |-> e.items, round |-> e.round, state |-> e.state]
      BY <1>0 DEF Fetching
    <3>2. new = [e EXCEPT !.todo = @ \ {t}, !.again = again, !.items = items]
      OBVIOUS
    <3>3. again \subseteq e.again \cup {[name |-> t.name, version |-> remote[Target(i, t)].stored]}
      OBVIOUS
    <3>4. items \subseteq e.items \cup {item}
      OBVIOUS
    <3> HIDE DEF again, items, item, new
    <3>5. new = [todo |-> e.todo \ {t}, again |-> again, items |-> items, round |-> e.round, state |-> e.state]
      BY <3>1, <3>2
    <3> QED
      BY <3>3, <3>4, <3>5
  <2>6. new.state = "get" /\ pc = "fetch"
    BY <1>2, <2>5 DEF Get
  <2> HIDE DEF item
  <2>7. Fetching(f, new)
    <3> HIDE DEF new
    <3> QED
      BY <1>0, <2>3, <2>4, <2>5 DEF Fetching
  <2> HIDE DEF new
  <2> QED
    BY <1>2, <2>2, <2>6, <2>7, FetchingStays DEF Get
<1>3. CASE NextRound(i)
  <2> DEFINE new == IF e.again = {} THEN [e EXCEPT !.state = "done"]
                    ELSE [e EXCEPT !.todo = e.again, !.again = {}, !.round = 2]
  <2>1. fetch' = [fetch EXCEPT ![i] = new] /\ pc = "fetch"
    BY <1>3 DEF NextRound
  <2>2. Fetching(f, new)
    BY <1>0 DEF Fetching
  <2>3. new.state # "failed"
    BY <1>0, <1>3 DEF Fetching, NextRound
  <2> HIDE DEF new
  <2> QED
    BY <1>3, <2>1, <2>2, <2>3, FetchingStays DEF NextRound
<1>4. CASE FetchFails(i)
  <2> DEFINE new == [e EXCEPT !.state = "failed"]
  <2>1. fetch' = [fetch EXCEPT ![i] = new] /\ pc = "fetch"
    BY <1>4 DEF FetchFails
  <2>2. Fetching(f, new)
    BY <1>0 DEF Fetching
  <2>3. (FetchStops => aborted') /\ (aborted => aborted')
    BY <1>4 DEF FetchFails, FetchError
  <2> HIDE DEF new
  <2> QED
    BY <1>4, <2>1, <2>2, <2>3, FetchingStays DEF FetchFails
<1> QED
    BY <1>1, <1>2, <1>3, <1>4

(* The index of a discovery has what the discovery has.                     *)
LEMMA IndexIs ==
    ASSUME IsCase([disc |-> disc, files |-> tree, command |-> command])
    PROVE  /\ IsFiniteSet(DOMAIN Index.resources)
           /\ \A r \in ToSet(Index.resources) : r \in ToSet(disc.resources) /\ r.usable
           /\ ToSet(Index.groups) \subseteq ToSet(disc.groups)
<1>1. disc.resources \in Seq(ResourceTypes)
    BY DEF IsCase
<1>2. DOMAIN disc.resources = 1..Len(disc.resources) /\ Len(disc.resources) \in Nat
    BY <1>1, LenProperties
<1>3. IsFiniteSet(DOMAIN disc.resources)
    BY <1>2, FS_Interval
<1>4. DOMAIN Index.resources \in SUBSET DOMAIN disc.resources
    BY DEF Index, FilterDiscoveryResults, Restrict
<1>5. \A r \in ToSet(Index.resources) : r \in ToSet(disc.resources) /\ r.usable
    BY DEF Index, FilterDiscoveryResults, Restrict, ToSet
<1>6. ToSet(Index.groups) \subseteq ToSet(disc.groups)
    BY DEF Index, FilterDiscoveryResults, Restrict, ToSet
<1> QED
    BY <1>3, <1>4, <1>5, <1>6, FS_Subset

(* Every filter of a command line is what one of its selectors asks for, and*)
(* each selector has one.                                                   *)
LEMMA FiltersAreAsked ==
    ASSUME IsCase([disc |-> disc, files |-> tree, command |-> command]),
           NEW preferred \in BOOLEAN, NEW fs, fs = MakeFilters(Index, command.args, preferred)
    PROVE  /\ \A k \in DOMAIN fs : \E s \in ToSet(command.args) : Asks(s, fs[k])
           /\ command.args # <<>> /\ ~NothingSupported(Index, command.args, preferred) => fs # <<>>
<1>1. command.args \in Seq(Selectors)
    BY DEF IsCase
<1> DEFINE args == command.args
<1>2. /\ DOMAIN fs = 1..Len(fs)
      /\ \A f \in ToSet(fs) : \E i \in DOMAIN args :
            \E r \in LookupFor(Index, args[i], preferred) : f = Filter(r, args[i].uids)
      /\ \A i \in DOMAIN args : \A r \in LookupFor(Index, args[i], preferred) :
            Filter(r, args[i].uids) \in ToSet(fs)
  <2>1. PICK d : d = Index
    OBVIOUS
  <2>2. PICK sels : sels = command.args
    OBVIOUS
  <2>3. IsFiniteSet(DOMAIN d.resources) /\ sels \in Seq(Selectors) /\ fs = MakeFilters(d, sels, preferred)
    BY <1>1, <2>1, <2>2, IndexIs
  <2>4. /\ DOMAIN fs = 1..Len(fs)
        /\ \A f \in ToSet(fs) : \E i \in DOMAIN sels :
              \E r \in LookupFor(d, sels[i], preferred) : f = Filter(r, sels[i].uids)
        /\ \A i \in DOMAIN sels : \A r \in LookupFor(d, sels[i], preferred) :
              Filter(r, sels[i].uids) \in ToSet(fs)
    BY <2>3, FiltersAre
  <2> QED
    BY <2>1, <2>2, <2>4
<1>3. ASSUME NEW k \in DOMAIN fs PROVE \E s \in ToSet(args) : Asks(s, fs[k])
  <2>1. PICK i \in DOMAIN args : \E r \in LookupFor(Index, args[i], preferred) :
            fs[k] = Filter(r, args[i].uids)
    BY <1>2 DEF ToSet
  <2> DEFINE s == args[i]
  <2>2. PICK r \in LookupFor(Index, s, preferred) : fs[k] = Filter(r, s.uids)
    BY <2>1
  <2>3. /\ r \in ToSet(Index.resources)
        /\ s.version \in {"", r.version}
        /\ s.group # "" => \E h \in ToSet(Index.groups) : h.name = r.group /\ s.group \in {h.name, h.short}
        /\ \E c \in ToSet(Index.resources) :
              /\ c.group = r.group /\ c.kind = r.kind
              /\ s.resource \in {c.kind, c.singular, c.plural}
    <3> HIDE DEF s
    <3>1. PICK d : d = Index
      OBVIOUS
    <3>2. PICK q : q = s
      OBVIOUS
    <3>3. r \in LookupFor(d, q, preferred)
      BY <2>2, <3>1, <3>2
    <3>4. Found(d, q, r)
      BY <3>3, LookupFinds
    <3> QED
      BY <3>1, <3>2, <3>4 DEF Found
  <2>4. PICK c \in ToSet(Index.resources) :
              /\ c.group = r.group /\ c.kind = r.kind
              /\ s.resource \in {c.kind, c.singular, c.plural}
    BY <2>3
  <2>5. /\ r \in ToSet(disc.resources) /\ r.usable
        /\ c \in ToSet(disc.resources) /\ c.usable
    BY <2>3, IndexIs
  <2>6. r.singular = c.singular /\ r.plural = c.plural
    BY <2>4, <2>5 DEF IsCase
  <2>7. Names(disc, s, r)
    <3> HIDE DEF s
    <3> QED
      BY <2>3, <2>4, <2>6, IndexIs DEF Names
  <2>8. Asks(s, fs[k])
    <3> HIDE DEF s
    <3> QED
      BY <2>2, <2>5, <2>7 DEF Asks, Filter
  <2> QED
    BY <2>8 DEF ToSet
<1>4. ASSUME args # <<>>, ~NothingSupported(Index, args, preferred) PROVE fs # <<>>
  <2>1. 1 \in DOMAIN args
    BY <1>1, <1>4, LenProperties, EmptySeq
  <2>2. PICK r : r \in LookupFor(Index, args[1], preferred)
    BY <1>4, <2>1 DEF NothingSupported, ToSet
  <2>3. ToSet(fs) # {}
    BY <1>2, <2>1, <2>2
  <2> QED
    BY <2>3 DEF ToSet
<1> QED
    BY <1>3, <1>4

LEMMA DiscoverStays ==
    ASSUME PullDeleteIInv, Discover
    PROVE  PullDeleteIInv'
<1> USE DEF Discover, history, bounds, input, batch
<1>0. IsCase([disc |-> disc, files |-> tree, command |-> command])
    BY DEF PullDeleteIInv, CaseInv
<1>1. CaseInv'
    BY <1>0 DEF CaseInv
<1>2. TypeOK'
    BY DEF PullDeleteIInv, TypeOK
<1>3. fetch = <<>> /\ DOMAIN fetch = {}
    BY DEF PullDeleteIInv, FilesInv
<1>4. FetchInv'
  <2>1. CASE command.path
    BY <1>3, <2>1 DEF FetchInv
  <2>2. CASE ~command.path
    <3>1. DOMAIN fetch' = DOMAIN filters' /\ \A k \in DOMAIN filters' : fetch'[k] = Begun(filters'[k])
      BY <2>2
    <3>2. \A f : Fetching(f, Begun(f))
      BY DEF Fetching, Begun, Fits
    <3>3. \A k \in DOMAIN fetch' : Fetching(filters'[k], fetch'[k])
      BY <3>1, <3>2
    <3> QED
      BY <3>1, <3>3 DEF FetchInv, Fetching, Fits
  <2> QED
    BY <2>1, <2>2
<1>5. AskedInv'
  <2> SUFFICES ASSUME command.name = "delete" PROVE AskedInv'
    BY DEF AskedInv
  <2>1. CASE command.path
    <3>1. filters' = MakeFilters(Index, command.args, FALSE) /\ pc' = "read"
      BY <2>1
    <3>2. /\ \A k \in DOMAIN filters' : \E s \in ToSet(command.args) : Asks(s, filters'[k])
          /\ command.args # <<>> => filters' # <<>>
      BY <1>0, <2>1, <3>1, FiltersAreAsked
    <3> QED
      BY <2>1, <3>1, <3>2 DEF PullDeleteIInv, FilesInv, AskedInv, Asks, Accepted
  <2>2. CASE ~command.path
    <3>1. command.args # <<>>
      BY <2>2 DEF Accepted
    <3>2. filters' = MakeFilters(Index, command.args, TRUE) /\ pc' = "fetch"
      BY <2>2, <3>1 DEF PullFilters
    <3>3. \A k \in DOMAIN filters' : \E s \in ToSet(command.args) : Asks(s, filters'[k])
      BY <1>0, <3>2, FiltersAreAsked
    <3> QED
      BY <2>2, <3>2, <3>3 DEF PullDeleteIInv, FilesInv, AskedInv, Asks, Accepted
  <2> QED
    BY <2>1, <2>2
<1>6. FilesInv'
  <2>1. \A k \in DOMAIN fetch' : fetch'[k].state # "failed"
    <3>1. ASSUME ~command.path, NEW k \in DOMAIN fetch' PROVE fetch'[k].state # "failed"
      <4>1. fetch'[k] = Begun(filters'[k])
        BY <3>1
      <4> QED
        BY <4>1 DEF Begun
    <3>2. command.path => fetch' = fetch
      OBVIOUS
    <3> QED
      BY <1>3, <3>1, <3>2
  <2>2. pc' = "read" => command.name = "delete"
    BY <1>0 DEF IsCase
  <2>3. pc' \in {"read", "fetch"}
    OBVIOUS
  <2> QED
    BY <2>1, <2>2, <2>3 DEF PullDeleteIInv, FilesInv
<1> QED
    BY <1>1, <1>2, <1>4, <1>5, <1>6 DEF PullDeleteIInv

(* What a filter that s asks for matches is what s means.                   *)
LEMMA AsksMeans ==
    ASSUME NEW s, NEW f, Asks(s, f), NEW o,
           o[1] = f.group, o[2] = f.kind, Fits(f, o[3])
    PROVE  Means(s, o)
    BY DEF Asks, Means, Fits

LEMMA CollectStays ==
    ASSUME PullDeleteIInv, Collect
    PROVE  PullDeleteIInv'
<1> USE DEF Collect, history, bounds, input, fetching
<1>0. IsCase([disc |-> disc, files |-> tree, command |-> command])
    BY DEF PullDeleteIInv, CaseInv
<1>1. CaseInv'
    BY <1>0 DEF CaseInv
<1>2. collection = {} /\ removed = {} /\ todo = {} /\ inflight = {} /\ writing = Nobody /\ files = tree /\ exit = "none"
    BY DEF PullDeleteIInv, FilesInv, TypeOK
<1>3. command.name \in {"pull", "delete", "get", "edit"}
    BY <1>0 DEF IsCase
<1>4. /\ todo' \subseteq collection' /\ collection' \subseteq {Stripped(i) : i \in Kept}
      /\ \/ pc' = "done" /\ exit' = "1"
         \/ exit' = exit /\ \/ command.name = "pull" /\ pc' = "write"
                            \/ command.name = "delete" /\ pc' = "delete"
                            \/ command.name = "get" /\ pc' = "print"
                            \/ command.name = "edit" /\ pc' = "editor"
    BY <1>2, <1>3 DEF Proceed, Batch, Ends
<1>5. TypeOK'
    BY <1>2, <1>4 DEF PullDeleteIInv, TypeOK
<1>6. FetchInv'
    BY DEF PullDeleteIInv, FetchInv, Fits
<1>7. ASSUME NEW i \in Kept
      PROVE  \E k \in DOMAIN fetch : i \in fetch[k].items
    BY DEF Kept, Gathered, Fetched
<1>8. AskedInv'
  <2> SUFFICES ASSUME command.name = "delete" PROVE AskedInv'
    BY DEF AskedInv
  <2>1. /\ Accepted /\ ~command.path
        /\ \A k \in DOMAIN filters : \E s \in ToSet(command.args) : Asks(s, filters[k])
    BY DEF PullDeleteIInv, AskedInv
  <2>2. ASSUME NEW i \in Kept PROVE Deletable(Object(i)) /\ Stripped(i) = i
    <3>1. PICK k \in DOMAIN fetch : i \in fetch[k].items
      BY <1>7
    <3>2. k \in DOMAIN filters /\ i.group = filters[k].group /\ i.kind = filters[k].kind /\ Fits(filters[k], i.name)
      BY <3>1 DEF PullDeleteIInv, FetchInv
    <3>3. PICK s \in ToSet(command.args) : Asks(s, filters[k])
      BY <2>1, <3>2
    <3>4. Means(s, Object(i))
      BY <3>2, <3>3, AsksMeans DEF Object
    <3>5. s.uids # {} \/ command.force
      BY <2>1 DEF Accepted, HasNamedSelectorsOnly
    <3>6. command.args # <<>>
      BY <2>1 DEF Accepted
    <3> QED
      BY <2>1, <3>4, <3>5, <3>6 DEF Deletable, Stripped
  <2>3. \A i \in collection' : Deletable(Object(i))
    BY <1>4, <2>2
  <2>4. pc' \in {"delete", "done"}
    BY <1>4
  <2> QED
    BY <1>2, <2>1, <2>3, <2>4 DEF AskedInv, Accepted, Deletable, Means, Asks
<1>9. FilesInv'
  <2>1. \A k \in DOMAIN fetch : ~(fetch[k].state = "failed" /\ FetchStops)
    BY DEF PullDeleteIInv, FilesInv
  <2>2. ASSUME NEW i \in collection' PROVE "kind" \in DOMAIN i
    <3>1. PICK j \in Kept : i = Stripped(j)
      BY <1>4
    <3>2. "kind" \in DOMAIN j
      BY <1>7 DEF PullDeleteIInv, FetchInv
    <3> QED
      BY <3>1, <3>2 DEF Stripped
  <2> QED
    BY <1>2, <1>4, <2>1, <2>2 DEF PullDeleteIInv, FilesInv, FetchStops, StopOnError
<1> QED
    BY <1>1, <1>5, <1>6, <1>8, <1>9 DEF PullDeleteIInv

(* What a delete reads from a directory is what it may delete.              *)
LEMMA ReadStays ==
    ASSUME PullDeleteIInv, Read
    PROVE  PullDeleteIInv'
<1> USE DEF Read, history, bounds, input, fetching
<1>0. IsCase([disc |-> disc, files |-> tree, command |-> command])
    BY DEF PullDeleteIInv, CaseInv
<1>1. CaseInv'
    BY <1>0 DEF CaseInv
<1>2. /\ collection = {} /\ removed = {} /\ todo = {} /\ inflight = {} /\ writing = Nobody
      /\ files = tree /\ exit = "none" /\ command.name = "delete"
    BY DEF PullDeleteIInv, FilesInv, TypeOK
<1>3. /\ \/ pc' = "done" /\ exit' = "1"
         \/ pc' = "delete" /\ exit' = exit
      /\ todo' \subseteq collection'
      /\ collection' \subseteq {files[p] : p \in {q \in DOMAIN files : files[q] # Cut /\ MatchesAny(filters, files[q])}}
    BY <1>2 DEF Ends
<1>4. TypeOK'
    BY <1>2, <1>3 DEF PullDeleteIInv, TypeOK
<1>5. FetchInv'
    BY DEF PullDeleteIInv, FetchInv, Fits
<1>6. AskedInv'
  <2>1. /\ Accepted /\ command.path
        /\ \A k \in DOMAIN filters : \E s \in ToSet(command.args) : Asks(s, filters[k])
        /\ command.args # <<>> => filters # <<>>
    BY <1>2 DEF PullDeleteIInv, AskedInv
  <2>2. ASSUME NEW p \in DOMAIN files, files[p] # Cut, MatchesAny(filters, files[p])
        PROVE  Deletable(Object(files[p]))
    <3> DEFINE i == files[p]
    <3>1. ASSUME command.args # <<>>
          PROVE  \E s \in ToSet(command.args) : Means(s, Object(i)) /\ (s.uids # {} \/ command.force)
      <4>1. PICK k \in DOMAIN filters : Matches(filters[k], i)
        BY <2>1, <2>2, <3>1 DEF MatchesAny, ToSet
      <4>2. PICK s \in ToSet(command.args) : Asks(s, filters[k])
        BY <2>1
      <4>3. Means(s, Object(i))
        BY <4>1, <4>2, AsksMeans DEF Object, Matches, Fits
      <4>4. s.uids # {} \/ command.force
        BY <2>1, <1>2 DEF Accepted, HasNamedSelectorsOnly
      <4> QED
        BY <4>3, <4>4
    <3>2. command.args = <<>> => command.force
      BY <1>2, <2>1 DEF Accepted, HasNamedSelectorsOnly
    <3> QED
      BY <1>2, <2>1, <2>2, <3>1, <3>2 DEF Deletable
  <2>3. \A i \in collection' : Deletable(Object(i))
    BY <1>3, <2>2
  <2> QED
    BY <1>2, <1>3, <2>1, <2>3 DEF AskedInv, Accepted, Deletable, Means, Asks
<1>7. FilesInv'
    BY <1>2, <1>3 DEF PullDeleteIInv, FilesInv, FetchStops, StopOnError
<1> QED
    BY <1>1, <1>4, <1>5, <1>6, <1>7 DEF PullDeleteIInv

(* Open and Encode write what was collected, into its own file.             *)
LEMMA WritersStay ==
    ASSUME PullDeleteIInv, Open \/ Encode
    PROVE  PullDeleteIInv'
<1> USE DEF history, bounds, input, fetching, WriteFails, Ends
<1>0. /\ pc = "write" /\ command.name = "pull" /\ exit = "none"
      /\ pc' \in {"write", "done"} /\ (pc' = "done" => exit' = "1") /\ (pc' = "write" => exit' = "none")
      /\ UNCHANGED <<disc, command, tree, filters, fetch, aborted, collection, inflight, removed>>
    BY DEF PullDeleteIInv, FilesInv, Open, Encode
<1>1. IsCase([disc |-> disc, files |-> tree, command |-> command])
    BY <1>0 DEF PullDeleteIInv, CaseInv, NoPush
<1>2. CaseInv'
    BY <1>0, <1>1 DEF CaseInv
<1>3. FetchInv'
    BY <1>0 DEF PullDeleteIInv, FetchInv, Fits
<1>4. AskedInv'
    BY <1>0 DEF AskedInv
<1>5. \A i \in collection : "kind" \in DOMAIN i
    BY <1>0 DEF PullDeleteIInv, FilesInv
<1>6. \A i : "kind" \in DOMAIN i => i # Cut /\ i # Nobody
    BY DEF Cut, Nobody
<1>7. \A p \in DOMAIN files : files[p] = Cut \/ Path(files[p]) = p
    BY DEF PullDeleteIInv, TypeOK
<1>8. /\ \A p \in DOMAIN files' : files'[p] = Cut \/ Path(files'[p]) = p
      /\ IsFiniteSet(DOMAIN files')
      /\ todo' \subseteq collection'
      /\ writing' # Nobody => pc' = "write" /\ "kind" \in DOMAIN writing'
      /\ \A p \in DOMAIN files' : files'[p] = Cut =>
            \/ p \in DOMAIN tree /\ tree[p] = Cut
            \/ \E i \in lost' : Path(i) = p
            \/ pc' = "write" /\ writing' # Nobody /\ Path(writing') = p
  <2>1. \A p \in DOMAIN files : files[p] = Cut =>
            \/ p \in DOMAIN tree /\ tree[p] = Cut
            \/ \E i \in lost : Path(i) = p
            \/ writing # Nobody /\ Path(writing) = p
    BY <1>0 DEF PullDeleteIInv, FilesInv
  <2>4. IsFiniteSet(DOMAIN files)
    BY DEF PullDeleteIInv, FilesInv
  <2>2. CASE Open
    <3>1. writing = Nobody /\ todo \subseteq collection
      BY <2>2 DEF Open, PullDeleteIInv, TypeOK
    <3>2. PICK i \in todo :
             /\ todo' = todo \ {i}
             /\ \/ /\ files' = [p \in DOMAIN files \cup {Path(i)} |->
                                  IF p = Path(i) THEN Cut ELSE files[p]]
                   /\ writing' = i
                   /\ UNCHANGED <<pc, exit, lost, faults>>
                \/ WriteFails(i) /\ UNCHANGED <<files, writing>>
      BY <2>2 DEF Open
    <3>3. "kind" \in DOMAIN i /\ i # Nobody
      BY <1>5, <1>6, <3>1
    <3>4. CASE /\ files' = [p \in DOMAIN files \cup {Path(i)} |->
                               IF p = Path(i) THEN Cut ELSE files[p]]
               /\ writing' = i /\ UNCHANGED <<pc, exit, lost, faults>>
      <4>1. DOMAIN files' = DOMAIN files \cup {Path(i)}
        BY <3>4
      <4>2. \A p \in DOMAIN files' : files'[p] = IF p = Path(i) THEN Cut ELSE files[p]
        BY <3>4
      <4>3. IsFiniteSet(DOMAIN files')
        BY <2>4, <4>1, FS_AddElement
      <4> QED
        BY <1>0, <1>7, <2>1, <3>1, <3>2, <3>3, <3>4, <4>1, <4>2, <4>3
    <3>5. CASE WriteFails(i) /\ UNCHANGED <<files, writing>>
      BY <1>0, <1>7, <2>1, <2>4, <3>1, <3>2, <3>5
    <3> QED
      BY <3>2, <3>4, <3>5
  <2>3. CASE Encode
    <3>1. writing # Nobody /\ writing' = Nobody /\ "kind" \in DOMAIN writing /\ todo' = todo
      BY <2>3 DEF Encode, PullDeleteIInv, FilesInv
    <3>2. writing # Cut
      BY <1>6, <3>1
    <3>3. CASE files' = [files EXCEPT ![Path(writing)] = writing] /\ UNCHANGED <<pc, exit, lost>>
      <4>1. DOMAIN files' = DOMAIN files
        BY <3>3
      <4>2. \A p \in DOMAIN files' : files'[p] = IF p = Path(writing) THEN writing ELSE files[p]
        BY <3>3
      <4> QED
        BY <1>0, <1>7, <2>1, <2>4, <3>1, <3>2, <3>3, <4>1, <4>2 DEF PullDeleteIInv, TypeOK
    <3>4. CASE WriteFails(writing) /\ UNCHANGED files
      BY <1>0, <1>7, <2>1, <2>4, <3>1, <3>4 DEF PullDeleteIInv, TypeOK
    <3> QED
      BY <2>3, <3>3, <3>4 DEF Encode
  <2> QED
    BY <2>2, <2>3
<1>9. TypeOK'
    BY <1>0, <1>8 DEF PullDeleteIInv, TypeOK
<1>10. FilesInv'
  <2>1. \A k \in DOMAIN fetch : ~(fetch[k].state = "failed" /\ FetchStops)
    BY <1>0 DEF PullDeleteIInv, FilesInv
  <2> QED
    BY <1>0, <1>8, <2>1 DEF PullDeleteIInv, FilesInv, FetchStops, StopOnError, NoPush
<1> QED
    BY <1>2, <1>3, <1>4, <1>9, <1>10 DEF PullDeleteIInv

(* A delete takes from what it has collected, and removes that only.        *)
LEMMA DeletingStays ==
    ASSUME PullDeleteIInv, pc = "delete",
           UNCHANGED <<input, files, pc, fetching, collection, writing, exit, lost, tree>>,
           aborted => aborted', todo' \subseteq collection, inflight' \subseteq collection,
           IsFiniteSet(inflight'), Cardinality(inflight') <= MaxInflight,
           \A o \in removed' : Deletable(o) /\ ~command.dryRun
    PROVE  PullDeleteIInv'
<1> USE DEF input, fetching
<1>0. command.name = "delete"
    BY DEF PullDeleteIInv, FilesInv
<1>1. CaseInv'
    BY DEF PullDeleteIInv, CaseInv
<1>2. TypeOK'
    BY DEF PullDeleteIInv, TypeOK
<1>3. FetchInv'
    BY DEF PullDeleteIInv, FetchInv, Fits
<1>4. AskedInv'
    BY <1>0 DEF PullDeleteIInv, AskedInv, Accepted, Asks, Deletable, Means
<1>5. FilesInv'
    BY <1>0 DEF PullDeleteIInv, FilesInv, FetchStops, StopOnError
<1> QED
    BY <1>1, <1>2, <1>3, <1>4, <1>5 DEF PullDeleteIInv

LEMMA DeletersStay ==
    ASSUME PullDeleteIInv, Send \/ Deleted \/ DeleteFails
    PROVE  PullDeleteIInv'
<1> USE DEF history, bounds, input, fetching
<1>0. /\ todo \subseteq collection /\ inflight \subseteq collection /\ MaxInflight \in Nat
      /\ IsFiniteSet(inflight) /\ Cardinality(inflight) \in Nat /\ Cardinality(inflight) <= MaxInflight
    BY CasesAssumption, FS_CardinalityType DEF PullDeleteIInv, TypeOK, FilesInv
<1>1. /\ pc = "delete"
      /\ UNCHANGED <<input, files, pc, fetching, collection, writing, exit, lost, tree>>
      /\ aborted => aborted'
  <2>1. CASE Send
    BY <2>1 DEF Send
  <2>2. CASE Deleted
    BY <2>2 DEF Deleted
  <2>3. CASE DeleteFails
    BY <2>3 DEF DeleteFails
  <2> QED
    BY <2>1, <2>2, <2>3
<1>2. /\ \A i \in collection : Deletable(Object(i))
      /\ \A o \in removed : Deletable(o) /\ ~command.dryRun
    BY <1>1 DEF PullDeleteIInv, FilesInv, AskedInv
<1>3. CASE Send
  <2>1. PICK i \in todo : todo' = todo \ {i} /\ (inflight' = inflight \/ inflight' = inflight \cup {i})
    BY <1>3 DEF Send
  <2>2. Cardinality(inflight) < MaxInflight /\ removed' = removed
    BY <1>3 DEF Send
  <2>3. IsFiniteSet(inflight') /\ Cardinality(inflight') <= MaxInflight
    BY <1>0, <2>1, <2>2, FS_AddElement
  <2> QED
    BY <1>0, <1>1, <1>2, <2>1, <2>2, <2>3, DeletingStays
<1>4. CASE Deleted \/ DeleteFails
  <2>1. PICK i \in inflight :
           inflight' = inflight \ {i} /\ (RemoveObject(i) \/ UNCHANGED <<remote, removed>>)
    BY <1>4 DEF Deleted, DeleteFails
  <2>2. \A o \in removed' : Deletable(o) /\ ~command.dryRun
    BY <1>0, <1>2, <2>1 DEF RemoveObject
  <2>3. IsFiniteSet(inflight') /\ Cardinality(inflight') <= MaxInflight
    BY <1>0, <2>1, FS_RemoveElement
  <2>4. todo' = todo
    BY <1>4 DEF Deleted, DeleteFails
  <2> QED
    BY <1>0, <1>1, <1>2, <2>1, <2>2, <2>3, <2>4, DeletingStays
<1> QED
    BY <1>3, <1>4

(* From one command to the next.                                            *)
LEMMA PushesStay ==
    ASSUME PullDeleteIInv, PushFollows \/ EditSaved \/ PushEnds
    PROVE  PullDeleteIInv'
<1> USE DEF history, bounds, input, batch, fetching
<1>1. CASE PushFollows
  <2>1. /\ pc = "done" /\ pc' = "push" /\ exit = "0" /\ fetch' = <<>> /\ command.then = "push"
        /\ UNCHANGED <<input, files, filters, aborted, collection, batch, exit, removed, lost, tree>>
    BY <1>1 DEF PushFollows, StartsWith
  <2>2. DOMAIN fetch' = {}
    BY <2>1
  <2>3. CaseInv'
    BY <2>1 DEF PullDeleteIInv, CaseInv, NoPush
  <2>4. TypeOK'
    BY <2>1 DEF PullDeleteIInv, TypeOK
  <2>5. FetchInv'
    BY <2>1, <2>2 DEF FetchInv
  <2>6. AskedInv'
    BY <2>1 DEF PullDeleteIInv, AskedInv, Accepted, Asks, Deletable, Means
  <2>7. FilesInv'
    BY <2>1, <2>2 DEF PullDeleteIInv, FilesInv
  <2> QED
    BY <2>3, <2>4, <2>5, <2>6, <2>7 DEF PullDeleteIInv
<1>2. CASE EditSaved \/ PushEnds
  <2>1. /\ UNCHANGED <<input, files, fetching, aborted, collection, batch, removed, lost, tree>>
        /\ \/ pc = "editor" /\ pc' = "push" /\ exit' = exit
           \/ pc = "editor" /\ pc' = "done" /\ exit' = "1"
           \/ pc = "push" /\ pc' = "done" /\ exit' = exit
    BY <1>2 DEF EditSaved, PushEnds, StartsWith, Ends
  <2>2. CaseInv'
    BY <2>1 DEF PullDeleteIInv, CaseInv
  <2>3. TypeOK'
    BY <2>1 DEF PullDeleteIInv, TypeOK
  <2>4. FetchInv'
    BY <2>1 DEF PullDeleteIInv, FetchInv, Fits
  <2>5. AskedInv'
    BY <2>1 DEF PullDeleteIInv, AskedInv, Accepted, Asks, Deletable, Means
  <2>6. FilesInv'
    BY <2>1 DEF PullDeleteIInv, FilesInv, FetchStops, StopOnError
  <2> QED
    BY <2>2, <2>3, <2>4, <2>5, <2>6 DEF PullDeleteIInv
<1> QED
    BY <1>1, <1>2

LEMMA CommandsStart == CommandsInit => PullDeleteIInv
<1> SUFFICES ASSUME CommandsInit PROVE PullDeleteIInv
    OBVIOUS
<1>1. /\ filters = <<>> /\ fetch = <<>> /\ collection = {} /\ todo = {} /\ inflight = {}
      /\ writing = Nobody /\ removed = {} /\ lost = {} /\ tree = files /\ exit = "none"
      /\ DOMAIN fetch = {} /\ DOMAIN filters = {}
    BY DEF CommandsInit, Init
<1>2. \/ pc = "parse" /\ IsCase([disc |-> disc, files |-> tree, command |-> command])
      \/ pc = "push" /\ command = NoPush /\ files = <<>>
  <2>1. CASE Init
    <3>1. PICK c \in Cases :
             disc = c.disc /\ remote = c.remote /\ files = c.files /\ command = c.command
      BY <2>1 DEF Init
    <3>2. IsCase(c)
      BY CasesAssumption
    <3>3. pc = "parse"
      BY <2>1 DEF Init
    <3>4. IsCase([disc |-> disc, files |-> tree, command |-> command])
      BY <1>1, <3>1, <3>2 DEF IsCase
    <3> QED
      BY <3>3, <3>4
  <2> QED
    BY <2>1 DEF CommandsInit
<1>3. \A p \in DOMAIN files : files[p] = Cut \/ Path(files[p]) = p
    BY <1>1, <1>2 DEF IsCase
<1>4. IsFiniteSet({}) /\ Cardinality({}) = 0
    BY FS_EmptySet
<1>10. IsFiniteSet(DOMAIN files)
    BY <1>1, <1>2, <1>4 DEF IsCase
<1>5. CaseInv
    BY <1>2 DEF CaseInv
<1>6. TypeOK
    BY <1>1, <1>2, <1>3, <1>4, CasesAssumption DEF TypeOK
<1>7. FetchInv
    BY <1>1 DEF FetchInv
<1>8. AskedInv
    BY <1>1, <1>2 DEF AskedInv
<1>9. FilesInv
    BY <1>1, <1>2, <1>4, <1>10 DEF FilesInv
<1> QED
    BY <1>5, <1>6, <1>7, <1>8, <1>9 DEF PullDeleteIInv

LEMMA CommandsStay == PullDeleteIInv /\ [CommandsNext]_commandVars => PullDeleteIInv'
<1> SUFFICES ASSUME PullDeleteIInv, [CommandsNext]_commandVars PROVE PullDeleteIInv'
    OBVIOUS
<1>1. CASE Command
  <2>1. Step
    BY <1>1 DEF Command
  <2>2. CASE \E i \in DOMAIN fetch : List(i) \/ Get(i) \/ NextRound(i) \/ FetchFails(i)
    BY <2>2, FetchersStay
  <2> QED
    BY <2>1, <2>2, EndsStay, DiscoverStays, CollectStays, WritersStay, ReadStays, DeletersStay DEF Step
<1>2. CASE World
  <2>1. CASE OthersEdit
    BY <2>1, SameState DEF OthersEdit, batch, fetching, input
  <2> QED
    BY <1>2, <2>1, EndsStay DEF World
<1>3. CASE PushFollows \/ EditSaved \/ PushEnds
    BY <1>3, PushesStay
<1>4. CASE EditorFails \/ EditCancelled
    BY <1>4, EndsStay
<1>5. CASE ReadTree \/ ReadError \/ PushStep \/ Others \/ UNCHANGED commandVars
  <2>1. UNCHANGED vars
    BY <1>5 DEF ReadTree, ReadError, PushStep, Others, commandVars
  <2> QED
    BY <2>1, SameState DEF vars, batch, fetching, input, history
<1> QED
    BY <1>1, <1>2, <1>3, <1>4, <1>5 DEF CommandsNext

LEMMA PullDeleteInvariant == CommandsSpec => []PullDeleteIInv
    BY CommandsStart, CommandsStay, PTL DEF CommandsSpec

(* What a delete removes from the server is what its arguments name, in the *)
(* words of the user: whatever discovery answers, whichever filters fail and*)
(* whoever else changes the server, no empty list on the way from selectors *)
(* to requests turns into "everything", and a dry run removes nothing.      *)
THEOREM OnlyWhatIsNamedGoes == CommandsSpec => []DeletesOnlyWhatIsNamed
<1>1. PullDeleteIInv => DeletesOnlyWhatIsNamed
    BY DEF PullDeleteIInv, FilesInv, AskedInv, Deletable, DeletesOnlyWhatIsNamed
<1> QED
    BY <1>1, PullDeleteInvariant, PTL

(* A pull that could not fetch what it must has left every file alone, a    *)
(* file is left incomplete only where its writing failed, and status 2 is   *)
(* only for a command that has done nothing.                                *)
THEOREM FilesStaySafe == CommandsSpec => [](TypeOK /\ FilesAreSafe /\ LogInFirst)
<1>1. PullDeleteIInv => TypeOK /\ FilesAreSafe /\ LogInFirst
    BY DEF PullDeleteIInv, FilesInv, FilesAreSafe, LogInFirst
<1> QED
    BY <1>1, PullDeleteInvariant, PTL

-----------------------------------------------------------------------------
(* The levels of folders                                                    *)

LEMMA CardinalityIs == \A S : Push!P!Cardinality(S) = Cardinality(S)
    BY DEF Push!P!Cardinality, Cardinality

(* What FoldersAt computes, up to depth n.                                  *)
Levelled(D, n, ns) ==
    D = [d \in 0..n |-> IF d = 0 THEN Push!P!Roots(ns)
                        ELSE {r \in ns : Push!P!ParentsIn(r, ns) \cap D[d - 1] # {}}]

LEMMA LevelledExists ==
    ASSUME NEW ns, NEW n \in Nat
    PROVE  \E D : Levelled(D, n, ns)
<1> DEFINE S == {m \in Nat : \E D : Levelled(D, m, ns)}
           Below(T) == {r \in ns : Push!P!ParentsIn(r, ns) \cap T # {}}
           roots == Push!P!Roots(ns)
<1> HIDE DEF Below, roots
<1>0. \A D, m : Levelled(D, m, ns) <=>
        D = [d \in 0..m |-> IF d = 0 THEN roots ELSE Below(D[d - 1])]
    BY DEF Levelled, Below, roots
<1>1. 0 \in S
  <2> DEFINE D == [d \in 0..0 |-> roots]
  <2>1. D = [d \in 0..0 |-> IF d = 0 THEN roots ELSE Below(D[d - 1])]
    OBVIOUS
  <2> QED
    BY <1>0, <2>1
<1>2. ASSUME NEW m \in S PROVE m + 1 \in S
  <2>1. PICK D : D = [d \in 0..m |-> IF d = 0 THEN roots ELSE Below(D[d - 1])]
    BY <1>0
  <2> DEFINE H == [d \in 0..(m + 1) |-> IF d = 0 THEN roots ELSE Below(D[d - 1])]
  <2>2. ASSUME NEW d \in 0..m PROVE H[d] = D[d]
    <3>1. d \in 0..(m + 1)
      OBVIOUS
    <3>2. D[d] = IF d = 0 THEN roots ELSE Below(D[d - 1])
      BY <2>1
    <3> QED
      BY <3>1, <3>2
  <2>3. ASSUME NEW d \in 0..(m + 1), d # 0 PROVE D[d - 1] = H[d - 1]
    <3>1. d - 1 \in 0..m
      BY <2>3
    <3> HIDE DEF H
    <3> QED
      BY <2>2, <3>1
  <2>4. H = [d \in 0..(m + 1) |-> IF d = 0 THEN roots ELSE Below(H[d - 1])]
    <3>1. \A d \in 0..(m + 1) : H[d] = IF d = 0 THEN roots ELSE Below(D[d - 1])
      OBVIOUS
    <3>2. H = [d \in 0..(m + 1) |-> H[d]]
      OBVIOUS
    <3>3. \A d \in 0..(m + 1) : H[d] = IF d = 0 THEN roots ELSE Below(H[d - 1])
      BY <2>3, <3>1
    <3> HIDE DEF H
    <3> QED
      BY <3>2, <3>3
  <2> HIDE DEF H
  <2>5. Levelled(H, m + 1, ns)
    BY <2>4 DEF Levelled, Below, roots
  <2> QED
    BY <2>5
<1>3. S = Nat
  <2> HIDE DEF S
  <2>1. S \in SUBSET Nat
    BY DEF S
  <2> QED
    BY <1>1, <1>2, <2>1, AllNumbers
<1> QED
    BY <1>3

LEMMA DepthIs ==
    ASSUME NEW ns, IsFiniteSet(ns)
    PROVE  Levelled(Push!P!FoldersAt(ns), Cardinality(ns), ns)
<1> DEFINE Body(D) == [d \in 0..Cardinality(ns) |->
                IF d = 0 THEN Push!P!Roots(ns)
                ELSE {r \in ns : Push!P!ParentsIn(r, ns) \cap D[d - 1] # {}}]
           depth == CHOOSE D : D = Body(D)
<1>1. PICK D : Levelled(D, Cardinality(ns), ns)
    BY LevelledExists, FS_CardinalityType
<1>2. D = Body(D)
    BY <1>1 DEF Levelled
<1>3. depth = Body(depth)
    BY <1>2
<1>4. Push!P!FoldersAt(ns) = depth
    BY CardinalityIs DEF Push!P!FoldersAt
<1> HIDE DEF depth
<1> QED
    BY <1>3, <1>4 DEF Levelled

(* The levels of folders that can be sorted, no two of a uid, are all of    *)
(* them, and the parent of a folder is one level above it.                  *)
LEMMA LevelsAre ==
    ASSUME NEW ns, IsFiniteSet(ns), Push!P!Sorted(ns),
           \A p, q \in ns : Push!P!Uid(p) = Push!P!Uid(q) => p = q,
           NEW ls, ls = Push!P!LevelsOf(ns)
    PROVE  /\ ls \in Seq(SUBSET ns)
           /\ \A q \in ns : \E i \in DOMAIN ls : q \in ls[i]
           /\ \A i \in DOMAIN ls : \A r \in ls[i] :
                 Push!P!ParentsIn(r, ns) \subseteq IF i = 1 THEN {} ELSE ls[i - 1]
<1> DEFINE N == Cardinality(ns)
<1>1. PICK D : D = Push!P!FoldersAt(ns)
    OBVIOUS
<1>2. N \in Nat
    BY FS_CardinalityType
<1>3. /\ DOMAIN D = 0..N
      /\ \A d \in 0..N : D[d] = IF d = 0 THEN Push!P!Roots(ns)
                                ELSE {r \in ns : Push!P!ParentsIn(r, ns) \cap D[d - 1] # {}}
  <2>1. Levelled(D, N, ns)
    BY <1>1, DepthIs
  <2> HIDE DEF N
  <2> QED
    BY <2>1 DEF Levelled
<1> HIDE DEF N
<1>4. \A d \in 0..N : D[d] \subseteq ns
    BY <1>3 DEF Push!P!Roots
<1> DEFINE used == {d \in DOMAIN D : D[d] # {}}
           S == {k \in Nat : k <= N + 1 => \E m \in Nat : used \cap 0..(k - 1) = 0..(m - 1)}
<1>5. 0 \in S
  <2>1. used \cap 0..(0 - 1) = 0..(0 - 1)
    BY <1>2
  <2> QED
    BY <2>1
<1>6. ASSUME NEW k \in S PROVE k + 1 \in S
  <2> SUFFICES ASSUME k + 1 <= N + 1 PROVE \E m \in Nat : used \cap 0..((k + 1) - 1) = 0..(m - 1)
    OBVIOUS
  <2>1. k \in 0..N /\ k <= N + 1 /\ (k + 1) - 1 = k /\ 0..k = 0..(k - 1) \cup {k}
    BY <1>2
  <2>2. PICK m \in Nat : used \cap 0..(k - 1) = 0..(m - 1)
    BY <2>1
  <2>3. CASE D[k] = {}
    <3>1. k \notin used
      BY <2>3
    <3>2. used \cap 0..k = 0..(m - 1)
      <4> HIDE DEF used
      <4> QED
        BY <2>1, <2>2, <3>1
    <3> QED
      BY <2>1, <3>2
  <2>4. CASE D[k] # {}
    <3>1. k \in used
      BY <1>3, <2>1, <2>4
    <3>2. k = 0 \/ k - 1 \in used
      <4>1. k # 0 => D[k - 1] # {}
        <5>1. k # 0 => D[k] = {r \in ns : Push!P!ParentsIn(r, ns) \cap D[k - 1] # {}}
          BY <1>3, <2>1
        <5>2. ASSUME k # 0 PROVE D[k - 1] # {}
          <6>1. PICK T : T = D[k - 1]
            OBVIOUS
          <6>2. {r \in ns : Push!P!ParentsIn(r, ns) \cap T # {}} # {}
            BY <2>4, <5>1, <5>2, <6>1
          <6> QED
            BY <6>1, <6>2
        <5> QED
          BY <5>2
      <4>2. k # 0 => k - 1 \in 0..N
        BY <1>2, <2>1
      <4> QED
        BY <1>3, <4>1, <4>2
    <3>3. 0..(m - 1) = 0..(k - 1)
      <4>1. CASE k = 0
        <5>1. 0..(k - 1) = {}
          BY <4>1
        <5> QED
          BY <2>2, <5>1
      <4>2. CASE k # 0
        <5>1. k - 1 \in used /\ k - 1 \in 0..(k - 1)
          BY <2>1, <3>2, <4>2
        <5>2. k - 1 \in 0..(m - 1)
          BY <2>2, <5>1
        <5>3. 0..(m - 1) \subseteq 0..(k - 1)
          BY <2>2
        <5> HIDE DEF used
        <5> QED
          BY <2>1, <5>2, <5>3
      <4> QED
        BY <4>1, <4>2
    <3>4. used \cap 0..k = 0..k
      <4> HIDE DEF used
      <4> QED
        BY <2>1, <2>2, <3>1, <3>3
    <3>5. (k + 1) \in Nat /\ 0..((k + 1) - 1) = 0..k
      BY <2>1
    <3> HIDE DEF used
    <3> QED
      BY <3>4, <3>5
  <2> QED
    BY <2>3, <2>4
<1>7. S = Nat
  <2> HIDE DEF S
  <2>1. S \in SUBSET Nat
    BY DEF S
  <2> QED
    BY <1>5, <1>6, <2>1, AllNumbers
<1>8. PICK m \in Nat : used = 0..(m - 1)
  <2>1. N + 1 \in S /\ (N + 1) - 1 = N
    <3> HIDE DEF S
    <3> QED
      BY <1>2, <1>7
  <2>2. \E m \in Nat : used \cap 0..((N + 1) - 1) = 0..(m - 1)
    <3>1. N + 1 <= N + 1
      BY <1>2
    <3> HIDE DEF used
    <3> QED
      BY <2>1, <3>1
  <2>3. used \cap 0..((N + 1) - 1) = used
    <3>1. used \subseteq 0..N
      BY <1>3
    <3> HIDE DEF used
    <3> QED
      BY <2>1, <3>1
  <2> HIDE DEF used
  <2> QED
    BY <2>2, <2>3
<1>9. Cardinality(used) = m
  <2> HIDE DEF used
  <2> QED
    BY <1>8, FS_Interval
<1>10. ls = [k \in 1..m |-> D[k - 1]]
  <2>1. ls = [k \in 1..Cardinality(used) |-> D[k - 1]]
    BY <1>1, CardinalityIs DEF Push!P!LevelsOf
  <2> QED
    BY <1>9, <2>1
<1>11. \A k \in 1..m : k - 1 \in 0..N
    BY <1>3, <1>8
<1>12. ls \in Seq(SUBSET ns)
  <2>1. ls \in [1..m -> SUBSET ns]
    BY <1>4, <1>10, <1>11
  <2> QED
    BY <2>1, SeqDef
<1>13. ASSUME NEW q \in ns PROVE \E i \in DOMAIN ls : q \in ls[i]
  <2>1. PICK d \in DOMAIN D : q \in D[d]
    BY <1>1 DEF Push!P!Sorted
  <2>2. d \in 0..(m - 1) /\ d + 1 \in 1..m /\ (d + 1) - 1 = d
    BY <1>8, <2>1
  <2>3. ls[d + 1] = D[d]
    BY <1>10, <2>2
  <2> QED
    BY <1>10, <2>1, <2>2, <2>3
<1>14. ASSUME NEW i \in DOMAIN ls, NEW r \in ls[i]
       PROVE  Push!P!ParentsIn(r, ns) \subseteq IF i = 1 THEN {} ELSE ls[i - 1]
  <2>1. i \in 1..m /\ r \in D[i - 1] /\ i - 1 \in 0..N
    BY <1>10, <1>11
  <2>2. CASE i = 1
    BY <1>3, <2>1, <2>2 DEF Push!P!Roots
  <2>3. CASE i # 1
    <3>1. i - 1 # 0 /\ i - 1 \in 1..m /\ (i - 1) - 1 = i - 2
      BY <2>1, <2>3
    <3>2. ls[i - 1] = D[i - 2]
      BY <1>10, <3>1
    <3>3. PICK p \in Push!P!ParentsIn(r, ns) : p \in D[i - 2]
      BY <1>3, <2>1, <3>1
    <3>4. \A q \in Push!P!ParentsIn(r, ns) : q = p
      BY DEF Push!P!ParentsIn
    <3> QED
      BY <2>3, <3>2, <3>3, <3>4
  <2> QED
    BY <2>2, <2>3
<1> QED
    BY <1>12, <1>13, <1>14

-----------------------------------------------------------------------------
(* The invariant of a push                                                  *)

(* Before a push nothing has been read or written, and before the pusher    *)
(* starts nothing has been pushed.                                          *)
Unread ==
    /\ walked = 0 /\ pathCh = <<>> /\ ~pathClosed /\ resCh = <<>> /\ ~resClosed
    /\ ~readAborted /\ read = <<>> /\ versions = <<>>

Unstarted ==
    /\ levels = <<>> /\ group = {} /\ nodes = {} /\ at = <<>> /\ seen = <<>>
    /\ ~cancelled /\ result = "none" /\ success = 0 /\ pushFailed = 0

Pushing == phase \in {"folders", "rest"}

PhaseInv ==
    /\ phase \in {"idle", "folders", "rest", "done"}
    /\ pc \notin {"push", "done"} => phase = "idle"
    /\ pc # "push" /\ phase = "idle" => Unread
    /\ phase = "idle" => Unstarted
    /\ Pushing => Push!R!Finished /\ ~readAborted /\ result = "none"
    /\ IsFiniteSet(DOMAIN read)
    /\ pushEdits \in Nat

(* A file that the walker has passed is on its way to the collection, or    *)
(* there, unless the command has been aborted.                              *)
Handled(f) ==
    \/ f \in ToSet(pathCh) \/ reader[f] \in {"reading", "sending"} \/ f \in ToSet(resCh)
    \/ IF Push!R!Object(pushTree[f]) THEN Push!R!Ref(pushTree[f]) \in DOMAIN read
       ELSE ~request.stopOnError

ReadInv ==
    /\ Len(pushTree) \in Nat /\ DOMAIN pushTree = 1..Len(pushTree)
    /\ DOMAIN reader = DOMAIN pushTree
    /\ walked \in 0..Len(pushTree) /\ readAborted \in BOOLEAN
    /\ pathCh \in Seq(DOMAIN pushTree) /\ resCh \in Seq(DOMAIN pushTree)
    /\ ~readAborted => \A f \in 1..walked : Handled(f)
    /\ \A f \in DOMAIN pushTree :
          reader[f] = "sending" \/ f \in ToSet(resCh) => Push!R!Object(pushTree[f])
    /\ pathClosed /\ ~readAborted => walked = Len(pushTree)
    /\ resClosed => pathClosed /\ pathCh = <<>> /\ Push!R!Reading = {}

(* The summary counts the callbacks that have ended, or are about to.       *)
Labels == {"waiting", "get", "write", "sent", "returning", "pushed", "failed", "skipped"}
Those(labels) == {r \in Push!P!Refs : at[r] \in labels}

CountInv ==
    Pushing \/ result = "nil" =>
        /\ at \in [Push!P!Refs -> Labels]
        /\ success = Cardinality(Those({"pushed"}))
        /\ pushFailed = Cardinality(Those({"failed", "returning"}))
        /\ \A r \in Push!P!Refs \ group : at[r] \in Push!P!Ended \cup {"waiting"}
        /\ request.stopOnError /\ ~cancelled => \A r \in Push!P!Refs : at[r] # "failed"

ResultInv ==
    /\ group \subseteq Push!P!Refs /\ nodes \subseteq Push!P!Folders
    /\ phase = "done" => Push!P!GroupEnded
    /\ result = "nil" =>
          /\ phase = "done" /\ ~cancelled
          /\ \A r \in Push!P!Refs : at[r] \in Push!P!Ended \/ r \in Push!P!Folders \ nodes

(* A group waits only for what has ended, and the next level for no more    *)
(* than the group.                                                          *)
Settled(q) == at[q] \in Push!P!Ended

OrderInv ==
    /\ Pushing => \A r \in group :
          \A q \in IF Push!P!IsFolder(r) THEN Push!P!ParentsIn(r, nodes) ELSE nodes : Settled(q)
    /\ phase = "folders" =>
          /\ levels \in Seq(SUBSET nodes) /\ group \subseteq nodes
          /\ \A q \in nodes :
                Settled(q) \/ q \in group \/ \E i \in DOMAIN levels : q \in levels[i]
          /\ \A i \in DOMAIN levels : \A r \in levels[i] : \A q \in Push!P!ParentsIn(r, nodes) :
                IF i = 1 THEN Settled(q) \/ q \in group ELSE q \in levels[i - 1]
    /\ phase = "rest" => group = Push!P!Refs \ Push!P!Folders /\ \A q \in nodes : Settled(q)

PushIInv == PhaseInv /\ ReadInv /\ CountInv /\ ResultInv /\ OrderInv

-----------------------------------------------------------------------------
(* The steps that leave the push alone                                      *)

LEMMA ReadSame ==
    ASSUME ReadInv, UNCHANGED <<inputOfPush, readerVars>>
    PROVE  ReadInv'
    BY DEF ReadInv, inputOfPush, readerVars, Handled, Push!R!Reading

LEMMA PusherSame ==
    ASSUME CountInv, ResultInv, OrderInv, UNCHANGED <<request, read, pusherVars>>
    PROVE  CountInv' /\ ResultInv' /\ OrderInv'
<1> USE DEF pusherVars, Pushing, Push!P!Refs, Push!P!Folders, Push!P!ParentsIn, Push!P!Parent
<1>1. CountInv'
    BY DEF CountInv, Those
<1>2. ResultInv'
    BY DEF ResultInv, Push!P!GroupEnded
<1>3. OrderInv'
    BY DEF OrderInv, Settled
<1> QED
    BY <1>1, <1>2, <1>3

LEMMA PhaseSame ==
    ASSUME PhaseInv, UNCHANGED pushVars,
           pc' = pc \/ (phase = "done" /\ pc' = "done") \/ pc \notin {"push", "done"}
    PROVE  PhaseInv'
    BY DEF PhaseInv, Unread, Unstarted, Pushing, Push!R!Finished,
           pushVars, readerVars, pusherVars, worldVars, inputOfPush

LEMMA PushSame ==
    ASSUME PushIInv, UNCHANGED pushVars,
           pc' = pc \/ (phase = "done" /\ pc' = "done") \/ pc \notin {"push", "done"}
    PROVE  PushIInv'
<1>1. UNCHANGED <<inputOfPush, readerVars>> /\ UNCHANGED <<request, read, pusherVars>>
    BY DEF pushVars, inputOfPush, readerVars
<1> QED
    BY <1>1, PhaseSame, ReadSame, PusherSame DEF PushIInv

(* What holds of a pusher that has not started.                             *)
LEMMA IdleIsFine == phase = "idle" /\ Unstarted => CountInv /\ ResultInv /\ OrderInv
    BY DEF Unstarted, CountInv, ResultInv, OrderInv, Pushing, Push!P!GroupEnded

-----------------------------------------------------------------------------
(* The reader                                                               *)

LEMMA AppendIs ==
    ASSUME NEW T, NEW s \in Seq(T), NEW x \in T
    PROVE  Append(s, x) \in Seq(T) /\ ToSet(Append(s, x)) = ToSet(s) \cup {x}
<1>1. Len(s) \in Nat /\ DOMAIN s = 1..Len(s)
    BY LenProperties
<1> DEFINE a == Append(s, x)
<1>2. /\ a \in Seq(T) /\ Len(a) = Len(s) + 1 /\ DOMAIN a = 1..(Len(s) + 1)
      /\ \A i \in 1..Len(s) : a[i] = s[i]
      /\ a[Len(s) + 1] = x
    BY AppendProperties, LenProperties
<1> HIDE DEF a
<1>3. ToSet(s) \cup {x} \subseteq ToSet(a)
  <2>1. \A i \in 1..Len(s) : i \in 1..(Len(s) + 1)
    BY <1>1
  <2>2. Len(s) + 1 \in 1..(Len(s) + 1)
    BY <1>1
  <2> QED
    BY <1>1, <1>2, <2>1, <2>2 DEF ToSet
<1>4. ToSet(a) \subseteq ToSet(s) \cup {x}
  <2>1. \A i \in 1..(Len(s) + 1) : i \in 1..Len(s) \/ i = Len(s) + 1
    BY <1>1
  <2> QED
    BY <1>1, <1>2, <2>1 DEF ToSet
<1> QED
    BY <1>2, <1>3, <1>4 DEF a

LEMMA TailIs ==
    ASSUME NEW T, NEW s \in Seq(T), s # <<>>
    PROVE  /\ Head(s) \in ToSet(s) /\ Head(s) \in T /\ Tail(s) \in Seq(T)
           /\ ToSet(s) = ToSet(Tail(s)) \cup {Head(s)}
<1>1. Len(s) \in Nat /\ Len(s) > 0 /\ DOMAIN s = 1..Len(s)
    BY EmptySeq, LenProperties
<1>2. DOMAIN Tail(s) = 1..(Len(s) - 1) /\ \A i \in 1..(Len(s) - 1) : Tail(s)[i] = s[i + 1]
    BY <1>1
<1>3. Head(s) = s[1] /\ Head(s) \in T /\ Tail(s) \in Seq(T)
    BY <1>1
<1>4. ASSUME NEW i \in 1..Len(s) PROVE s[i] = s[1] \/ \E j \in 1..(Len(s) - 1) : s[i] = Tail(s)[j]
  <2>1. CASE i # 1
    <3>1. i - 1 \in 1..(Len(s) - 1) /\ (i - 1) + 1 = i
      BY <1>1, <2>1
    <3>2. Tail(s)[i - 1] = s[i]
      BY <1>2, <3>1
    <3> QED
      BY <3>1, <3>2
  <2> QED
    BY <2>1
<1>5. \A j \in 1..(Len(s) - 1) : j + 1 \in 1..Len(s)
    BY <1>1
<1>6. ToSet(s) \subseteq ToSet(Tail(s)) \cup {Head(s)}
  <2>1. ASSUME NEW i \in 1..Len(s) PROVE s[i] \in ToSet(Tail(s)) \cup {s[1]}
    BY <1>2, <1>4 DEF ToSet
  <2> QED
    BY <1>1, <1>3, <2>1 DEF ToSet
<1>7. ToSet(Tail(s)) \cup {Head(s)} \subseteq ToSet(s)
    BY <1>1, <1>2, <1>3, <1>5 DEF ToSet
<1> QED
    BY <1>3, <1>6, <1>7

LEMMA ReaderStays ==
    ASSUME ReadInv, IsFiniteSet(DOMAIN read), Push!R!Next
    PROVE  ReadInv' /\ IsFiniteSet(DOMAIN read')
<1>01. Len(pushTree) \in Nat /\ DOMAIN pushTree = 1..Len(pushTree) /\ DOMAIN reader = DOMAIN pushTree
    BY DEF ReadInv
<1>02. walked \in 0..Len(pushTree) /\ readAborted \in BOOLEAN
    BY DEF ReadInv
<1>03. pathCh \in Seq(DOMAIN pushTree) /\ resCh \in Seq(DOMAIN pushTree)
    BY DEF ReadInv
<1>04. ~readAborted => \A f \in 1..walked : Handled(f)
    BY DEF ReadInv
<1>05. \A f \in DOMAIN pushTree :
          reader[f] = "sending" \/ f \in ToSet(resCh) => Push!R!Object(pushTree[f])
    BY DEF ReadInv
<1>06. pathClosed /\ ~readAborted => walked = Len(pushTree)
    BY DEF ReadInv
<1>07. resClosed => pathClosed /\ pathCh = <<>> /\ \A f \in DOMAIN pushTree : reader[f] \notin {"reading", "sending"}
    BY DEF ReadInv, Push!R!Reading
<1>08. ReadInv' <=>
         /\ (Len(pushTree) \in Nat)' /\ (DOMAIN pushTree = 1..Len(pushTree))' /\ (DOMAIN reader = DOMAIN pushTree)'
         /\ (walked \in 0..Len(pushTree))' /\ (readAborted \in BOOLEAN)'
         /\ (pathCh \in Seq(DOMAIN pushTree))' /\ (resCh \in Seq(DOMAIN pushTree))'
         /\ (~readAborted => \A f \in 1..walked : Handled(f))'
         /\ (\A f \in DOMAIN pushTree :
               reader[f] = "sending" \/ f \in ToSet(resCh) => Push!R!Object(pushTree[f]))'
         /\ (pathClosed /\ ~readAborted => walked = Len(pushTree))'
         /\ (resClosed => pathClosed /\ pathCh = <<>> /\
               \A f \in DOMAIN pushTree : reader[f] \notin {"reading", "sending"})'
    BY DEF ReadInv, Push!R!Reading
<1>1. CASE Push!R!Walk
  <2> USE DEF Push!R!Walk
  <2>0. walked \in Nat /\ walked < Len(pushTree) /\ Len(pushTree) \in Nat
    <3>1. walked < Len(pushTree)
      BY <1>1
    <3> QED
      BY <1>01, <1>02, <3>1
  <2>1. walked + 1 \in DOMAIN pushTree /\ 1..(walked + 1) = 1..walked \cup {walked + 1}
        /\ walked + 1 \in 0..Len(pushTree) /\ walked' = walked + 1
    <3>1. 1..(walked + 1) = 1..walked \cup {walked + 1}
      BY <2>0
    <3>2. walked + 1 \in 1..Len(pushTree) /\ walked + 1 \in 0..Len(pushTree)
      BY <2>0
    <3> QED
      BY <1>01, <1>1, <3>1, <3>2
  <2>2. CASE pathCh' = Append(pathCh, walked + 1)
    <3>1. ToSet(pathCh') = ToSet(pathCh) \cup {walked + 1} /\ pathCh' \in Seq(DOMAIN pushTree)
      BY <1>03, <2>1, <2>2, AppendIs
    <3>2. ASSUME ~readAborted, NEW f \in 1..(walked + 1) PROVE Handled(f)'
      BY <1>01, <1>02, <1>04, <1>05, <1>1, <2>1, <3>1, <3>2 DEF Handled
    <3> QED
      BY <1>01, <1>02, <1>03, <1>04, <1>05, <1>06, <1>07,
         <1>08, <1>1, <2>1, <3>1, <3>2
  <2>3. CASE Push!R!Missing = pushTree[walked + 1] /\ ~request.stopOnError /\ UNCHANGED pathCh
    <3>1. ASSUME ~readAborted, NEW f \in 1..(walked + 1) PROVE Handled(f)'
      BY <1>01, <1>02, <1>04, <1>05, <1>1, <2>1, <2>3, <3>1 DEF Handled, Push!R!Object
    <3> QED
      BY <1>01, <1>02, <1>03, <1>04, <1>05, <1>06, <1>07,
         <1>08, <1>1, <2>1, <2>3, <3>1
  <2> QED
    BY <1>1, <2>2, <2>3
<1>2. CASE Push!R!WalkEnd
  <2> USE DEF Push!R!WalkEnd
  <2>1. readAborted' \in BOOLEAN /\ (~readAborted' => ~readAborted /\ walked = Len(pushTree))
    <3>1. CASE walked = Len(pushTree) /\ readAborted' = readAborted
      BY <1>02, <3>1
    <3>2. CASE readAborted' = TRUE
      BY <3>2
    <3> QED
      BY <1>2, <3>1, <3>2
  <2>2. ASSUME ~readAborted', NEW f \in 1..walked PROVE Handled(f)'
    <3>1. Handled(f)
      BY <1>04, <2>1, <2>2
    <3> QED
      BY <1>2, <3>1 DEF Handled
  <2> QED
    BY <1>01, <1>02, <1>03, <1>04, <1>05, <1>06, <1>07, <1>08, <1>2, <2>1, <2>2
<1>3. CASE Push!R!Dispatch
  <2> USE DEF Push!R!Dispatch
  <2> DEFINE h == Head(pathCh)
  <2>1. /\ h \in DOMAIN pushTree /\ pathCh' \in Seq(DOMAIN pushTree)
        /\ ToSet(pathCh) = ToSet(pathCh') \cup {h}
    BY <1>03, <1>3, TailIs
  <2>2. DOMAIN reader' = DOMAIN reader /\ reader'[h] = "reading"
        /\ \A f \in DOMAIN reader : f # h => reader'[f] = reader[f]
    BY <1>01, <1>3, <2>1
  <2> HIDE DEF h
  <2>3. ASSUME ~readAborted, NEW f \in 1..walked PROVE Handled(f)'
    BY <1>01, <1>02, <1>04, <1>05, <1>3, <2>1, <2>2, <2>3 DEF Handled
  <2> QED
    BY <1>01, <1>02, <1>03, <1>04, <1>05, <1>06, <1>07,
         <1>08, <1>3, <2>1, <2>2, <2>3
<1>4. CASE Push!R!DispatchEnd
  <2> USE DEF Push!R!DispatchEnd, Push!R!Reading
  <2>1. ASSUME ~readAborted, NEW f \in 1..walked PROVE Handled(f)'
    BY <1>04, <1>4, <2>1 DEF Handled
  <2> QED
    BY <1>01, <1>02, <1>03, <1>04, <1>05, <1>06, <1>07, <1>08, <1>4, <2>1
<1>5. CASE Push!R!Collect
  <2> USE DEF Push!R!Collect
  <2> DEFINE h == Head(resCh)
             o == pushTree[h]
  <2>1. /\ h \in DOMAIN pushTree /\ resCh' \in Seq(DOMAIN pushTree) /\ h \in ToSet(resCh)
        /\ ToSet(resCh) = ToSet(resCh') \cup {h}
    BY <1>03, <1>5, TailIs
  <2>2. DOMAIN read' = DOMAIN read \cup {Push!R!Ref(o)}
    BY <1>5 DEF Push!R!Add
  <2> HIDE DEF h
  <2>3. ASSUME ~readAborted, NEW f \in 1..walked PROVE Handled(f)'
    BY <1>01, <1>02, <1>04, <1>05, <1>5, <2>1, <2>2, <2>3 DEF Handled
  <2>4. IsFiniteSet(DOMAIN read')
    BY <2>2, FS_AddElement
  <2> QED
    BY <1>01, <1>02, <1>03, <1>04, <1>05, <1>06, <1>07,
         <1>08, <1>5, <2>1, <2>2, <2>3, <2>4
<1>6. ASSUME NEW f \in DOMAIN pushTree, Push!R!ReadFile(f)
      PROVE  ReadInv' /\ read' = read
  <2> USE DEF Push!R!ReadFile
  <2>1. ASSUME ~readAborted', NEW g \in 1..walked PROVE Handled(g)'
    <3>1. ~readAborted /\ Handled(g) /\ g \in DOMAIN pushTree
      BY <1>01, <1>02, <1>04, <1>6, <2>1
    <3>2. CASE g # f
      BY <1>01, <1>6, <3>1, <3>2 DEF Handled
    <3>3. CASE g = f
      <4>1. reader'[f] = IF Push!R!Object(pushTree[f]) THEN "sending" ELSE "done"
        BY <1>01, <1>6
      <4>2. Push!R!Object(pushTree[f]) \/ ~request.stopOnError
        BY <1>02, <1>6, <2>1
      <4> QED
        BY <1>6, <3>3, <4>1, <4>2 DEF Handled
    <3> QED
      BY <3>2, <3>3
  <2> QED
    BY <1>01, <1>02, <1>03, <1>04, <1>05, <1>06, <1>07,
         <1>08, <1>6, <2>1
<1>7. ASSUME NEW f \in DOMAIN pushTree, Push!R!SendResult(f)
      PROVE  ReadInv' /\ read' = read
  <2> USE DEF Push!R!SendResult
  <2>1. resCh' \in Seq(DOMAIN pushTree) /\ ToSet(resCh') \subseteq ToSet(resCh) \cup {f}
        /\ (~readAborted => f \in ToSet(resCh'))
        /\ ToSet(resCh) \subseteq ToSet(resCh')
    <3>1. CASE resCh' = Append(resCh, f)
      BY <1>03, <3>1, AppendIs
    <3>2. CASE readAborted /\ UNCHANGED resCh
      BY <1>03, <1>7, <3>2
    <3> QED
      BY <1>7, <3>1, <3>2
  <2>2. ASSUME ~readAborted', NEW g \in 1..walked PROVE Handled(g)'
    BY <1>01, <1>02, <1>04, <1>05, <1>7, <2>1, <2>2 DEF Handled
  <2> QED
    BY <1>01, <1>02, <1>03, <1>04, <1>05, <1>06, <1>07,
         <1>08, <1>7, <2>1, <2>2
<1>8. Push!R!Walk \/ Push!R!WalkEnd \/ Push!R!Dispatch \/ Push!R!DispatchEnd => read' = read
    BY DEF Push!R!Walk, Push!R!WalkEnd, Push!R!Dispatch, Push!R!DispatchEnd
<1> QED
    BY <1>1, <1>2, <1>3, <1>4, <1>5, <1>6, <1>7, <1>8 DEF Push!R!Next

LEMMA ReadTreeStays ==
    ASSUME PushIInv, ReadTree \/ ReadError
    PROVE  PushIInv'
<1>1. phase = "idle" /\ Unstarted /\ PhaseInv /\ ReadInv /\ pc = "push" /\ pc' = pc
    BY DEF ReadTree, ReadError, Push!Read, Push!ReadError, PushIInv, PhaseInv, vars
<1>2. CASE ReadTree
  <2>1. Push!R!Next /\ UNCHANGED <<pusherVars, worldVars>>
    BY <1>2 DEF ReadTree, Push!Read, Push!pushVars, Push!worldVars, pusherVars, worldVars
  <2>2. ReadInv' /\ IsFiniteSet(DOMAIN read')
    BY <1>1, <2>1, ReaderStays DEF PhaseInv
  <2>3. phase' = "idle" /\ Unstarted'
    BY <1>1, <2>1 DEF Unstarted, pusherVars
  <2>4. PhaseInv'
    BY <1>1, <2>1, <2>2, <2>3 DEF PhaseInv, Pushing, worldVars
  <2>5. (phase = "idle" /\ Unstarted => CountInv /\ ResultInv /\ OrderInv)'
    BY IdleIsFine, PTL
  <2> QED
    BY <2>2, <2>3, <2>4, <2>5 DEF PushIInv
<1>3. CASE ReadError
  <2>1. /\ phase' = "done" /\ result' = "error"
        /\ UNCHANGED <<inputOfPush, readerVars, group, nodes, pushEdits>>
    BY <1>3 DEF ReadError, Push!ReadError, Push!P!Return, Push!readerVars, Push!worldVars,
       inputOfPush, readerVars
  <2>2. ReadInv'
    BY <1>1, <2>1, ReadSame
  <2>3. PhaseInv'
    BY <1>1, <2>1 DEF PhaseInv, Pushing, readerVars
  <2>4. CountInv' /\ OrderInv'
    BY <2>1 DEF CountInv, OrderInv, Pushing
  <2>5. ResultInv'
    BY <1>1, <2>1 DEF ResultInv, Unstarted, Push!P!GroupEnded
  <2> QED
    BY <2>2, <2>3, <2>4, <2>5 DEF PushIInv
<1> QED
    BY <1>2, <1>3

(* A push begins with what a pull wrote, or with what was edited.           *)
LEMMA BeginningsStay ==
    ASSUME PushIInv, PullDeleteIInv, PushFollows \/ EditSaved
    PROVE  PushIInv'
<1>1. /\ phase = "idle" /\ Unstarted /\ Unread /\ PhaseInv /\ ReadInv
      /\ UNCHANGED <<pusherVars, pushEdits, pathCh, resCh, readAborted>>
  <2>1. CASE PushFollows
    BY <2>1 DEF PushFollows, PushIInv, PhaseInv
  <2>2. CASE EditSaved
    BY <2>2 DEF EditSaved, PushIInv, PhaseInv
  <2> QED
    BY <2>1, <2>2
<1>2. phase' = "idle" /\ Unstarted'
    BY <1>1 DEF Unstarted, pusherVars
<1>3. (phase = "idle" /\ Unstarted => CountInv /\ ResultInv /\ OrderInv)'
    BY IdleIsFine, PTL
<1>4. CASE PushFollows
  <2>1. /\ UNCHANGED <<walked, pathClosed, resClosed, read>> /\ pc' = "push"
        /\ pushTree' = SetToSeq({Decoded(files[p]) : p \in DOMAIN files})
        /\ reader' = [f \in DOMAIN pushTree' |-> "none"]
    BY <1>4 DEF PushFollows, StartsWith
  <2>2. Len(pushTree') \in Nat /\ DOMAIN pushTree' = 1..Len(pushTree')
    <3> DEFINE S == {Decoded(files[p]) : p \in DOMAIN files}
               g == [p \in DOMAIN files |-> Decoded(files[p])]
    <3>1. IsFiniteSet(DOMAIN files)
      BY DEF PullDeleteIInv, FilesInv
    <3>2. g \in Surjection(DOMAIN files, S)
      BY DEF Surjection
    <3>3. IsFiniteSet(S)
      <4> HIDE DEF S, g
      <4> QED
        BY <3>1, <3>2, FS_Surjection
    <3>4. pushTree' \in Seq(S)
      <4>1. pushTree' = SetToSeq(S)
        BY <2>1
      <4> HIDE DEF S
      <4> QED
        BY <3>3, <4>1, SetToSeqIs
    <3> HIDE DEF S
    <3> QED
      BY <3>4, LenProperties
  <2>3. ReadInv'
    BY <1>1, <2>1, <2>2 DEF ReadInv, Unread, Handled, ToSet, Push!R!Reading
  <2>4. PhaseInv'
    BY <1>1, <1>2, <2>1 DEF PhaseInv, Pushing
  <2> QED
    BY <1>2, <1>3, <2>3, <2>4 DEF PushIInv
<1>5. CASE EditSaved
  <2>1. CASE UNCHANGED <<inputOfPush, versions, author, read, reader, walked, pathClosed, resClosed>>
    <3>1. ReadInv'
      BY <1>1, <2>1, ReadSame DEF readerVars, inputOfPush
    <3>2. PhaseInv'
      BY <1>1, <1>2, <2>1 DEF PhaseInv, Pushing, Unread
    <3> QED
      BY <1>2, <1>3, <3>1, <3>2 DEF PushIInv
  <2>2. CASE ~UNCHANGED <<inputOfPush, versions, author, read, reader, walked, pathClosed, resClosed>>
    <3>0. PICK i \in collection : \E uid :
             LET doc == [Decoded(i) EXCEPT !.uid = uid]
             IN  /\ pushTree' = <<doc>> /\ read' = [r \in {Push!R!Ref(doc)} |-> doc]
                 /\ reader' = <<"done">> /\ walked' = 1 /\ pc' = "push"
                 /\ pathClosed' = TRUE /\ resClosed' = TRUE
      BY <1>5, <2>2 DEF EditSaved, StartsWith
    <3>1. PICK uid :
             LET doc == [Decoded(i) EXCEPT !.uid = uid]
             IN  /\ pushTree' = <<doc>> /\ read' = [r \in {Push!R!Ref(doc)} |-> doc]
                 /\ reader' = <<"done">> /\ walked' = 1 /\ pc' = "push"
                 /\ pathClosed' = TRUE /\ resClosed' = TRUE
      BY <3>0
    <3> DEFINE doc == [Decoded(i) EXCEPT !.uid = uid]
    <3>2. Push!R!Object(doc)
      <4>1. pc = "editor"
        BY <1>5 DEF EditSaved
      <4>2. "kind" \in DOMAIN i
        BY <4>1 DEF PullDeleteIInv, FilesInv
      <4>3. i # Cut
        BY <4>2 DEF Cut
      <4>4. doc = [kind |-> i.kind, version |-> i.version, uid |-> uid,
                   parent |-> Folder(i.kind, i.name), foreign |-> i.manager = "other"]
        BY <4>3 DEF Decoded
      <4>5. "parent" \in DOMAIN doc
        BY <4>4
      <4> HIDE DEF doc
      <4> QED
        BY <4>5 DEF Push!R!Object, Push!R!Missing, Push!R!Unreadable
    <3> HIDE DEF doc
    <3>3. /\ pushTree' = <<doc>> /\ DOMAIN read' = {Push!R!Ref(doc)}
          /\ reader' = <<"done">> /\ walked' = 1 /\ pc' = "push"
          /\ pathClosed' = TRUE /\ resClosed' = TRUE
      BY <3>1 DEF doc
    <3>4. ReadInv'
      BY <1>1, <3>2, <3>3 DEF ReadInv, Unread, Handled, ToSet, Push!R!Reading
    <3>5. IsFiniteSet(DOMAIN read')
      <4>1. PICK x : x = Push!R!Ref(doc)
        OBVIOUS
      <4> QED
        BY <3>3, <4>1, FS_Singleton
    <3>6. PhaseInv'
      <4>1. pushEdits' \in Nat
        BY <1>1 DEF PhaseInv
      <4> QED
        BY <1>2, <3>3, <3>5, <4>1 DEF PhaseInv, Pushing
    <3> QED
      BY <1>2, <1>3, <3>4, <3>6 DEF PushIInv
  <2> QED
    BY <2>1, <2>2
<1> QED
    BY <1>4, <1>5

-----------------------------------------------------------------------------
(* The pusher                                                               *)

LEMMA PushCardinalityIs == \A S : Push!Cardinality(S) = Cardinality(S)
    BY DEF Push!Cardinality, Cardinality

(* A pusher at work, as the invariant has it.                               *)
Working ==
    /\ Pushing /\ result = "none"
    /\ Push!R!Finished /\ ~readAborted /\ IsFiniteSet(DOMAIN read)
    /\ CountInv /\ ResultInv /\ OrderInv

(* Start: the folders are sorted, or their parents form a cycle.            *)
LEMMA StartStays ==
    ASSUME IsFiniteSet(DOMAIN read), Unstarted, Push!P!Start
    PROVE  /\ phase' \in {"folders", "done"} /\ (phase' = "folders" => result' = "none")
           /\ CountInv' /\ ResultInv' /\ OrderInv'
<1> USE DEF Push!P!Refs
<1>1. /\ at' = [r \in DOMAIN read |-> "waiting"]
      /\ UNCHANGED <<request, read, group, cancelled, success, pushFailed>>
      /\ group = {} /\ success = 0 /\ pushFailed = 0 /\ result = "none" /\ ~cancelled
    BY DEF Push!P!Start, Unstarted
<1>2. PICK ns \in Push!P!NodeSets :
          /\ nodes' = ns
          /\ \/ /\ Push!P!Sorted(ns)
                /\ phase' = "folders"
                /\ levels' = Push!P!LevelsOf(ns)
                /\ UNCHANGED result
             \/ /\ ~Push!P!Sorted(ns)
                /\ Push!P!Return("error")
                /\ UNCHANGED levels
    BY DEF Push!P!Start
<1>3. ns \subseteq Push!P!Folders /\ ns \subseteq DOMAIN read /\ IsFiniteSet(ns)
    BY <1>2, FS_Subset DEF Push!P!NodeSets, Push!P!Folders
<1>4. ASSUME NEW p \in ns, NEW q \in ns, Push!P!Uid(p) = Push!P!Uid(q) PROVE p = q
  <2> DEFINE A == {n \in ns : Push!P!Uid(n) = Push!P!Uid(q)}
  <2>1. Cardinality(A) = 1
    BY <1>2, <1>3, CardinalityIs DEF Push!P!NodeSets
  <2>2. IsFiniteSet(A)
    BY <1>3, FS_Subset
  <2>3. p \in A /\ q \in A
    BY <1>4
  <2>4. \E x : A = {x}
    <3> HIDE DEF A
    <3> QED
      BY <2>1, <2>2, FS_Singleton
  <2> HIDE DEF A
  <2> QED
    BY <2>3, <2>4
<1>5. ResultInv'
    BY <1>1, <1>2, <1>3 DEF ResultInv, Push!P!GroupEnded, Push!P!Return, Push!P!Folders
<1>6. CountInv'
  <2>1. (DOMAIN read)' = DOMAIN read
    BY <1>1
  <2>2. at' \in [DOMAIN read -> Labels]
    BY <1>1 DEF Labels
  <2>3. \A r \in DOMAIN read : at'[r] = "waiting"
    BY <1>1
  <2>4. Those({"pushed"})' = {} /\ Those({"failed", "returning"})' = {}
    BY <2>1, <2>3 DEF Those
  <2>5. Cardinality({}) = 0
    BY FS_EmptySet
  <2> QED
    BY <1>1, <2>1, <2>2, <2>3, <2>4, <2>5 DEF CountInv
<1>7. CASE Push!P!Sorted(ns)
  <2>1. phase' = "folders" /\ levels' = Push!P!LevelsOf(ns) /\ result' = result
    BY <1>2, <1>7
  <2>2. PICK ls : ls = Push!P!LevelsOf(ns)
    OBVIOUS
  <2>3. /\ ls \in Seq(SUBSET ns)
        /\ \A q \in ns : \E i \in DOMAIN ls : q \in ls[i]
        /\ \A i \in DOMAIN ls : \A r \in ls[i] :
              Push!P!ParentsIn(r, ns) \subseteq IF i = 1 THEN {} ELSE ls[i - 1]
    BY <1>3, <1>4, <1>7, <2>2, LevelsAre
  <2>4. OrderInv'
    <3>1. \A r : Push!P!ParentsIn(r, nodes)' = Push!P!ParentsIn(r, ns)
      BY <1>1, <1>2 DEF Push!P!ParentsIn, Push!P!Parent
    <3>2. levels' = ls /\ nodes' = ns /\ group' = {}
      BY <1>1, <1>2, <2>1, <2>2
    <3> QED
      BY <2>1, <2>3, <3>1, <3>2 DEF OrderInv
  <2> QED
    BY <1>1, <1>5, <1>6, <2>1, <2>4
<1>8. CASE ~Push!P!Sorted(ns)
  <2>1. phase' = "done" /\ result' = "error"
    BY <1>2, <1>8 DEF Push!P!Return
  <2> QED
    BY <1>5, <1>6, <2>1 DEF OrderInv, Pushing
<1> QED
    BY <1>7, <1>8

(* PushLevel: the group that ended leaves what the next one waits for.      *)
LEMMA LevelStays ==
    ASSUME Working, Push!P!PushLevel
    PROVE  CountInv' /\ ResultInv' /\ OrderInv'
<1> USE DEF Push!P!Refs
<1>1. /\ phase = "folders" /\ Push!P!GroupEnded /\ ~cancelled /\ levels # <<>>
      /\ group' = Head(levels) /\ levels' = Tail(levels)
      /\ UNCHANGED <<request, read, phase, nodes, at, cancelled, result, success, pushFailed>>
    BY DEF Push!P!PushLevel
<1>2. \A r \in group : Settled(r)
    BY <1>1 DEF Push!P!GroupEnded, Settled
<1>3. /\ levels \in Seq(SUBSET nodes) /\ group \subseteq nodes
      /\ \A q \in nodes :
            Settled(q) \/ q \in group \/ \E i \in DOMAIN levels : q \in levels[i]
      /\ \A i \in DOMAIN levels : \A r \in levels[i] : \A q \in Push!P!ParentsIn(r, nodes) :
            IF i = 1 THEN Settled(q) \/ q \in group ELSE q \in levels[i - 1]
    BY <1>1 DEF Working, OrderInv
<1>4. /\ Len(levels) \in Nat /\ Len(levels) > 0 /\ DOMAIN levels = 1..Len(levels)
      /\ Head(levels) = levels[1] /\ 1 \in DOMAIN levels
      /\ levels' \in Seq(SUBSET nodes) /\ DOMAIN levels' = 1..(Len(levels) - 1)
      /\ \A i \in DOMAIN levels' : levels'[i] = levels[i + 1] /\ i + 1 \in DOMAIN levels
    BY <1>1, <1>3, EmptySeq, LenProperties
<1>5. group' \subseteq nodes /\ nodes \subseteq Push!P!Folders
    BY <1>1, <1>3, <1>4 DEF Working, ResultInv
<1>6. CountInv'
    BY <1>1, <1>2 DEF Working, CountInv, Those, Settled, Pushing
<1>7. ResultInv'
    BY <1>1, <1>5 DEF Working, ResultInv, Push!P!Folders
<1>8. \A q : Settled(q)' = Settled(q)
    BY <1>1 DEF Settled
<1>9. \A r : Push!P!ParentsIn(r, nodes)' = Push!P!ParentsIn(r, nodes)
    BY <1>1 DEF Push!P!ParentsIn, Push!P!Parent
<1>10. ASSUME NEW r \in group', NEW q \in IF Push!P!IsFolder(r) THEN Push!P!ParentsIn(r, nodes) ELSE nodes
       PROVE  Settled(q)
  <2>1. Push!P!IsFolder(r)
    BY <1>5 DEF Push!P!Folders
  <2>2. Settled(q) \/ q \in group
    BY <1>1, <1>3, <1>4, <1>10, <2>1
  <2> QED
    BY <1>2, <2>2
<1>11. ASSUME NEW q \in nodes
       PROVE  Settled(q) \/ q \in group' \/ \E i \in DOMAIN levels' : q \in levels'[i]
  <2>1. ASSUME NEW i \in DOMAIN levels, q \in levels[i], i # 1 PROVE \E j \in DOMAIN levels' : q \in levels'[j]
    <3>1. i - 1 \in DOMAIN levels' /\ (i - 1) + 1 = i
      BY <1>4, <2>1
    <3>2. levels'[i - 1] = levels[i]
      BY <1>4, <3>1
    <3> QED
      BY <2>1, <3>1, <3>2
  <2> QED
    BY <1>1, <1>2, <1>3, <1>4, <2>1
<1>12. ASSUME NEW i \in DOMAIN levels', NEW r \in levels'[i], NEW q \in Push!P!ParentsIn(r, nodes)
       PROVE  IF i = 1 THEN Settled(q) \/ q \in group' ELSE q \in levels'[i - 1]
  <2>1. i + 1 \in DOMAIN levels /\ levels'[i] = levels[i + 1] /\ (i + 1) - 1 = i /\ i + 1 # 1
    BY <1>4
  <2>2. q \in levels[i]
    BY <1>3, <2>1
  <2>3. CASE i = 1
    BY <1>1, <1>4, <2>2, <2>3
  <2>4. CASE i # 1
    <3>1. i - 1 \in DOMAIN levels' /\ (i - 1) + 1 = i
      BY <1>4, <2>4
    <3> QED
      BY <1>4, <2>2, <2>4, <3>1
  <2> QED
    BY <2>3, <2>4
<1>13. OrderInv'
  <2>1. \A r \in group' : \A q \in IF Push!P!IsFolder(r) THEN Push!P!ParentsIn(r, nodes)' ELSE nodes' : Settled(q)'
    BY <1>1, <1>8, <1>9, <1>10
  <2>2. \A q \in nodes' : Settled(q)' \/ q \in group' \/ \E i \in DOMAIN levels' : q \in levels'[i]
    BY <1>1, <1>8, <1>11
  <2>3. \A i \in DOMAIN levels' : \A r \in levels'[i] : \A q \in Push!P!ParentsIn(r, nodes)' :
            IF i = 1 THEN Settled(q)' \/ q \in group' ELSE q \in levels'[i - 1]
    BY <1>8, <1>9, <1>12
  <2>4. levels' \in Seq(SUBSET nodes') /\ group' \subseteq nodes' /\ phase' = "folders"
    BY <1>1, <1>4, <1>5
  <2> QED
    BY <2>1, <2>2, <2>3, <2>4 DEF OrderInv
<1> QED
    BY <1>6, <1>7, <1>13

(* What has ended well or badly is counted, so a summary of as many as there*)
(* are resources has them all.                                              *)
LEMMA AllCounted ==
    ASSUME CountInv, Pushing, IsFiniteSet(DOMAIN read), success + pushFailed >= Cardinality(DOMAIN read)
    PROVE  \A r \in DOMAIN read : at[r] \in {"pushed", "failed", "returning"}
<1> DEFINE A == Those({"pushed"})
           B == Those({"failed", "returning"})
<1>1. success = Cardinality(A) /\ pushFailed = Cardinality(B)
    BY DEF CountInv
<1>2. A \subseteq DOMAIN read /\ B \subseteq DOMAIN read /\ A \cap B = {}
    BY DEF Those, Push!P!Refs
<1>3. A \cup B = {r \in DOMAIN read : at[r] \in {"pushed", "failed", "returning"}}
    BY DEF Those, Push!P!Refs
<1> HIDE DEF A, B
<1>4. IsFiniteSet(A) /\ IsFiniteSet(B)
    BY <1>2, FS_Subset
<1>5. Cardinality(A \cap B) = 0
    BY <1>2, FS_EmptySet
<1>6. Cardinality(A) \in Nat /\ Cardinality(B) \in Nat /\ Cardinality(DOMAIN read) \in Nat
    BY <1>4, FS_CardinalityType
<1>7. IsFiniteSet(A \cup B) /\ Cardinality(A \cup B) = Cardinality(A) + Cardinality(B)
  <2>1. /\ IsFiniteSet(A \cup B)
        /\ Cardinality(A \cup B) = Cardinality(A) + Cardinality(B) - Cardinality(A \cap B)
    BY <1>4, FS_Union
  <2> QED
    BY <1>5, <1>6, <2>1
<1>8. A \cup B \in SUBSET DOMAIN read
    BY <1>2
<1>9. Cardinality(A \cup B) <= Cardinality(DOMAIN read)
    BY <1>8, FS_Subset
<1>10. Cardinality(DOMAIN read) = Cardinality(A \cup B)
    BY <1>1, <1>6, <1>7, <1>9
<1>11. A \cup B = DOMAIN read
    BY <1>8, <1>10, FS_Subset
<1> QED
    BY <1>3, <1>11

(* PushRest: every folder has ended, so everything else may begin.          *)
LEMMA RestStays ==
    ASSUME Working, Push!P!PushRest
    PROVE  /\ phase' \in {"rest", "done"} /\ (phase' = "rest" => result' = "none")
           /\ CountInv' /\ ResultInv' /\ OrderInv'
<1> USE DEF Push!P!Refs
<1>1. /\ phase = "folders" /\ Push!P!GroupEnded /\ ~cancelled /\ levels = <<>>
      /\ UNCHANGED <<request, read, nodes, at, cancelled, success, pushFailed>>
    BY DEF Push!P!PushRest
<1>2. \A r \in group : Settled(r)
    BY <1>1 DEF Push!P!GroupEnded, Settled
<1>3. \A q \in nodes : Settled(q)
    BY <1>1, <1>2 DEF Working, OrderInv
<1>4. CASE success + pushFailed >= Cardinality(DOMAIN read)
  <2>1. phase' = "done" /\ result' = "nil" /\ group' = group
    BY <1>4, CardinalityIs DEF Push!P!PushRest, Push!P!Return
  <2>2. \A r \in DOMAIN read : at[r] \in {"pushed", "failed", "returning"}
    BY <1>4, AllCounted DEF Working
  <2>3. \A r \in DOMAIN read : at[r] \in Push!P!Ended
    BY <1>2, <2>2 DEF Working, CountInv, Settled, Push!P!Ended
  <2>4. CountInv'
    BY <1>1, <2>1 DEF Working, CountInv, Those, Pushing
  <2>5. ResultInv'
    BY <1>1, <1>2, <2>1, <2>3 DEF Working, ResultInv, Settled, Push!P!GroupEnded, Push!P!Folders
  <2>6. OrderInv'
    BY <2>1 DEF OrderInv, Pushing
  <2> QED
    BY <2>1, <2>4, <2>5, <2>6
<1>5. CASE ~(success + pushFailed >= Cardinality(DOMAIN read))
  <2>1. phase' = "rest" /\ group' = Push!P!Refs \ Push!P!Folders /\ result' = result
    BY <1>5, CardinalityIs DEF Push!P!PushRest
  <2>2. CountInv'
    BY <1>1, <1>2, <2>1 DEF Working, CountInv, Those, Pushing, Settled
  <2>3. ResultInv'
    BY <1>1, <2>1 DEF Working, ResultInv, Push!P!Folders
  <2>4. OrderInv'
    BY <1>1, <1>3, <2>1 DEF OrderInv, Settled, Push!P!Folders
  <2> QED
    BY <2>1, <2>2, <2>3, <2>4 DEF Working
<1> QED
    BY <1>4, <1>5

LEMMA FinishStays ==
    ASSUME Working, Push!P!Finish
    PROVE  phase' = "done" /\ CountInv' /\ ResultInv' /\ OrderInv'
<1> USE DEF Push!P!Refs
<1>1. /\ Push!P!GroupEnded /\ phase' = "done" /\ (cancelled \/ phase = "rest")
      /\ result' = IF cancelled THEN "error" ELSE "nil"
      /\ UNCHANGED <<request, read, group, nodes, at, cancelled, success, pushFailed>>
    BY DEF Push!P!Finish, Push!P!Return
<1>2. \A r \in group : Settled(r)
    BY <1>1 DEF Push!P!GroupEnded, Settled
<1>3. CountInv'
    BY <1>1 DEF Working, CountInv, Those, Pushing
<1>4. ResultInv'
  <2>1. ASSUME phase = "rest", NEW r \in DOMAIN read
        PROVE  at[r] \in Push!P!Ended \/ r \in Push!P!Folders \ nodes
    BY <1>2, <2>1 DEF Working, OrderInv, Settled
  <2> QED
    BY <1>1, <2>1 DEF Working, ResultInv, Push!P!GroupEnded, Push!P!Folders
<1>5. OrderInv'
    BY <1>1 DEF OrderInv, Pushing
<1> QED
    BY <1>1, <1>3, <1>4, <1>5

(* What a step of the callback for r does, and what of it is counted.       *)
Counted(r, label) ==
    \/ /\ label = "pushed" /\ at[r] # "returning" /\ success' = success + 1
       /\ UNCHANGED <<pushFailed, cancelled>>
    \/ /\ label = (IF request.stopOnError THEN "returning" ELSE "failed") /\ at[r] # "returning"
       /\ pushFailed' = pushFailed + 1 /\ UNCHANGED <<success, cancelled>>
    \/ /\ label = "failed" /\ at[r] = "returning" /\ cancelled' = TRUE
       /\ UNCHANGED <<success, pushFailed>>
    \/ /\ label \in {"get", "write", "sent", "skipped"} /\ at[r] # "returning"
       /\ UNCHANGED <<success, pushFailed, cancelled>>

Moves(r, label) ==
    /\ at' = [at EXCEPT ![r] = label] /\ at[r] \notin Push!P!Ended
    /\ UNCHANGED <<request, read, phase, levels, group, nodes, result, pushEdits>>
    /\ Counted(r, label)

LEMMA CallbackMoves ==
    ASSUME NEW r, Push!P!PushStep(r)
    PROVE  \E label : Moves(r, label)
<1> USE DEF Push!P!Goto, Push!P!Fail, Push!P!Ended, Push!P!World
<1>1. CASE Push!P!Begin(r)
    BY <1>1 DEF Push!P!Begin, Moves, Counted
<1>2. CASE Push!P!RequestError(r)
    BY <1>2 DEF Push!P!RequestError, Moves, Counted
<1>3. CASE Push!P!Get(r)
    BY <1>3 DEF Push!P!Get, Moves, Counted
<1>4. CASE Push!P!SendWrite(r)
    BY <1>4 DEF Push!P!SendWrite, Moves, Counted
<1>5. CASE Push!P!Written(r)
    BY <1>5 DEF Push!P!Written, Moves, Counted
<1>6. CASE Push!P!Refused(r)
    BY <1>6 DEF Push!P!Refused, Moves, Counted
<1>7. CASE Push!P!ReturnError(r)
    BY <1>7 DEF Push!P!ReturnError, Moves, Counted
<1> QED
    BY <1>1, <1>2, <1>3, <1>4, <1>5, <1>6, <1>7 DEF Push!P!PushStep

LEMMA MovesStay ==
    ASSUME Working, NEW r \in group, NEW label, Moves(r, label)
    PROVE  CountInv' /\ ResultInv' /\ OrderInv'
<1> USE DEF Push!P!Refs
<1>1. /\ r \in DOMAIN read /\ at \in [DOMAIN read -> Labels] /\ Pushing
      /\ at[r] \notin {"pushed", "failed", "skipped"} /\ IsFiniteSet(DOMAIN read)
    BY DEF Working, CountInv, ResultInv, Moves, Push!P!Ended
<1>2. /\ UNCHANGED <<request, read, phase, levels, group, nodes, result>>
      /\ at' = [at EXCEPT ![r] = label] /\ Counted(r, label)
    BY DEF Moves
<1>3. label \in Labels \ {"waiting"}
    BY <1>2 DEF Counted, Labels
<1>4. /\ at' \in [DOMAIN read -> Labels] /\ at'[r] = label
      /\ \A q \in DOMAIN read : q # r => at'[q] = at[q]
    BY <1>1, <1>2, <1>3
<1>5. ASSUME NEW labels, at[r] \notin labels
      PROVE  /\ Those(labels)' = IF label \in labels THEN Those(labels) \cup {r} ELSE Those(labels)
             /\ Cardinality(Those(labels)') =
                   IF label \in labels THEN Cardinality(Those(labels)) + 1 ELSE Cardinality(Those(labels))
  <2>1. r \notin Those(labels) /\ Those(labels) \subseteq DOMAIN read
    BY <1>5 DEF Those
  <2>2. Those(labels)' = IF label \in labels THEN Those(labels) \cup {r} ELSE Those(labels)
    BY <1>1, <1>2, <1>4, <1>5 DEF Those
  <2>3. PICK T : T = Those(labels)
    OBVIOUS
  <2>4. IsFiniteSet(T) /\ Cardinality(T \cup {r}) = Cardinality(T) + 1
    BY <1>1, <2>1, <2>3, FS_Subset, FS_AddElement
  <2> QED
    BY <2>2, <2>3, <2>4
<1>6. CountInv'
  <2>1. success = Cardinality(Those({"pushed"})) /\ pushFailed = Cardinality(Those({"failed", "returning"}))
    BY <1>1 DEF Working, CountInv
  <2>2. success' = Cardinality(Those({"pushed"})')
    <3>1. at[r] \notin {"pushed"}
      BY <1>1
    <3>2. Cardinality(Those({"pushed"})') = IF label \in {"pushed"} THEN Cardinality(Those({"pushed"})) + 1
                                            ELSE Cardinality(Those({"pushed"}))
      BY <1>5, <3>1
    <3> QED
      BY <1>2, <2>1, <3>2 DEF Counted
  <2>3. pushFailed' = Cardinality(Those({"failed", "returning"})')
    <3>1. CASE at[r] = "returning"
      <4>1. label = "failed" /\ pushFailed' = pushFailed
        BY <1>2, <3>1 DEF Counted
      <4>2. Those({"failed", "returning"})' = Those({"failed", "returning"})
        BY <1>1, <1>2, <1>4, <3>1, <4>1 DEF Those
      <4> QED
        BY <2>1, <4>1, <4>2
    <3>2. CASE at[r] # "returning"
      <4>1. at[r] \notin {"failed", "returning"}
        BY <1>1, <3>2
      <4>2. Cardinality(Those({"failed", "returning"})') =
              IF label \in {"failed", "returning"} THEN Cardinality(Those({"failed", "returning"})) + 1
              ELSE Cardinality(Those({"failed", "returning"}))
        BY <1>5, <4>1
      <4> QED
        BY <1>2, <2>1, <3>2, <4>2 DEF Counted
    <3> QED
      BY <3>1, <3>2
  <2>4. \A q \in DOMAIN read' \ group' : at'[q] \in Push!P!Ended \cup {"waiting"}
    BY <1>1, <1>2, <1>4 DEF Working, CountInv
  <2>5. request'.stopOnError /\ ~cancelled' => \A q \in DOMAIN read' : at'[q] # "failed"
    BY <1>1, <1>2, <1>4 DEF Working, CountInv, Counted
  <2> QED
    BY <1>2, <1>4, <2>2, <2>3, <2>4, <2>5 DEF CountInv
<1>7. ResultInv'
    BY <1>1, <1>2 DEF Working, ResultInv, Pushing, Push!P!Folders
<1>8. OrderInv'
  <2>1. \A q : q \in DOMAIN read /\ Settled(q) => Settled(q)'
    BY <1>1, <1>4 DEF Settled, Push!P!Ended
  <2>2. \A q : Push!P!ParentsIn(q, nodes)' = Push!P!ParentsIn(q, nodes)
    BY <1>2 DEF Push!P!ParentsIn, Push!P!Parent
  <2>3. nodes \subseteq DOMAIN read /\ \A q : Push!P!ParentsIn(q, nodes) \subseteq nodes
    BY DEF Working, ResultInv, Push!P!Folders, Push!P!ParentsIn
  <2>4. (Push!P!Refs \ Push!P!Folders)' = Push!P!Refs \ Push!P!Folders
    BY <1>2 DEF Push!P!Folders
  <2>5. \A p \in group' : \A q \in IF Push!P!IsFolder(p) THEN Push!P!ParentsIn(p, nodes)' ELSE nodes' : Settled(q)'
    BY <1>1, <1>2, <2>1, <2>2, <2>3 DEF Working, OrderInv
  <2>6. phase = "folders" =>
          /\ (levels \in Seq(SUBSET nodes))' /\ (group \subseteq nodes)'
          /\ \A q \in nodes' :
                Settled(q)' \/ q \in group' \/ \E i \in DOMAIN levels' : q \in levels'[i]
          /\ \A i \in DOMAIN levels' : \A p \in levels'[i] : \A q \in Push!P!ParentsIn(p, nodes)' :
                IF i = 1 THEN Settled(q)' \/ q \in group' ELSE q \in levels'[i - 1]
    BY <1>2, <2>1, <2>2, <2>3 DEF Working, OrderInv
  <2>7. phase = "rest" => group' = (Push!P!Refs \ Push!P!Folders)' /\ \A q \in nodes' : Settled(q)'
    BY <1>2, <2>1, <2>3, <2>4 DEF Working, OrderInv
  <2> QED
    BY <1>2, <2>5, <2>6, <2>7 DEF OrderInv
<1> QED
    BY <1>6, <1>7, <1>8

LEMMA PushStepStays ==
    ASSUME PushIInv, PushStep
    PROVE  PushIInv'
<1>1. /\ pc = "push" /\ pc' = pc
      /\ Push!R!Finished /\ ~readAborted /\ Push!R!Finished'
      /\ UNCHANGED <<pushTree, walked, pathCh, pathClosed, reader, resCh, resClosed, readAborted>>
    BY DEF PushStep, Push!Push, Push!readerVars, vars, Push!R!Finished
<1>2. PhaseInv /\ ReadInv /\ CountInv /\ ResultInv /\ OrderInv
    BY DEF PushIInv
<1>3. CASE Push!P!Start \/ Push!P!PushLevel \/ Push!P!PushRest \/ Push!P!Finish
  <2>1. UNCHANGED <<request, read, pushEdits>>
    BY <1>3 DEF Push!P!Start, Push!P!PushLevel, Push!P!PushRest, Push!P!Finish, Push!P!World
  <2>2. ReadInv'
    BY <1>1, <1>2, <2>1, ReadSame DEF inputOfPush, readerVars
  <2>3. /\ CountInv' /\ ResultInv' /\ OrderInv'
        /\ phase' \in {"folders", "rest", "done"} /\ (phase' # "done" => result' = "none")
    <3>1. CASE Push!P!Start
      <4>1. phase = "idle"
        BY <3>1 DEF Push!P!Start
      <4> QED
        BY <1>2, <3>1, <4>1, StartStays DEF PhaseInv
    <3>2. CASE Push!P!PushLevel
      <4>1. phase = "folders" /\ phase' = phase /\ result' = result
        BY <3>2 DEF Push!P!PushLevel
      <4> QED
        BY <1>1, <1>2, <3>2, <4>1, LevelStays DEF PhaseInv, Working, Pushing
    <3>3. CASE Push!P!PushRest
      <4>1. phase = "folders"
        BY <3>3 DEF Push!P!PushRest
      <4> QED
        BY <1>1, <1>2, <3>3, <4>1, RestStays DEF PhaseInv, Working, Pushing
    <3>4. CASE Push!P!Finish
      <4>1. phase \in {"folders", "rest"}
        BY <3>4 DEF Push!P!Finish
      <4> QED
        BY <1>1, <1>2, <3>4, <4>1, FinishStays DEF PhaseInv, Working, Pushing
    <3> QED
      BY <1>3, <3>1, <3>2, <3>3, <3>4
  <2>4. PhaseInv'
    BY <1>1, <1>2, <2>1, <2>3 DEF PhaseInv, Pushing
  <2> QED
    BY <2>2, <2>3, <2>4 DEF PushIInv
<1>4. CASE \E r \in group : Push!P!PushStep(r)
  <2>1. PICK r \in group : Push!P!PushStep(r)
    BY <1>4
  <2>2. PICK label : Moves(r, label)
    BY <2>1, CallbackMoves
  <2>3. at[r] \notin Push!P!Ended /\ UNCHANGED <<request, read, phase, result, pushEdits>>
    BY <2>2 DEF Moves
  <2>4. Working
    BY <1>1, <1>2, <2>3 DEF PhaseInv, ResultInv, Unstarted, Working, Pushing, Push!P!GroupEnded
  <2>5. CountInv' /\ ResultInv' /\ OrderInv'
    BY <2>2, <2>4, MovesStay
  <2>6. ReadInv'
    BY <1>1, <1>2, <2>3, ReadSame DEF inputOfPush, readerVars
  <2>7. PhaseInv'
    BY <1>1, <1>2, <2>3, <2>4 DEF PhaseInv, Working, Pushing
  <2> QED
    BY <2>5, <2>6, <2>7 DEF PushIInv
<1> QED
    BY <1>3, <1>4 DEF PushStep, Push!Push

LEMMA OthersStay ==
    ASSUME PushIInv, Others
    PROVE  PushIInv'
<1>1. PICK k : Push!P!EditByOthers(k)
    BY DEF Others, Push!Others
<1>2. /\ pc = "push" /\ pc' = pc /\ pushEdits' = pushEdits + 1
      /\ UNCHANGED <<pushTree, walked, pathCh, pathClosed, reader, resCh, resClosed, readAborted>>
      /\ UNCHANGED <<request, read, pusherVars>> /\ phase # "idle"
    BY <1>1 DEF Others, Push!Others, Push!readerVars, vars, Push!P!EditByOthers, Push!P!pusherVars, pusherVars
<1>3. CountInv' /\ ResultInv' /\ OrderInv'
    BY <1>2, PusherSame DEF PushIInv
<1>4. ReadInv'
    BY <1>2, ReadSame DEF PushIInv, inputOfPush, readerVars
<1>5. PhaseInv'
    BY <1>2 DEF PushIInv, PhaseInv, Pushing, Push!R!Finished, pusherVars
<1> QED
    BY <1>3, <1>4, <1>5 DEF PushIInv

LEMMA PushStart == CommandsInit => PushIInv
<1> SUFFICES ASSUME CommandsInit PROVE PushIInv
    OBVIOUS
<1>1. Push!R!Init /\ Push!P!Init /\ pushEdits = 0
      /\ \/ pushTree = <<>> /\ versions = <<>>
         \/ pushTree \in PushTrees /\ pc = "push"
    BY DEF CommandsInit, Push!Init
<1>2. phase = "idle" /\ Unstarted
    BY <1>1 DEF Push!P!Init, Unstarted
<1>3. Len(pushTree) \in Nat /\ DOMAIN pushTree = 1..Len(pushTree)
  <2>1. CASE pushTree \in PushTrees
    <3>1. pushTree \in Seq(ToSet(pushTree))
      BY <2>1, LimitsAssumption
    <3> QED
      BY <3>1, LenProperties
  <2> QED
    BY <1>1, <2>1
<1>4. ReadInv
  <2>1. /\ walked = 0 /\ pathCh = <<>> /\ resCh = <<>>
        /\ pathClosed = FALSE /\ resClosed = FALSE /\ readAborted = FALSE
        /\ reader = [f \in DOMAIN pushTree |-> "none"]
    BY <1>1 DEF Push!R!Init
  <2>2. walked \in 0..Len(pushTree) /\ 1..walked = {}
    BY <2>1, <1>3
  <2>3. /\ pathCh \in Seq(DOMAIN pushTree) /\ resCh \in Seq(DOMAIN pushTree)
        /\ \A f \in DOMAIN pushTree : f \notin ToSet(resCh)
    BY <2>1 DEF ToSet
  <2>4. DOMAIN reader = DOMAIN pushTree /\ \A f \in DOMAIN pushTree : reader[f] # "sending"
    BY <2>1
  <2>5. readAborted \in BOOLEAN
    BY <2>1
  <2> QED
    BY <2>1, <2>2, <2>3, <2>4, <2>5, <1>3 DEF ReadInv
<1>5. PhaseInv
  <2>1. IsFiniteSet(DOMAIN read)
    BY <1>1, FS_EmptySet DEF Push!R!Init
  <2> QED
    BY <1>1, <1>2, <2>1 DEF PhaseInv, Unread, Push!R!Init, Pushing
<1> QED
    BY <1>2, <1>4, <1>5, IdleIsFine DEF PushIInv

LEMMA PushStays == PushIInv /\ PullDeleteIInv /\ [CommandsNext]_commandVars => PushIInv'
<1> SUFFICES ASSUME PushIInv, PullDeleteIInv, [CommandsNext]_commandVars PROVE PushIInv'
    OBVIOUS
<1>1. CASE Command
  <2>1. pc \notin {"push", "done"}
    BY <1>1 DEF Command, Step, Refuse, DiscoveryFails, Discover, List, Get, NextRound, FetchFails,
       FetchAborted, Collect, Unwritable, Open, Encode, Report, Read, Send, Deleted, DeleteFails
  <2> QED
    BY <1>1, <2>1, PushSame DEF Command
<1>2. CASE World
    BY <1>2, PushSame DEF World, OthersEdit, Killed
<1>3. CASE EditorFails \/ EditCancelled
    BY <1>3, PushSame DEF EditorFails, EditCancelled
<1>4. CASE PushEnds
    BY <1>4, PushSame DEF PushEnds
<1>5. CASE UNCHANGED commandVars
    BY <1>5, PushSame DEF commandVars, vars
<1> QED
    BY <1>1, <1>2, <1>3, <1>4, <1>5, ReadTreeStays, BeginningsStay, PushStepStays, OthersStay
    DEF CommandsNext

LEMMA PushInvariant == CommandsSpec => []PushIInv
    BY PushStart, PushStays, PullDeleteInvariant, PTL DEF CommandsSpec

-----------------------------------------------------------------------------
(* Nothing is sent for a folder before its parent's push has ended, nor for *)
(* anything else before every folder's has: whatever the tree, however many *)
(* callbacks run at a time and in whichever order they go on, fail or are   *)
(* cancelled (Push, pushFolders, ForEachConcurrently).                      *)
THEOREM ParentsComeFirst == CommandsSpec => []ParentsSettledFirst
<1>1. PushIInv => ParentsSettledFirst
  <2> SUFFICES ASSUME PushIInv, NEW r \in group, at[r] \in {"get", "write", "sent"},
                      NEW q \in IF Push!P!IsFolder(r) THEN Push!P!ParentsIn(r, nodes) ELSE nodes
               PROVE  at[q] \in Push!P!Ended
    BY DEF ParentsSettledFirst, Push!ParentsSettledFirst
  <2>1. Pushing
    BY DEF PushIInv, PhaseInv, Unstarted, Pushing, ResultInv, Push!P!GroupEnded, Push!P!Ended
  <2> QED
    BY <2>1 DEF PushIInv, OrderInv, Settled
<1> QED
    BY <1>1, PushInvariant, PTL

(* A push that returns no error has handled every resource, and its summary *)
(* has each of them once: PushReportIsTrue but for what a push without      *)
(* faults achieves (Push, pushSingleResource).                              *)
THEOREM SummaryIsTrue == CommandsSpec => []Push!EveryResourceAccounted
<1>1. PushIInv => Push!EveryResourceAccounted
  <2> SUFFICES ASSUME PushIInv, result = "nil" PROVE Push!EveryResourceAccounted
    BY DEF Push!EveryResourceAccounted
  <2>1. /\ at \in [DOMAIN read -> Labels] /\ ~cancelled
        /\ success = Cardinality(Those({"pushed"}))
        /\ pushFailed = Cardinality(Those({"failed", "returning"}))
        /\ \A r \in DOMAIN read \ group : at[r] \in Push!P!Ended \cup {"waiting"}
        /\ request.stopOnError => \A r \in DOMAIN read : at[r] # "failed"
        /\ \A r \in DOMAIN read : at[r] \in Push!P!Ended \/ r \in Push!P!Folders \ nodes
        /\ \A r \in group : at[r] \in Push!P!Ended
    BY DEF PushIInv, CountInv, ResultInv, Push!P!GroupEnded, Push!P!Refs
  <2>2. \A r \in DOMAIN read : at[r] # "returning"
    BY <2>1 DEF Push!P!Ended
  <2>3. Those({"pushed"}) = {r \in DOMAIN read : at[r] = "pushed"}
    BY DEF Those, Push!P!Refs
  <2>4. Those({"failed", "returning"}) = {r \in DOMAIN read : at[r] = "failed"}
    BY <2>2 DEF Those, Push!P!Refs
  <2>5. request.stopOnError => pushFailed = 0
    BY <2>1, <2>4, FS_EmptySet
  <2> QED
    BY <2>1, <2>3, <2>4, <2>5, PushCardinalityIs DEF Push!EveryResourceAccounted, Push!P!Refs
<1> QED
    BY <1>1, PushInvariant, PTL

(* Whatever the goroutines of the reader do, and in whichever order, what is*)
(* pushed is all of the tree that could be read (FSReader.Read).            *)
THEOREM NothingIsLeftUnread == CommandsSpec => []Push!ReadIsComplete
<1>1. PushIInv => Push!ReadIsComplete
  <2> SUFFICES ASSUME PushIInv, Pushing, NEW f \in DOMAIN pushTree
               PROVE  IF Push!R!Object(pushTree[f]) THEN Push!R!Ref(pushTree[f]) \in DOMAIN read
                      ELSE ~request.stopOnError
    BY DEF Push!ReadIsComplete, Pushing, Push!Files, Push!P!Refs
  <2>1. resClosed /\ resCh = <<>> /\ ~readAborted
    BY DEF PushIInv, PhaseInv, Push!R!Finished
  <2>2. pathCh = <<>> /\ walked = Len(pushTree) /\ DOMAIN pushTree = 1..Len(pushTree)
        /\ reader[f] \notin {"reading", "sending"}
    BY <2>1 DEF PushIInv, ReadInv, Push!R!Reading
  <2>3. Handled(f)
    BY <2>1, <2>2 DEF PushIInv, ReadInv
  <2> QED
    BY <2>1, <2>2, <2>3 DEF Handled, ToSet
<1> QED
    BY <1>1, PushInvariant, PTL

(* The push replaces an object only in the version it has read of it, so    *)
(* what another user writes between the Get and the Update or Create stays  *)
(* (upsertResource).                                                        *)
THEOREM EditsAreKept == CommandsSpec => NoLostEdit
<1> DEFINE Replaces == \A k \in DOMAIN versions :
                      versions'[k] # versions[k] /\ pushEdits' = pushEdits =>
                          \E r \in group : Push!P!Key(r) = k /\ seen[r] = versions[k]
<1>1. PushIInv /\ [CommandsNext]_commandVars => Replaces
  <2> SUFFICES ASSUME PushIInv, [CommandsNext]_commandVars PROVE Replaces
    OBVIOUS
  <2>1. CASE UNCHANGED versions
    BY <2>1
  <2>2. CASE PushFollows \/ EditSaved
    <3>1. pc # "push" /\ phase = "idle"
      BY <2>2 DEF PushFollows, EditSaved, PushIInv, PhaseInv
    <3>2. versions = <<>>
      BY <3>1 DEF PushIInv, PhaseInv, Unread
    <3> QED
      BY <3>2
  <2>3. CASE PushStep
    <3>1. CASE \E r \in group : Push!P!Written(r)
      <4>1. PICK r \in group : Push!P!Written(r)
        BY <3>1
      <4>2. /\ versions[Push!P!Key(r)] = seen[r]
            /\ \/ versions' = versions
               \/ versions' = [versions EXCEPT ![Push!P!Key(r)] = @ + 1]
        BY <4>1 DEF Push!P!Written, Push!P!Accepts, Push!P!Replaced
      <4>3. ASSUME NEW k \in DOMAIN versions, versions'[k] # versions[k] PROVE k = Push!P!Key(r)
        BY <4>2, <4>3
      <4> QED
        BY <4>2, <4>3
    <3>2. CASE ~\E r \in group : Push!P!Written(r)
      <4>1. UNCHANGED versions
        BY <2>3, <3>2 DEF PushStep, Push!Push, Push!P!Start, Push!P!PushLevel, Push!P!PushRest,
           Push!P!Finish, Push!P!PushStep, Push!P!Begin, Push!P!RequestError, Push!P!Get,
           Push!P!SendWrite, Push!P!Refused, Push!P!ReturnError, Push!P!World
      <4> QED
        BY <2>1, <4>1
    <3> QED
      BY <3>1, <3>2
  <2>4. CASE Others
    <3>1. pushEdits' = pushEdits + 1 /\ pushEdits \in Nat
      BY <2>4 DEF Others, Push!Others, Push!P!EditByOthers, PushIInv, PhaseInv
    <3> QED
      BY <3>1
  <2>5. CASE Command \/ World \/ EditorFails \/ EditCancelled \/ PushEnds \/ ReadTree \/ ReadError
             \/ UNCHANGED commandVars
    <3>1. UNCHANGED versions
      BY <2>5 DEF Command, World, EditorFails, EditCancelled, PushEnds, ReadTree, ReadError,
         Push!Read, Push!ReadError, Push!worldVars, commandVars, pushVars, worldVars
    <3> QED
      BY <2>1, <3>1
  <2> QED
    BY <2>2, <2>3, <2>4, <2>5 DEF CommandsNext
<1> QED
    BY <1>1, PushInvariant, PTL DEF CommandsSpec, NoLostEdit, Push!NoLostEdit

-----------------------------------------------------------------------------
(* What the sort refuses                                                    *)

LEMMA LeastIs ==
    ASSUME NEW S \in SUBSET Nat, S # {}
    PROVE  \E x \in S : \A y \in S : x <= y
<1> DEFINE T == {n \in Nat : \A y \in S : n < y}
<1> SUFFICES ASSUME \A x \in S : \E y \in S : ~(x <= y) PROVE FALSE
    OBVIOUS
<1> DEFINE U == {n \in Nat : \A y \in S : n <= y}
<1>1. 0 \in U
    OBVIOUS
<1>2. ASSUME NEW n \in U PROVE n + 1 \in U
  <2>1. n \notin S
    OBVIOUS
  <2> QED
    BY <2>1
<1>3. U = Nat
  <2> HIDE DEF U
  <2>1. U \in SUBSET Nat
    BY DEF U
  <2> QED
    BY <1>1, <1>2, <2>1, AllNumbers
<1>4. PICK x \in S : TRUE
    OBVIOUS
<1>5. x + 1 \in U
    BY <1>3
<1> QED
    BY <1>4, <1>5

(* The depths of folders, no two of a uid.                                  *)
LEMMA DepthsAre ==
    ASSUME NEW ns, IsFiniteSet(ns),
           \A p, q \in ns : Push!P!Uid(p) = Push!P!Uid(q) => p = q,
           NEW D, D = Push!P!FoldersAt(ns), NEW N, N = Cardinality(ns)
    PROVE  /\ N \in Nat /\ DOMAIN D = 0..N
           /\ \A d \in 0..N : D[d] \subseteq ns
           /\ \A r \in ns : r \in D[0] <=> Push!P!ParentsIn(r, ns) = {}
           /\ \A d \in 1..N : \A r \in ns :
                 r \in D[d] <=> \E p \in D[d - 1] : Push!P!ParentsIn(r, ns) = {p}
<1>1. N \in Nat
    BY FS_CardinalityType
<1>2. /\ DOMAIN D = 0..N
      /\ \A d \in 0..N : D[d] = IF d = 0 THEN Push!P!Roots(ns)
                                ELSE {r \in ns : Push!P!ParentsIn(r, ns) \cap D[d - 1] # {}}
  <2>1. Levelled(D, N, ns)
    BY DepthIs
  <2> QED
    BY <2>1 DEF Levelled
<1>3. \A d \in 0..N : D[d] \subseteq ns
    BY <1>2 DEF Push!P!Roots
<1>4. \A r \in ns : r \in D[0] <=> Push!P!ParentsIn(r, ns) = {}
    BY <1>1, <1>2 DEF Push!P!Roots
<1>5. ASSUME NEW d \in 1..N, NEW r \in ns
      PROVE  r \in D[d] <=> \E p \in D[d - 1] : Push!P!ParentsIn(r, ns) = {p}
  <2>1. d \in 0..N /\ d # 0
    BY <1>1
  <2>2. r \in D[d] <=> \E p \in D[d - 1] : p \in Push!P!ParentsIn(r, ns)
    BY <1>2, <2>1
  <2>3. \A p \in Push!P!ParentsIn(r, ns) : Push!P!ParentsIn(r, ns) = {p}
    BY DEF Push!P!ParentsIn
  <2> QED
    BY <2>2, <2>3
<1> QED
    BY <1>1, <1>2, <1>3, <1>4, <1>5

(* A folder is at one depth only.                                           *)
LEMMA OneDepth ==
    ASSUME NEW ns, IsFiniteSet(ns),
           \A p, q \in ns : Push!P!Uid(p) = Push!P!Uid(q) => p = q,
           NEW D, D = Push!P!FoldersAt(ns), NEW N, N = Cardinality(ns),
           NEW i \in 0..N, NEW j \in 0..N, i < j
    PROVE  D[i] \cap D[j] = {}
<1>1. /\ N \in Nat
      /\ \A d \in 0..N : D[d] \subseteq ns
      /\ \A r \in ns : r \in D[0] <=> Push!P!ParentsIn(r, ns) = {}
      /\ \A d \in 1..N : \A r \in ns :
            r \in D[d] <=> \E p \in D[d - 1] : Push!P!ParentsIn(r, ns) = {p}
    BY DepthsAre
<1> DEFINE Apart(k) == \A m \in 0..N : k < m => D[k] \cap D[m] = {}
           S == {k \in Nat : k <= N => Apart(k)}
<1>2. 0 \in S
  <2>1. ASSUME NEW m \in 0..N, 0 < m, NEW r \in D[0] \cap D[m] PROVE FALSE
    <3>1. r \in ns /\ m \in 1..N
      BY <1>1, <2>1
    <3> QED
      BY <1>1, <2>1, <3>1
  <2> QED
    BY <2>1
<1>3. ASSUME NEW k \in S PROVE k + 1 \in S
  <2>1. ASSUME k + 1 <= N, NEW m \in 0..N, k + 1 < m, NEW r \in D[k + 1] \cap D[m] PROVE FALSE
    <3>1. k \in 0..N /\ k + 1 \in 0..N /\ k + 1 \in 1..N /\ m \in 1..N /\ m - 1 \in 0..N
          /\ k < m - 1 /\ (k + 1) - 1 = k
      BY <1>1, <2>1
    <3>2. r \in ns
      BY <1>1, <2>1, <3>1
    <3>3. PICK p \in D[k] : Push!P!ParentsIn(r, ns) = {p}
      BY <1>1, <2>1, <3>1, <3>2
    <3>4. PICK q \in D[m - 1] : Push!P!ParentsIn(r, ns) = {q}
      BY <1>1, <2>1, <3>1, <3>2
    <3>5. p \in D[m - 1]
      BY <3>3, <3>4
    <3>6. Apart(k)
      BY <1>1, <3>1
    <3> QED
      BY <3>1, <3>3, <3>5, <3>6
  <2>2. ASSUME k + 1 <= N, NEW m \in 0..N, k + 1 < m PROVE D[k + 1] \cap D[m] = {}
    BY <2>1, <2>2
  <2> QED
    BY <2>2
<1>4. S = Nat
  <2> HIDE DEF S
  <2>1. S \in SUBSET Nat
    BY DEF S
  <2> QED
    BY <1>2, <1>3, <2>1, AllNumbers
<1>5. i \in S /\ i <= N
    BY <1>1, <1>4
<1> QED
    BY <1>5

(* The sort succeeds if and only if the parents form no cycle.              *)
LEMMA SortedIsAcyclic ==
    ASSUME NEW ns, IsFiniteSet(ns),
           \A p, q \in ns : Push!P!Uid(p) = Push!P!Uid(q) => p = q
    PROVE  Push!P!Sorted(ns) <=> Push!Acyclic(ns)
<1>1. PICK D, N : D = Push!P!FoldersAt(ns) /\ N = Cardinality(ns)
    OBVIOUS
<1>2. /\ N \in Nat /\ DOMAIN D = 0..N
      /\ \A d \in 0..N : D[d] \subseteq ns
      /\ \A r \in ns : r \in D[0] <=> Push!P!ParentsIn(r, ns) = {}
      /\ \A d \in 1..N : \A r \in ns :
            r \in D[d] <=> \E p \in D[d - 1] : Push!P!ParentsIn(r, ns) = {p}
    BY <1>1, DepthsAre
<1>3. Push!P!Sorted(ns) <=> \A r \in ns : \E d \in 0..N : r \in D[d]
    BY <1>1, <1>2 DEF Push!P!Sorted
<1>4. \A r : \A T \in SUBSET ns : Push!P!ParentsIn(r, T) = Push!P!ParentsIn(r, ns) \cap T
    BY DEF Push!P!ParentsIn
<1>5. ASSUME \A r \in ns : \E d \in 0..N : r \in D[d], NEW T \in SUBSET ns, T # {}
      PROVE  \E r \in T : Push!P!ParentsIn(r, T) = {}
  <2> DEFINE K == {d \in 0..N : D[d] \cap T # {}}
  <2>1. K \in SUBSET Nat /\ K # {}
    BY <1>5
  <2>2. PICK d \in K : \A e \in K : d <= e
    <3> HIDE DEF K
    <3> QED
      BY <2>1, LeastIs
  <2>3. PICK r \in T : r \in D[d]
    OBVIOUS
  <2>4. CASE d = 0
    BY <1>2, <1>4, <2>3, <2>4
  <2>5. CASE d # 0
    <3>1. d \in 1..N /\ d - 1 \in 0..N /\ ~(d <= d - 1)
      BY <1>2, <2>5
    <3>2. PICK p \in D[d - 1] : Push!P!ParentsIn(r, ns) = {p}
      BY <1>2, <2>3, <3>1
    <3>3. p \notin T
      BY <2>2, <3>1, <3>2
    <3> QED
      BY <1>4, <2>3, <3>2, <3>3
  <2> QED
    BY <2>4, <2>5
<1>6. ASSUME Push!Acyclic(ns), ~\A r \in ns : \E d \in 0..N : r \in D[d] PROVE FALSE
  <2> DEFINE U == {r \in ns : \A d \in 0..N : r \notin D[d]}
  <2>1. U \in SUBSET ns /\ U # {}
    BY <1>6
  <2>2. PICK r \in U : Push!P!ParentsIn(r, U) = {}
    <3> HIDE DEF U
    <3> QED
      BY <1>6, <2>1 DEF Push!Acyclic
  <2>3. 0 \in 0..N /\ Push!P!ParentsIn(r, ns) # {}
    BY <1>2
  <2>4. PICK p \in Push!P!ParentsIn(r, ns) : p \notin U
    <3>1. Push!P!ParentsIn(r, U) = Push!P!ParentsIn(r, ns) \cap U
      BY <1>4, <2>1
    <3> HIDE DEF U
    <3> QED
      BY <2>2, <2>3, <3>1
  <2>5. p \in ns /\ Push!P!ParentsIn(r, ns) = {p}
    BY DEF Push!P!ParentsIn
  <2>6. PICK d \in 0..N : p \in D[d]
    BY <2>4, <2>5
  <2>7. d = N
    <3>1. CASE d # N
      <4>1. d + 1 \in 1..N /\ d + 1 \in 0..N /\ (d + 1) - 1 = d
        BY <1>2, <3>1
      <4>2. r \in D[d + 1]
        BY <1>2, <2>2, <2>5, <2>6, <4>1
      <4> QED
        BY <2>2, <4>1, <4>2
    <3> QED
      BY <3>1
  <2> DEFINE S == {k \in Nat : k <= N => D[N - k] # {}}
  <2>8. 0 \in S
    BY <1>2, <2>6, <2>7
  <2>9. ASSUME NEW k \in S PROVE k + 1 \in S
    <3>1. ASSUME k + 1 <= N PROVE D[N - (k + 1)] # {}
      <4>1. N - k \in 1..N /\ N - k \in 0..N /\ (N - k) - 1 = N - (k + 1) /\ k <= N
        BY <1>2, <3>1
      <4>2. PICK q \in D[N - k] : q \in ns
        BY <1>2, <4>1
      <4> QED
        BY <1>2, <4>1, <4>2
    <3> QED
      BY <3>1
  <2>10. S = Nat
    <3> HIDE DEF S
    <3>1. S \in SUBSET Nat
      BY DEF S
    <3> QED
      BY <2>8, <2>9, <3>1, AllNumbers
  <2>11. ASSUME NEW e \in 0..N PROVE D[e] # {}
    <3>1. N - e \in Nat /\ N - e <= N /\ N - (N - e) = e
      BY <1>2
    <3>2. N - e \in S
      BY <2>10, <3>1
    <3> QED
      BY <3>1, <3>2
  <2> DEFINE f == [e \in 0..N |-> CHOOSE q \in D[e] : TRUE]
  <2>12. \A e \in 0..N : f[e] \in D[e]
    BY <2>11
  <2>13. f \in [0..N -> ns]
    BY <1>2, <2>12
  <2>14. IsFiniteSet(0..N) /\ Cardinality(0..N) = N + 1 /\ N < N + 1
    BY <1>2, FS_Interval
  <2>15. PICK i \in 0..N, j \in 0..N : i # j /\ f[i] = f[j]
    <3> HIDE DEF f
    <3>1. Cardinality(0..N) > Cardinality(ns)
      BY <1>1, <1>2, <2>14
    <3> QED
      BY <3>1, <2>13, <2>14, FS_PigeonHole
  <2>16. f[i] \in D[i] \cap D[j]
    BY <2>12, <2>15
  <2>17. i < j \/ j < i
    BY <1>2, <2>15
  <2> QED
    BY <1>1, <2>16, <2>17, OneDepth
<1>7. Push!Acyclic(ns) <=>
        \A T \in SUBSET ns : T # {} => \E r \in T : Push!P!ParentsIn(r, T) = {}
    BY DEF Push!Acyclic
<1> QED
    BY <1>3, <1>5, <1>6, <1>7

(* The folders that are sorted have a uid each.                             *)
LEMMA NodesAre ==
    ASSUME IsFiniteSet(DOMAIN read), NEW ns \in Push!P!NodeSets
    PROVE  /\ ns \subseteq Push!P!Folders /\ ns \subseteq DOMAIN read /\ IsFiniteSet(ns)
           /\ \A p, q \in ns : Push!P!Uid(p) = Push!P!Uid(q) => p = q
<1>1. ns \subseteq Push!P!Folders /\ ns \subseteq DOMAIN read /\ IsFiniteSet(ns)
    BY FS_Subset DEF Push!P!NodeSets, Push!P!Folders, Push!P!Refs
<1>2. ASSUME NEW p \in ns, NEW q \in ns, Push!P!Uid(p) = Push!P!Uid(q) PROVE p = q
  <2> DEFINE A == {n \in ns : Push!P!Uid(n) = Push!P!Uid(q)}
  <2>1. Cardinality(A) = 1
    BY <1>1, CardinalityIs DEF Push!P!NodeSets
  <2>2. IsFiniteSet(A)
    BY <1>1, FS_Subset
  <2>3. p \in A /\ q \in A
    BY <1>2
  <2>4. \E x : A = {x}
    <3> HIDE DEF A
    <3> QED
      BY <2>1, <2>2, FS_Singleton
  <2> HIDE DEF A
  <2> QED
    BY <2>3, <2>4
<1> QED
    BY <1>1, <1>2

LEMMA SortIsSound == IsFiniteSet(DOMAIN read) => Push!SortIsTopological
<1> SUFFICES ASSUME IsFiniteSet(DOMAIN read), NEW ns \in Push!P!NodeSets
             PROVE  /\ Push!P!Sorted(ns) <=> Push!Acyclic(ns)
                    /\ Push!P!Sorted(ns) =>
                         \A i \in DOMAIN Push!P!LevelsOf(ns) : \A r \in Push!P!LevelsOf(ns)[i] :
                            Push!P!ParentsIn(r, ns) \subseteq
                                IF i = 1 THEN {} ELSE Push!P!LevelsOf(ns)[i - 1]
    BY DEF Push!SortIsTopological
<1>1. /\ IsFiniteSet(ns)
      /\ \A p, q \in ns : Push!P!Uid(p) = Push!P!Uid(q) => p = q
    BY NodesAre
<1>2. PICK ls : ls = Push!P!LevelsOf(ns)
    OBVIOUS
<1>3. Push!P!Sorted(ns) => \A i \in DOMAIN ls : \A r \in ls[i] :
            Push!P!ParentsIn(r, ns) \subseteq IF i = 1 THEN {} ELSE ls[i - 1]
    BY <1>1, <1>2, LevelsAre
<1> QED
    BY <1>1, <1>2, <1>3, SortedIsAcyclic

-----------------------------------------------------------------------------
(* Selectors mean what they say                                             *)

LEMMA GreatestIs ==
    ASSUME NEW n \in Nat, NEW S \in SUBSET 1..n, S # {}
    PROVE  \E x \in S : \A y \in S : y <= x
<1> DEFINE T == {n - x : x \in S}
<1>0. \A x \in S : x \in 1..n
    OBVIOUS
<1>1. T \in SUBSET Nat /\ T # {}
  <2>1. \A x \in 1..n : n - x \in Nat
    OBVIOUS
  <2> QED
    BY <1>0, <2>1
<1>2. PICK m \in T : \A k \in T : m <= k
    <2> HIDE DEF T
    <2> QED
      BY <1>1, LeastIs
<1>3. PICK x \in S : m = n - x
    OBVIOUS
<1>4. ASSUME NEW y \in S PROVE y <= x
  <2>1. m <= n - y
    BY <1>2
  <2> HIDE DEF T
  <2>2. x \in 1..n /\ y \in 1..n
    BY <1>0
  <2>3. \A a, b \in 1..n : n - a <= n - b => b <= a
    OBVIOUS
  <2> QED
    BY <1>3, <2>1, <2>2, <2>3
<1> QED
    BY <1>4

(* The first of some resources is one of them.                              *)
LEMMA FirstExists ==
    ASSUME NEW d, NEW places \in SUBSET Nat, places # {}
    PROVE  \E i \in places : d.resources[i] \in FirstAt(d, places)
<1>1. PICK i \in places : \A k \in places : i <= k
    BY LeastIs
<1> QED
    BY <1>1 DEF FirstAt

(* What the index has of a discovery.                                       *)
LEMMA IndexHas ==
    ASSUME disc.groups \in Seq(Groups), disc.resources \in Seq(ResourceTypes)
    PROVE  /\ DOMAIN Index.resources \subseteq 1..Len(disc.resources) /\ Len(disc.resources) \in Nat
           /\ DOMAIN Index.groups \subseteq 1..Len(disc.groups) /\ Len(disc.groups) \in Nat
           /\ ToSet(Index.resources) = Usable(disc)
           /\ ToSet(Index.groups) = {g \in ToSet(disc.groups) : g.name \notin IgnoredGroups}
<1>1. /\ DOMAIN disc.resources = 1..Len(disc.resources) /\ Len(disc.resources) \in Nat
      /\ DOMAIN disc.groups = 1..Len(disc.groups) /\ Len(disc.groups) \in Nat
    BY LenProperties
<1>2. /\ DOMAIN Index.resources = {i \in DOMAIN disc.resources :
             disc.resources[i].group \notin IgnoredGroups /\ disc.resources[i].usable}
      /\ \A i \in DOMAIN Index.resources : Index.resources[i] = disc.resources[i]
      /\ DOMAIN Index.groups = {i \in DOMAIN disc.groups : disc.groups[i].name \notin IgnoredGroups}
      /\ \A i \in DOMAIN Index.groups : Index.groups[i] = disc.groups[i]
    BY DEF Index, FilterDiscoveryResults, Restrict
<1>3. \A f : ToSet(f) = {f[i] : i \in DOMAIN f}
    BY DEF ToSet
<1>4. ToSet(Index.resources) = Usable(disc)
    BY <1>2, <1>3 DEF Usable
<1>5. ToSet(Index.groups) = {g \in ToSet(disc.groups) : g.name \notin IgnoredGroups}
    BY <1>2, <1>3
<1> QED
    BY <1>1, <1>2, <1>4, <1>5

LEMMA OneOrder == ASSUME NEW n \in Nat PROVE \A x, y \in 1..n : x > y => ~(x <= y)
    OBVIOUS

(* A word that stands for a group, and for no other, is looked up as it.    *)
LEMMA GroupMeans ==
    ASSUME NEW d, NEW n \in Nat, DOMAIN d.groups \subseteq 1..n,
           \A g, k \in ToSet(d.groups) :
               {g.name, g.short} \cap {k.name, k.short} # {} => g.name = k.name,
           NEW w, w # "", NEW h \in ToSet(d.groups), w \in {h.name, h.short}
    PROVE  /\ LongGroup(d, w) \subseteq {h.name} /\ ShortGroup(d, w) \subseteq {h.name}
           /\ LongGroup(d, w) # {} \/ ShortGroup(d, w) # {}
<1>1. ASSUME NEW x \in ToSet(d.groups), w \in {x.name, x.short} PROVE x.name = h.name
  <2>1. w \in {x.name, x.short} \cap {h.name, h.short}
    BY <1>1
  <2> QED
    BY <2>1
<1>2. LongGroup(d, w) \subseteq {h.name}
    BY <1>1 DEF LongGroup
<1>3. ShortGroup(d, w) \subseteq {h.name}
  <2>1. ASSUME NEW g \in ShortGroup(d, w) PROVE g = h.name
    <3>1. PICK j \in DOMAIN d.groups : d.groups[j].short = w /\ g = d.groups[j].name
      BY DEF ShortGroup
    <3>2. d.groups[j] \in ToSet(d.groups)
      BY DEF ToSet
    <3> QED
      BY <1>1, <3>1, <3>2
  <2> QED
    BY <2>1
<1>4. CASE w = h.name
  <2>1. h.name \in LongGroup(d, w)
    BY <1>4 DEF LongGroup
  <2> QED
    BY <1>2, <1>3, <2>1
<1>5. CASE w = h.short
  <2> DEFINE places == {j \in DOMAIN d.groups : d.groups[j].short = w}
  <2>1. places \in SUBSET 1..n /\ places # {}
    BY <1>5 DEF ToSet
  <2>2. PICK j \in places : \A k \in places : k <= j
    <3> HIDE DEF places
    <3> QED
      BY <2>1, GreatestIs
  <2>3. ASSUME NEW k \in DOMAIN d.groups, k > j PROVE d.groups[k].short # w
    <3>1. SUFFICES ASSUME d.groups[k].short = w PROVE FALSE
      OBVIOUS
    <3>2. k \in places
      BY <3>1
    <3>3. k <= j /\ j \in places
      BY <2>2, <3>2
    <3>4. \A x, y \in 1..n : x > y => ~(x <= y)
      BY OneOrder
    <3>5. k \in 1..n /\ j \in 1..n
      BY <2>1, <3>2, <3>3
    <3>6. k > j
      BY <2>3
    <3> QED
      BY <3>3, <3>4, <3>5, <3>6
  <2>4. d.groups[j].name \in ShortGroup(d, w)
    <3>1. j \in {m \in DOMAIN d.groups :
                   /\ d.groups[m].short = w
                   /\ \A k \in DOMAIN d.groups : k > m => d.groups[k].short # w}
      BY <2>3
    <3> QED
      BY <3>1 DEF ShortGroup
  <2> QED
    BY <1>2, <1>3, <2>4
<1> QED
    BY <1>2, <1>3, <1>4, <1>5

(* The lookups, by name: all versions of what the words name, and one of    *)
(* them where one is asked for.                                             *)
LEMMA LookupsMean ==
    ASSUME IsCase([disc |-> disc, files |-> tree, command |-> command]), WordsAreClear(disc),
           NEW s \in ToSet(command.args)
    PROVE  /\ LookupPartialGVK(Index, s) \subseteq LookupAllVersions(Index, s)
           /\ LookupAllVersions(Index, s) = {r \in Usable(disc) : Names(disc, s, r)}
<1>1. /\ disc.groups \in Seq(Groups) /\ disc.resources \in Seq(ResourceTypes)
      /\ s.version # "" => s.group # ""
    BY DEF IsCase
<1>2. /\ DOMAIN Index.resources \subseteq 1..Len(disc.resources) /\ Len(disc.resources) \in Nat
      /\ DOMAIN Index.groups \subseteq 1..Len(disc.groups) /\ Len(disc.groups) \in Nat
      /\ ToSet(Index.resources) = Usable(disc)
      /\ ToSet(Index.groups) = {g \in ToSet(disc.groups) : g.name \notin IgnoredGroups}
    BY <1>1, IndexHas
<1>3. PICK d : d = Index
    OBVIOUS
<1> DEFINE R == Usable(disc)
           meant == {r \in R : Names(disc, s, r)}
           candidates == KindCandidates(d, s.resource)
<1>4. \A i \in DOMAIN d.resources : d.resources[i] \in R
    BY <1>2, <1>3 DEF ToSet
<1>5. \A r \in R : \E i \in DOMAIN d.resources : r = d.resources[i]
    BY <1>2, <1>3 DEF ToSet
<1>6. \A i \in candidates : i \in DOMAIN d.resources /\ s.resource \in Words(d.resources[i])
    BY ByName DEF Words
<1>7. \A r, t \in R : s.resource \in Words(r) /\ s.resource \in Words(t) =>
          r.kind = t.kind /\ r.singular = t.singular /\ r.plural = t.plural
    BY DEF WordsAreClear
<1>8. ASSUME NEW preferred \in BOOLEAN, NEW r \in LookupFor(d, s, preferred) PROVE r \in meant
  <2>1. Found(d, s, r)
    BY <1>8, LookupFinds
  <2>2. r \in R /\ s.version \in {"", r.version}
    BY <1>2, <1>3, <2>1 DEF Found
  <2>3. s.group = "" \/ \E h \in ToSet(disc.groups) : h.name = r.group /\ s.group \in {h.name, h.short}
    BY <1>2, <1>3, <2>1 DEF Found
  <2>4. PICK c \in R : c.group = r.group /\ c.kind = r.kind /\ s.resource \in Words(c)
    BY <1>2, <1>3, <2>1 DEF Found, Words
  <2>5. c.singular = r.singular /\ c.plural = r.plural
    BY <2>2, <2>4 DEF IsCase, Usable
  <2>6. s.resource \in {r.kind, r.singular, r.plural}
    BY <2>4, <2>5 DEF Words
  <2> QED
    BY <2>2, <2>3, <2>6 DEF Names
<1>9. ASSUME NEW r \in meant PROVE r \in LookupAllVersions(d, s)
  <2>1. /\ r \in R /\ s.resource \in Words(r) /\ s.version \in {"", r.version}
        /\ s.group = "" \/ \E h \in ToSet(disc.groups) : h.name = r.group /\ s.group \in {h.name, h.short}
    BY DEF Names, Words
  <2>2. PICK i \in DOMAIN d.resources : r = d.resources[i]
    BY <1>5, <2>1
  <2>3. i \in candidates
    <3> DEFINE by(part) == {j \in DOMAIN d.resources : d.resources[j][part] = s.resource}
    <3>1. candidates = IF by("kind") # {} THEN by("kind")
                       ELSE IF by("singular") # {} THEN by("singular") ELSE by("plural")
      BY DEF KindCandidates
    <3>2. ASSUME NEW j \in DOMAIN d.resources, s.resource \in Words(d.resources[j])
          PROVE  /\ d.resources[j].kind = r.kind /\ d.resources[j].singular = r.singular
                 /\ d.resources[j].plural = r.plural
      BY <1>4, <1>7, <2>1, <3>2
    <3>3. by("kind") # {} => i \in by("kind")
      BY <2>2, <3>2 DEF Words
    <3>4. by("singular") # {} => i \in by("singular")
      BY <2>2, <3>2 DEF Words
    <3>5. i \in by("kind") \/ i \in by("singular") \/ i \in by("plural")
      BY <2>1, <2>2 DEF Words
    <3> HIDE DEF by, candidates
    <3> QED
      BY <3>1, <3>3, <3>4, <3>5
  <2>4. \E c \in FirstAt(d, InGroup(d, candidates, r.group)) : c.kind = r.kind
    <3> DEFINE places == InGroup(d, candidates, r.group)
    <3>1. places \in SUBSET Nat /\ i \in places
      BY <1>2, <1>3, <1>6, <2>2, <2>3 DEF InGroup
    <3>2. PICK j \in places : d.resources[j] \in FirstAt(d, places)
      <4> HIDE DEF places
      <4> QED
        BY <3>1, FirstExists
    <3>3. j \in DOMAIN d.resources /\ s.resource \in Words(d.resources[j])
      BY <1>6 DEF InGroup
    <3>4. d.resources[j].kind = r.kind
      BY <1>4, <1>7, <2>1, <3>3
    <3> QED
      BY <3>2, <3>4
  <2>5. r \in OfType(d, r.group, r.kind, r.version)
    <3> DEFINE places == {j \in InGroup(d, DOMAIN d.resources, r.group) :
                            d.resources[j].kind = r.kind /\ d.resources[j].version = r.version}
    <3>1. places \in SUBSET Nat /\ i \in places
      BY <1>2, <1>3, <2>2 DEF InGroup
    <3>2. PICK j \in places : d.resources[j] \in FirstAt(d, places)
      <4> HIDE DEF places
      <4> QED
        BY <3>1, FirstExists
    <3>3. j \in DOMAIN d.resources /\ d.resources[j].group = r.group
          /\ d.resources[j].kind = r.kind /\ d.resources[j].version = r.version
      BY DEF InGroup
    <3>4. d.resources[j] = r
      BY <1>4, <2>1, <3>3 DEF WordsAreClear
    <3> QED
      BY <3>2, <3>4 DEF OfType
  <2>6. ASSUME NEW h \in ToSet(d.groups), s.group \in {h.name, h.short},
               NEW g \in ToSet(d.groups), s.group \in {g.name, g.short}
        PROVE  g.name = h.name
    BY <1>2, <1>3, <2>6 DEF WordsAreClear
  <2>7. s.group # "" => \E h \in ToSet(d.groups) : h.name = r.group /\ s.group \in {h.name, h.short}
    BY <1>2, <1>3, <2>1 DEF Usable
  <2>8. s.group # "" =>
          /\ LongGroup(d, s.group) \subseteq {r.group} /\ ShortGroup(d, s.group) \subseteq {r.group}
          /\ LongGroup(d, s.group) # {} \/ ShortGroup(d, s.group) # {}
    <3>1. \A g, k \in ToSet(d.groups) :
              {g.name, g.short} \cap {k.name, k.short} # {} => g.name = k.name
      BY <1>2, <1>3 DEF WordsAreClear
    <3>2. DOMAIN d.groups \subseteq 1..Len(disc.groups) /\ Len(disc.groups) \in Nat
      BY <1>2, <1>3
    <3>3. ASSUME NEW h \in ToSet(d.groups), s.group # "", h.name = r.group, s.group \in {h.name, h.short}
          PROVE  /\ LongGroup(d, s.group) \subseteq {r.group} /\ ShortGroup(d, s.group) \subseteq {r.group}
                 /\ LongGroup(d, s.group) # {} \/ ShortGroup(d, s.group) # {}
      <4>1. PICK n \in Nat : DOMAIN d.groups \subseteq 1..n
        BY <3>2
      <4>2. PICK w : w = s.group
        OBVIOUS
      <4>3. /\ LongGroup(d, w) \subseteq {h.name} /\ ShortGroup(d, w) \subseteq {h.name}
            /\ LongGroup(d, w) # {} \/ ShortGroup(d, w) # {}
        BY <3>1, <3>3, <4>1, <4>2, GroupMeans
      <4> QED
        BY <3>3, <4>2, <4>3
    <3> HIDE DEF candidates, meant, R
    <3> QED
      BY <2>7, <3>3
  <2>9. CASE s.version = ""
    <3>1. r.group \in TargetGroups(d, candidates, s.group)
      BY <2>2, <2>3, <2>8 DEF TargetGroups
    <3>2. r \in ToSet(d.resources)
      BY <1>2, <1>3, <2>1
    <3> QED
      BY <2>4, <2>5, <2>9, <3>1, <3>2 DEF LookupAllVersions
  <2>10. CASE s.version # ""
    <3>1. r.group \in CandidateGroup(d, candidates, s.group)
      BY <1>1, <2>8, <2>10 DEF CandidateGroup
    <3>2. r \in ToSet(d.resources) /\ s.version = r.version
      BY <1>2, <1>3, <2>1, <2>10
    <3>3. r \in LookupPartialGVK(d, s)
      BY <2>4, <2>5, <2>10, <3>1, <3>2 DEF LookupPartialGVK
    <3> QED
      BY <2>10, <3>3 DEF LookupAllVersions
  <2> QED
    BY <2>9, <2>10
<1>10. LookupFor(d, s, TRUE) = LookupPartialGVK(d, s) /\ LookupFor(d, s, FALSE) = LookupAllVersions(d, s)
    BY DEF LookupFor
<1> QED
    BY <1>3, <1>8, <1>9, <1>10

(* A command begins with one of the cases, and what the server holds has a  *)
(* version each.                                                            *)
Versioned(r) == \A o \in DOMAIN r : r[o].rev \in Nat
WorldInv ==
    /\ Versioned(remote)
    /\ pc = "parse" => \E c \in Cases : c.disc = disc /\ c.command = command

LEMMA WorldStart == CommandsInit => WorldInv
<1> SUFFICES ASSUME CommandsInit PROVE WorldInv
    OBVIOUS
<1>1. CASE Init
  <2>1. PICK c \in Cases :
           disc = c.disc /\ remote = c.remote /\ files = c.files /\ command = c.command
    BY <1>1 DEF Init
  <2> QED
    BY <2>1, CasesAssumption DEF WorldInv, Versioned
<1>2. CASE ~Init
    BY <1>2 DEF CommandsInit, WorldInv, Versioned
<1> QED
    BY <1>1, <1>2

LEMMA RemoteStays ==
    ASSUME Versioned(remote), [CommandsNext]_commandVars
    PROVE  Versioned(remote')
<1>1. ASSUME NEW o, remote' = [remote EXCEPT ![o] = Absent] \/ UNCHANGED remote
      PROVE  Versioned(remote')
  <2> SUFFICES ASSUME NEW p \in DOMAIN remote' PROVE remote'[p].rev \in Nat
    BY DEF Versioned
  <2>1. p \in DOMAIN remote /\ (remote'[p] = Absent \/ remote'[p] = remote[p])
    BY <1>1
  <2>2. remote[p].rev \in Nat
    BY <2>1 DEF Versioned
  <2>3. Absent.rev = 0
    BY DEF Absent
  <2>4. remote'[p].rev \in {remote[p].rev, 0}
    BY <2>1, <2>3
  <2> QED
    BY <2>2, <2>4
<1>2. CASE UNCHANGED remote
    BY <1>2 DEF Versioned
<1>3. CASE Deleted \/ DeleteFails
  <2>1. PICK i : RemoveObject(i) \/ UNCHANGED remote
    BY <1>3 DEF Deleted, DeleteFails
  <2> QED
    BY <1>1, <2>1 DEF RemoveObject
<1>4. CASE OthersEdit
  <2>1. PICK o \in DOMAIN remote : remote' = [remote EXCEPT ![o] =
              IF Exists(o) THEN Absent ELSE [rev |-> 2, stored |-> "", manager |-> "grafanapi"]]
    BY <1>4 DEF OthersEdit
  <2> QED
    BY <2>1 DEF Versioned, Absent
<1>5. CASE Command
    BY <1>2, <1>3, <1>5 DEF Command, Step, Refuse, DiscoveryFails, Discover, List, Get, NextRound,
       FetchFails, FetchAborted, Collect, Unwritable, Open, Encode, Report, Read, Send
<1>6. CASE World
    BY <1>2, <1>4, <1>6 DEF World, Killed
<1>7. CASE PushFollows \/ EditorFails \/ EditCancelled \/ EditSaved \/ PushEnds
    BY <1>2, <1>7 DEF PushFollows, EditorFails, EditCancelled, EditSaved, PushEnds
<1>8. CASE ReadTree \/ ReadError \/ PushStep \/ Others \/ UNCHANGED commandVars
    BY <1>2, <1>8 DEF ReadTree, ReadError, PushStep, Others, commandVars, vars
<1> QED
    BY <1>5, <1>6, <1>7, <1>8 DEF CommandsNext

LEMMA WorldStays == WorldInv /\ PullDeleteIInv /\ [CommandsNext]_commandVars => WorldInv'
<1> SUFFICES ASSUME WorldInv, PullDeleteIInv, [CommandsNext]_commandVars PROVE WorldInv'
    OBVIOUS
<1>1. Versioned(remote')
    BY RemoteStays DEF WorldInv
<1>2. pc' = "parse" => pc = "parse" /\ UNCHANGED input
  <2> USE DEF Ends, Proceed
  <2>1. CASE Command
    <3>1. CASE Collect
      <4>1. command.name \in {"pull", "delete", "get", "edit"}
        BY <3>1 DEF Collect, PullDeleteIInv, CaseInv, IsCase
      <4> QED
        BY <3>1, <4>1 DEF Collect
    <3>2. CASE Refuse \/ DiscoveryFails \/ Discover
      BY <3>2 DEF Refuse, DiscoveryFails, Discover
    <3>3. CASE \E i \in DOMAIN fetch : List(i) \/ Get(i) \/ NextRound(i) \/ FetchFails(i)
      BY <3>3 DEF List, Get, NextRound, FetchFails
    <3>4. CASE FetchAborted \/ Unwritable \/ Open \/ Encode \/ Report
      BY <3>4 DEF FetchAborted, Unwritable, WriteFails, Open, Encode, Report
    <3>5. CASE Read \/ Send \/ Deleted \/ DeleteFails
      BY <3>5 DEF Read, Send, Deleted, DeleteFails
    <3> QED
      BY <2>1, <3>1, <3>2, <3>3, <3>4, <3>5 DEF Command, Step
  <2>2. CASE World
    BY <2>2 DEF World, OthersEdit, Killed
  <2>3. CASE PushFollows \/ EditorFails \/ EditCancelled \/ EditSaved \/ PushEnds
    BY <2>3 DEF PushFollows, StartsWith, EditorFails, EditCancelled, EditSaved, PushEnds
  <2>4. CASE ReadTree \/ ReadError \/ PushStep \/ Others \/ UNCHANGED commandVars
    BY <2>4 DEF ReadTree, ReadError, PushStep, Others, commandVars, vars
  <2> QED
    BY <2>1, <2>2, <2>3, <2>4 DEF CommandsNext
<1> QED
    BY <1>1, <1>2 DEF WorldInv, input

LEMMA WorldInvariant == CommandsSpec => []WorldInv
    BY WorldStart, WorldStays, PullDeleteInvariant, PTL DEF CommandsSpec

LEMMA SelectorsAreSound ==
    ASSUME CasesAreClear, PullDeleteIInv, WorldInv
    PROVE  SelectorsMeanTypes
<1> SUFFICES ASSUME pc = "parse", ~UpdateFails(Index), NEW s \in ToSet(command.args)
             PROVE  /\ LookupPartialGVK(Index, s) \subseteq LookupAllVersions(Index, s)
                    /\ LookupAllVersions(Index, s) =
                         {r \in ToSet(disc.resources) :
                            Names(disc, s, r) /\ r.usable /\ r.group \notin IgnoredGroups}
    BY DEF SelectorsMeanTypes
<1>1. WordsAreClear(disc)
    BY DEF CasesAreClear, WorldInv, Index
<1>2. IsCase([disc |-> disc, files |-> tree, command |-> command])
    BY DEF PullDeleteIInv, CaseInv
<1>3. /\ LookupPartialGVK(Index, s) \subseteq LookupAllVersions(Index, s)
      /\ LookupAllVersions(Index, s) = {r \in Usable(disc) : Names(disc, s, r)}
    BY <1>1, <1>2, LookupsMean
<1>4. {r \in Usable(disc) : Names(disc, s, r)} =
         {r \in ToSet(disc.resources) : Names(disc, s, r) /\ r.usable /\ r.group \notin IgnoredGroups}
    BY DEF Usable
<1> QED
    BY <1>3, <1>4

-----------------------------------------------------------------------------
(* The types of a push                                                      *)

(* What the reader has is of the tree; what the pusher sends has a place on *)
(* the server; what it has counted is of what was read.                     *)
TreeTypes ==
    /\ reader \in [DOMAIN pushTree -> {"none", "reading", "sending", "done"}]
    /\ pathClosed \in BOOLEAN /\ resClosed \in BOOLEAN
    /\ \A r \in DOMAIN read : read[r] \in Push!Objects /\ Push!R!Ref(read[r]) = r

ServerTypes ==
    /\ versions \in [DOMAIN author -> Nat]
    /\ \A o \in Push!Objects : <<o.kind, o.uid>> \in DOMAIN versions
    /\ pushEdits \in 0..MaxPushEdits /\ faulty \in BOOLEAN

PusherTypes ==
    /\ levels \in Seq(SUBSET Push!P!Folders)
    /\ cancelled \in BOOLEAN /\ result \in {"none", "nil", "error"}
    /\ at = <<>> \/ at \in [Push!P!Refs -> Labels]
    /\ seen = <<>> \/ seen \in [Push!P!Refs -> Nat]
    /\ Pushing => seen \in [Push!P!Refs -> Nat]
    /\ success + pushFailed \in 0..Cardinality(Push!P!Refs)

PushTypes == TreeTypes /\ ServerTypes /\ PusherTypes

LEMMA TypesSame ==
    ASSUME PushTypes, UNCHANGED pushVars
    PROVE  PushTypes'
<1> USE DEF pushVars, inputOfPush, readerVars, pusherVars, worldVars, PushTypes
<1>1. TreeTypes'
    BY DEF TreeTypes, Push!Objects, Push!Files
<1>2. ServerTypes'
    BY DEF ServerTypes, Push!Objects, Push!Files
<1>3. PusherTypes'
    BY DEF PusherTypes, Push!P!Refs, Push!P!Folders, Pushing
<1> QED
    BY <1>1, <1>2, <1>3

LEMMA IdleTypes ==
    ASSUME phase = "idle", Unstarted, cancelled \in BOOLEAN, IsFiniteSet(DOMAIN read)
    PROVE  PusherTypes
<1>1. Cardinality(DOMAIN read) \in Nat
    BY FS_CardinalityType
<1>2. levels \in Seq(SUBSET Push!P!Folders)
    BY DEF Unstarted
<1> QED
    BY <1>1, <1>2 DEF PusherTypes, Unstarted, Pushing, Push!P!Refs

(* The parts of a set are no more than it has.                              *)
LEMMA PartsAre ==
    ASSUME NEW S, IsFiniteSet(S), NEW A \in SUBSET S, NEW B \in SUBSET S, A \cap B = {}
    PROVE  Cardinality(A) + Cardinality(B) \in 0..Cardinality(S)
<1>1. IsFiniteSet(A) /\ IsFiniteSet(B)
    BY FS_Subset
<1>2. Cardinality(A \cap B) = 0
    BY FS_EmptySet
<1>3. Cardinality(A) \in Nat /\ Cardinality(B) \in Nat /\ Cardinality(S) \in Nat
    BY <1>1, FS_CardinalityType
<1>4. Cardinality(A \cup B) = Cardinality(A) + Cardinality(B) - Cardinality(A \cap B)
    BY <1>1, FS_Union
<1>5. A \cup B \in SUBSET S
    OBVIOUS
<1>6. Cardinality(A \cup B) <= Cardinality(S)
    BY <1>5, FS_Subset
<1> QED
    BY <1>2, <1>3, <1>4, <1>6

LEMMA CountsAre ==
    ASSUME CountInv, Pushing, IsFiniteSet(DOMAIN read)
    PROVE  success + pushFailed \in 0..Cardinality(DOMAIN read)
<1> DEFINE A == Those({"pushed"})
           B == Those({"failed", "returning"})
<1>1. success = Cardinality(A) /\ pushFailed = Cardinality(B)
    BY DEF CountInv
<1>2. A \subseteq DOMAIN read /\ B \subseteq DOMAIN read /\ A \cap B = {}
    BY DEF Those, Push!P!Refs
<1> HIDE DEF A, B
<1> QED
    BY <1>1, <1>2, PartsAre

LEMMA ReadTypes ==
    ASSUME PushIInv, PushIInv', PushTypes, ReadTree \/ ReadError
    PROVE  PushTypes'
<1>0. UNCHANGED <<pushTree, pushEdits, versions, author, faulty>> /\ phase = "idle"
    BY DEF ReadTree, ReadError, Push!Read, Push!ReadError, Push!worldVars, Push!readerVars,
       Push!R!Next, Push!R!Walk, Push!R!WalkEnd, Push!R!Dispatch, Push!R!DispatchEnd,
       Push!R!Collect, Push!R!ReadFile, Push!R!SendResult
<1>1. ServerTypes'
    BY <1>0 DEF PushTypes, ServerTypes, Push!Objects, Push!Files
<1>2. Unstarted /\ IsFiniteSet(DOMAIN read) /\ IsFiniteSet(DOMAIN read')
    BY <1>0 DEF PushIInv, PhaseInv
<1>3. CASE ReadError
  <2>1. /\ phase' = "done" /\ result' = "error"
        /\ UNCHANGED <<inputOfPush, readerVars, levels, at, seen, cancelled, success, pushFailed>>
    BY <1>3 DEF ReadError, Push!ReadError, Push!P!Return, Push!readerVars, inputOfPush, readerVars
  <2>2. TreeTypes'
    BY <2>1 DEF PushTypes, TreeTypes, Push!Objects, Push!Files, inputOfPush, readerVars
  <2>3. PusherTypes'
    BY <2>1 DEF PushTypes, PusherTypes, Push!P!Refs, Push!P!Folders, Pushing, readerVars
  <2> QED
    BY <1>1, <2>2, <2>3 DEF PushTypes
<1>4. CASE ReadTree
  <2>1. Push!R!Next /\ UNCHANGED pusherVars
    BY <1>4 DEF ReadTree, Push!Read, Push!pushVars, pusherVars
  <2>2. phase' = "idle" /\ Unstarted' /\ cancelled' \in BOOLEAN
    BY <1>0, <1>2, <2>1 DEF Unstarted, pusherVars, PushTypes, PusherTypes
  <2>3. (phase = "idle" /\ Unstarted /\ cancelled \in BOOLEAN /\ IsFiniteSet(DOMAIN read) => PusherTypes)'
    BY IdleTypes, PTL
  <2>4. PusherTypes'
    BY <1>2, <2>2, <2>3
  <2>5. /\ reader' \in [DOMAIN pushTree' -> {"none", "reading", "sending", "done"}]
        /\ pathClosed' \in BOOLEAN /\ resClosed' \in BOOLEAN
    BY <1>0, <2>1 DEF PushTypes, TreeTypes, Push!R!Next, Push!R!Walk, Push!R!WalkEnd, Push!R!Dispatch,
       Push!R!DispatchEnd, Push!R!Collect, Push!R!ReadFile, Push!R!SendResult
  <2>6. Push!Objects' = Push!Objects
    BY <1>0 DEF Push!Objects, Push!Files
  <2>7. CASE Push!R!Collect
    <3>1. resCh # <<>> /\ Push!R!Add(pushTree[Head(resCh)])
      BY <2>7 DEF Push!R!Collect
    <3>2. Head(resCh) \in ToSet(resCh) /\ Head(resCh) \in DOMAIN pushTree
      BY <3>1, TailIs DEF PushIInv, ReadInv
    <3>3. PICK o : o = pushTree[Head(resCh)]
      OBVIOUS
    <3>4. o \in Push!Objects
      BY <3>2, <3>3 DEF PushIInv, ReadInv, Push!Objects, Push!Files
    <3>5. read' = [r \in DOMAIN read \cup {Push!R!Ref(o)} |-> IF r = Push!R!Ref(o) THEN o ELSE read[r]]
      BY <3>1, <3>3 DEF Push!R!Add
    <3> QED
      BY <2>5, <2>6, <3>4, <3>5, <2>4, <1>1 DEF PushTypes, TreeTypes
  <2>8. CASE UNCHANGED read
    BY <1>1, <2>4, <2>5, <2>6, <2>8 DEF PushTypes, TreeTypes
  <2>9. Push!R!Collect \/ UNCHANGED read
    BY <2>1 DEF Push!R!Next, Push!R!Walk, Push!R!WalkEnd, Push!R!Dispatch,
       Push!R!DispatchEnd, Push!R!ReadFile, Push!R!SendResult
  <2> QED
    BY <2>7, <2>8, <2>9
<1> QED
    BY <1>3, <1>4

(* The document that is opened for an edit is an object, whatever its name. *)
LEMMA EditIsObject ==
    ASSUME NEW i, "kind" \in DOMAIN i, NEW uid, NEW doc, doc = [Decoded(i) EXCEPT !.uid = uid]
    PROVE  Push!R!Object(doc) /\ doc.kind = i.kind /\ doc.uid = uid
<1>1. i # Cut
    BY DEF Cut
<1>2. doc = [kind |-> i.kind, version |-> i.version, uid |-> uid,
             parent |-> Folder(i.kind, i.name), foreign |-> i.manager = "other"]
    BY <1>1 DEF Decoded
<1>3. "parent" \in DOMAIN doc
    BY <1>2
<1>4. Push!R!Object(doc)
    BY <1>3 DEF Push!R!Object, Push!R!Missing, Push!R!Unreadable
<1> QED
    BY <1>2, <1>4

(* What a push starts with has a version for each object of the server, and *)
(* none for what is to be created.                                          *)
LEMMA StartTypes ==
    ASSUME WorldInv, NEW docs, NEW gone, StartsWith(docs, gone)
    PROVE  /\ pushTree' = docs /\ versions' \in [DOMAIN author' -> Nat]
           /\ \A d \in ToSet(docs) : Push!R!Object(d) => <<d.kind, d.uid>> \in DOMAIN versions'
<1> DEFINE known == {Path([kind |-> o[2], name |-> o[3]]) : o \in DOMAIN remote}
           keys == known \cup {<<d.kind, d.uid>> : d \in {e \in ToSet(docs) : Push!R!Object(e)}}
           revs(k) == {remote[o].rev : o \in {x \in DOMAIN remote : <<x[2], x[3]>> = k /\ Exists(x)}}
           v == [k \in keys |->
                   IF k \in gone \/ ~\E o \in DOMAIN remote : <<o[2], o[3]>> = k /\ Exists(o) THEN 0
                   ELSE (CHOOSE r \in revs(k) : TRUE)]
<1>1. pushTree' = docs /\ versions' = v /\ DOMAIN author' = DOMAIN versions'
    BY DEF StartsWith
<1>2. ASSUME NEW k \in keys PROVE v[k] \in Nat
  <2>1. CASE k \in gone \/ ~\E o \in DOMAIN remote : <<o[2], o[3]>> = k /\ Exists(o)
    BY <2>1
  <2>2. CASE ~(k \in gone \/ ~\E o \in DOMAIN remote : <<o[2], o[3]>> = k /\ Exists(o))
    <3>1. revs(k) \subseteq Nat
      BY DEF WorldInv, Versioned
    <3>2. revs(k) # {}
      BY <2>2
    <3>3. v[k] = CHOOSE r \in revs(k) : TRUE
      BY <2>2
    <3> HIDE DEF revs, v, keys
    <3> QED
      BY <3>1, <3>2, <3>3
  <2> QED
    BY <2>1, <2>2
<1>3. DOMAIN v = keys
    OBVIOUS
<1>4. v \in [keys -> Nat]
  <2>1. v = [k \in keys |-> v[k]]
    OBVIOUS
  <2> HIDE DEF v, keys
  <2> QED
    BY <1>2, <2>1
<1>5. \A d \in ToSet(docs) : Push!R!Object(d) => <<d.kind, d.uid>> \in keys
    OBVIOUS
<1> HIDE DEF v, keys
<1> QED
    BY <1>1, <1>3, <1>4, <1>5

LEMMA BeginningTypes ==
    ASSUME PushIInv, PushIInv', PullDeleteIInv, WorldInv, PushTypes, PushFollows \/ EditSaved
    PROVE  PushTypes'
<1>1. /\ phase = "idle" /\ Unstarted /\ Unread
      /\ UNCHANGED <<pusherVars, pushEdits, faulty, pathCh, resCh, readAborted>>
  <2>1. CASE PushFollows
    BY <2>1 DEF PushFollows, PushIInv, PhaseInv
  <2>2. CASE EditSaved
    BY <2>2 DEF EditSaved, PushIInv, PhaseInv
  <2> QED
    BY <2>1, <2>2
<1>2. PusherTypes'
  <2>1. phase' = "idle" /\ Unstarted' /\ cancelled' \in BOOLEAN /\ IsFiniteSet(DOMAIN read')
    BY <1>1 DEF Unstarted, pusherVars, PushTypes, PusherTypes, PushIInv, PhaseInv
  <2>2. (phase = "idle" /\ Unstarted /\ cancelled \in BOOLEAN /\ IsFiniteSet(DOMAIN read) => PusherTypes)'
    BY IdleTypes, PTL
  <2> QED
    BY <2>1, <2>2
<1>3. CASE PushFollows
  <2>1. PICK docs, gone : StartsWith(docs, gone)
    BY <1>3 DEF PushFollows
  <2>2. /\ pushTree' = docs /\ versions' \in [DOMAIN author' -> Nat]
        /\ \A d \in ToSet(docs) : Push!R!Object(d) => <<d.kind, d.uid>> \in DOMAIN versions'
    BY <2>1, StartTypes
  <2>3. UNCHANGED <<pathClosed, resClosed, read>> /\ reader' = [f \in DOMAIN pushTree' |-> "none"]
    BY <1>3 DEF PushFollows
  <2>4. TreeTypes'
    BY <1>1, <2>3 DEF TreeTypes, Unread, PushTypes
  <2>5. ServerTypes'
    BY <1>1, <2>2 DEF ServerTypes, PushTypes, Push!Objects, Push!Files, ToSet
  <2> QED
    BY <1>2, <2>4, <2>5 DEF PushTypes
<1>4. CASE EditSaved
  <2>1. CASE UNCHANGED <<inputOfPush, versions, author, read, reader, walked, pathClosed, resClosed>>
    <3>1. UNCHANGED pushVars
      BY <1>1, <2>1 DEF pushVars, inputOfPush, readerVars, worldVars
    <3> QED
      BY <3>1, TypesSame
  <2>2. CASE ~UNCHANGED <<inputOfPush, versions, author, read, reader, walked, pathClosed, resClosed>>
    <3>1. PICK i \in collection : \E uid :
             LET d == [Decoded(i) EXCEPT !.uid = uid]
             IN  /\ StartsWith(<<d>>, {}) /\ read' = [r \in {Push!R!Ref(d)} |-> d]
                 /\ reader' = <<"done">> /\ pathClosed' = TRUE /\ resClosed' = TRUE
      BY <1>4, <2>2 DEF EditSaved
    <3>2. PICK uid, doc :
             /\ doc = [Decoded(i) EXCEPT !.uid = uid]
             /\ StartsWith(<<doc>>, {}) /\ read' = [r \in {Push!R!Ref(doc)} |-> doc]
             /\ reader' = <<"done">> /\ pathClosed' = TRUE /\ resClosed' = TRUE
      BY <3>1
    <3>3. "kind" \in DOMAIN i
      BY <1>4 DEF EditSaved, PullDeleteIInv, FilesInv
    <3>4. Push!R!Object(doc)
      BY <3>2, <3>3, EditIsObject
    <3>5. /\ pushTree' = <<doc>> /\ versions' \in [DOMAIN author' -> Nat]
          /\ \A d \in ToSet(<<doc>>) : Push!R!Object(d) => <<d.kind, d.uid>> \in DOMAIN versions'
      BY <3>2, StartTypes
    <3>6. Push!Objects' = {doc}
      BY <3>4, <3>5 DEF Push!Objects, Push!Files
    <3>7. TreeTypes'
      <4>1. reader' \in [DOMAIN pushTree' -> {"none", "reading", "sending", "done"}]
        BY <3>2, <3>5
      <4>2. \A r \in DOMAIN read' : read'[r] \in Push!Objects' /\ Push!R!Ref(read'[r]) = r
        BY <3>2, <3>6
      <4> QED
        BY <3>2, <4>1, <4>2 DEF TreeTypes
    <3>8. ServerTypes'
      <4>1. doc \in ToSet(<<doc>>)
        BY DEF ToSet
      <4> QED
        BY <1>1, <3>4, <3>5, <3>6, <4>1 DEF ServerTypes, PushTypes
    <3> QED
      BY <1>2, <3>7, <3>8 DEF PushTypes
  <2> QED
    BY <2>1, <2>2
<1> QED
    BY <1>3, <1>4

(* What the pusher counts and where its callbacks are, as it works.         *)
LEMMA WorkTypes ==
    ASSUME PushIInv, Pushing
    PROVE  /\ at \in [Push!P!Refs -> Labels]
           /\ success + pushFailed \in 0..Cardinality(Push!P!Refs)
           /\ phase = "folders" => levels \in Seq(SUBSET Push!P!Folders)
<1>1. IsFiniteSet(DOMAIN read) /\ CountInv
    BY DEF PushIInv, PhaseInv
<1>2. at \in [Push!P!Refs -> Labels] /\ success + pushFailed \in 0..Cardinality(Push!P!Refs)
    BY <1>1, CountsAre DEF CountInv, Push!P!Refs
<1>3. ASSUME phase = "folders" PROVE levels \in Seq(SUBSET Push!P!Folders)
  <2>1. levels \in Seq(SUBSET nodes) /\ SUBSET nodes \subseteq SUBSET Push!P!Folders
    BY <1>3 DEF PushIInv, OrderInv, ResultInv
  <2> HIDE DEF Push!P!Folders
  <2> QED
    BY <2>1
<1> QED
    BY <1>2, <1>3

LEMMA PushStepTypes ==
    ASSUME PushIInv, PushIInv', PushTypes, PushStep
    PROVE  PushTypes'
<1>1. /\ phase \in {"idle", "folders", "rest"} /\ phase' \in {"idle", "folders", "rest", "done"}
      /\ UNCHANGED <<pushTree, walked, pathCh, pathClosed, reader, resCh, resClosed, readAborted, pushEdits, read>>
      /\ phase' # "idle" /\ (phase = "idle" => Push!P!Start)
  <2> USE DEF Push!P!Fail, Push!P!Goto, Push!P!World, Push!P!Return
  <2>1. UNCHANGED <<pushTree, walked, pathCh, pathClosed, reader, resCh, resClosed, readAborted>>
    BY DEF PushStep, Push!Push, Push!readerVars
  <2>2. CASE Push!P!Start \/ Push!P!PushLevel \/ Push!P!PushRest \/ Push!P!Finish
    BY <2>1, <2>2 DEF Push!P!Start, Push!P!PushLevel, Push!P!PushRest, Push!P!Finish
  <2>3. CASE \E r \in group : Push!P!PushStep(r)
    <3>1. PICK r \in group : Push!P!PushStep(r)
      BY <2>3
    <3>2. PICK label : Moves(r, label)
      BY <3>1, CallbackMoves
    <3>3. phase' = phase /\ UNCHANGED <<read, pushEdits>> /\ at[r] \notin Push!P!Ended
      BY <3>2 DEF Moves
    <3>4. phase \in {"folders", "rest"}
      BY <3>1, <3>3 DEF PushIInv, PhaseInv, ResultInv, Unstarted, Push!P!GroupEnded
    <3> QED
      BY <2>1, <3>3, <3>4
  <2> QED
    BY <2>2, <2>3 DEF PushStep, Push!Push
<1>2. Push!P!Refs' = Push!P!Refs /\ Push!P!Folders' = Push!P!Folders /\ Push!Objects' = Push!Objects
    BY <1>1 DEF Push!P!Refs, Push!P!Folders, Push!Objects, Push!Files
<1>3. TreeTypes'
    BY <1>1, <1>2 DEF PushTypes, TreeTypes
<1>4. ASSUME NEW r \in DOMAIN read PROVE Push!P!Key(r) \in DOMAIN versions
  <2>1. read[r] \in Push!Objects /\ Push!R!Ref(read[r]) = r
    BY DEF PushTypes, TreeTypes
  <2>2. Push!P!Key(r) = <<read[r].kind, read[r].uid>>
    BY <2>1 DEF Push!P!Key, Push!R!Ref
  <2> QED
    BY <2>1, <2>2 DEF PushTypes, ServerTypes
<1>5. ServerTypes'
  <2>1. CASE \E r \in group : Push!P!PushStep(r)
    <3>1. PICK r \in group : Push!P!PushStep(r)
      BY <2>1
    <3>2. PICK k : \/ UNCHANGED <<versions, author>>
                   \/ /\ versions' = [versions EXCEPT ![k] = @ + 1]
                      /\ author' = [author EXCEPT ![k] = r]
      BY <3>1 DEF Push!P!PushStep, Push!P!Begin, Push!P!RequestError, Push!P!Get, Push!P!SendWrite,
         Push!P!Written, Push!P!Refused, Push!P!ReturnError, Push!P!World
    <3>3. faulty' \in BOOLEAN
      BY <3>1 DEF PushTypes, ServerTypes, Push!P!PushStep, Push!P!Begin, Push!P!RequestError, Push!P!Get,
         Push!P!SendWrite, Push!P!Written, Push!P!Refused, Push!P!ReturnError, Push!P!World
    <3>4. DOMAIN versions' = DOMAIN versions /\ versions' \in [DOMAIN author' -> Nat]
      BY <3>2 DEF PushTypes, ServerTypes
    <3> QED
      BY <1>1, <1>2, <3>3, <3>4 DEF PushTypes, ServerTypes
  <2>2. CASE Push!P!Start \/ Push!P!PushLevel \/ Push!P!PushRest \/ Push!P!Finish
    <3>1. UNCHANGED <<versions, author, faulty>>
      BY <2>2 DEF Push!P!Start, Push!P!PushLevel, Push!P!PushRest, Push!P!Finish, Push!P!World
    <3> QED
      BY <1>1, <1>2, <3>1 DEF PushTypes, ServerTypes
  <2> QED
    BY <2>1, <2>2 DEF PushStep, Push!Push
<1>6. seen' \in [Push!P!Refs -> Nat]
  <2>1. CASE Push!P!Start
    BY <2>1 DEF Push!P!Start
  <2>2. CASE \E r \in group : Push!P!Get(r)
    <3>1. PICK r \in group : Push!P!Get(r)
      BY <2>2
    <3>2. r \in DOMAIN read /\ r \in Push!P!Refs
      BY DEF PushIInv, ResultInv, Push!P!Refs
    <3>3. PICK n : n = versions[Push!P!Key(r)]
      OBVIOUS
    <3>4. n \in Nat
      BY <1>4, <3>2, <3>3 DEF PushTypes, ServerTypes
    <3>5. seen' = [seen EXCEPT ![r] = n]
      BY <3>1, <3>3 DEF Push!P!Get
    <3>6. Pushing
      BY <1>1, <3>1 DEF PushIInv, PhaseInv, Unstarted, Pushing
    <3>7. seen \in [Push!P!Refs -> Nat]
      BY <3>6 DEF PushTypes, PusherTypes
    <3> QED
      BY <3>2, <3>4, <3>5, <3>7
  <2>3. CASE ~Push!P!Start /\ ~\E r \in group : Push!P!Get(r)
    <3>1. UNCHANGED seen
      BY <2>3 DEF PushStep, Push!Push, Push!P!PushLevel, Push!P!PushRest, Push!P!Finish, Push!P!PushStep,
         Push!P!Begin, Push!P!RequestError, Push!P!SendWrite, Push!P!Written, Push!P!Refused,
         Push!P!ReturnError, Push!P!World
    <3> QED
      BY <1>1, <2>3, <3>1 DEF PushTypes, PusherTypes, Pushing
  <2> QED
    BY <2>1, <2>2, <2>3
<1>7. (PushIInv /\ Pushing => /\ at \in [Push!P!Refs -> Labels]
                              /\ success + pushFailed \in 0..Cardinality(Push!P!Refs)
                              /\ phase = "folders" => levels \in Seq(SUBSET Push!P!Folders))'
    BY WorkTypes, PTL
<1>8. /\ at' = <<>> \/ at' \in [Push!P!Refs -> Labels]
      /\ success' + pushFailed' \in 0..Cardinality(Push!P!Refs)
  <2>1. CASE phase' = "done"
    <3>1. CASE Push!P!Start
      BY <3>1 DEF Push!P!Start, PushTypes, PusherTypes, Labels
    <3>2. CASE Push!P!PushRest \/ Push!P!Finish
      BY <3>2 DEF Push!P!PushRest, Push!P!Finish, PushTypes, PusherTypes
    <3>3. CASE Push!P!PushLevel \/ \E r \in group : Push!P!PushStep(r)
      <4>1. phase' = phase
        <5>1. CASE Push!P!PushLevel
          BY <5>1 DEF Push!P!PushLevel
        <5>2. CASE \E r \in group : Push!P!PushStep(r)
          BY <5>2, CallbackMoves DEF Moves
        <5> QED
          BY <3>3, <5>1, <5>2
      <4> QED
        BY <1>1, <2>1, <4>1
    <3> QED
      BY <3>1, <3>2, <3>3 DEF PushStep, Push!Push
  <2>2. CASE phase' # "done"
    BY <1>1, <1>2, <1>7, <2>2 DEF Pushing
  <2> QED
    BY <2>1, <2>2
<1>9. levels' \in Seq(SUBSET Push!P!Folders)
  <2>1. CASE phase' = "folders"
    BY <1>2, <1>7, <2>1 DEF Pushing
  <2>2. CASE phase' # "folders"
    <3>1. UNCHANGED levels
      <4>1. CASE Push!P!Start
        BY <2>2, <4>1 DEF Push!P!Start
      <4>2. CASE Push!P!PushLevel
        BY <2>2, <4>2 DEF Push!P!PushLevel
      <4>3. CASE Push!P!PushRest \/ Push!P!Finish
        BY <4>3 DEF Push!P!PushRest, Push!P!Finish
      <4>4. CASE \E r \in group : Push!P!PushStep(r)
        BY <4>4, CallbackMoves DEF Moves
      <4> QED
        BY <4>1, <4>2, <4>3, <4>4 DEF PushStep, Push!Push
    <3> QED
      BY <3>1 DEF PushTypes, PusherTypes
  <2> QED
    BY <2>1, <2>2
<1>10. cancelled' \in BOOLEAN /\ result' \in {"none", "nil", "error"}
  <2>1. CASE Push!P!Start \/ Push!P!PushLevel \/ Push!P!PushRest \/ Push!P!Finish
    BY <2>1 DEF Push!P!Start, Push!P!PushLevel, Push!P!PushRest, Push!P!Finish, Push!P!Return,
       PushTypes, PusherTypes
  <2>2. CASE \E r \in group : Push!P!PushStep(r)
    BY <2>2, CallbackMoves DEF Moves, Counted, PushTypes, PusherTypes
  <2> QED
    BY <2>1, <2>2 DEF PushStep, Push!Push
<1>11. PusherTypes'
    BY <1>2, <1>6, <1>8, <1>9, <1>10 DEF PusherTypes
<1> QED
    BY <1>3, <1>5, <1>11 DEF PushTypes

LEMMA OthersTypes ==
    ASSUME PushIInv, PushTypes, Others
    PROVE  PushTypes'
<1>1. PICK k : Push!P!EditByOthers(k)
    BY DEF Others, Push!Others
<1>2. /\ pushEdits < MaxPushEdits /\ pushEdits' = pushEdits + 1 /\ faulty' = TRUE
      /\ versions' = [versions EXCEPT ![k] = @ + 1]
      /\ author' = [author EXCEPT ![k] = Push!P!Others]
      /\ UNCHANGED <<read, pusherVars, pushTree, pathClosed, resClosed, reader>>
    BY <1>1 DEF Others, Push!Others, Push!readerVars, Push!P!EditByOthers, Push!P!pusherVars, pusherVars
<1>3. TreeTypes'
    BY <1>2 DEF PushTypes, TreeTypes, Push!Objects, Push!Files
<1>4. ServerTypes'
  <2>1. DOMAIN versions' = DOMAIN versions /\ versions' \in [DOMAIN author' -> Nat]
    <3>1. versions \in [DOMAIN author -> Nat]
      BY DEF PushTypes, ServerTypes
    <3>2. DOMAIN author' = DOMAIN author
      BY <1>2
    <3>3. PICK v : v = versions
      OBVIOUS
    <3>4. \A x \in DOMAIN author : [v EXCEPT ![k] = @ + 1][x] \in Nat
      BY <3>1, <3>3
    <3> QED
      BY <1>2, <3>1, <3>2, <3>3, <3>4
  <2>2. pushEdits' \in 0..MaxPushEdits
    BY <1>2, LimitsAssumption DEF PushTypes, ServerTypes
  <2> QED
    BY <1>2, <2>1, <2>2 DEF PushTypes, ServerTypes, Push!Objects, Push!Files
<1>5. PusherTypes'
    BY <1>2 DEF PushTypes, PusherTypes, Push!P!Refs, Push!P!Folders, Pushing, pusherVars
<1> QED
    BY <1>3, <1>4, <1>5 DEF PushTypes

LEMMA TypesStart == CommandsInit => PushTypes
<1> SUFFICES ASSUME CommandsInit PROVE PushTypes
    OBVIOUS
<1>1. /\ Push!R!Init /\ Push!P!Init /\ pushEdits = 0 /\ faulty = FALSE
      /\ \/ pushTree = <<>> /\ versions = <<>> /\ author = <<>>
         \/ Push!Init
    BY DEF CommandsInit, Push!Init
<1>2. PushIInv
    BY PushStart
<1>3. PusherTypes
  <2>1. phase = "idle" /\ Unstarted /\ cancelled \in BOOLEAN
    BY <1>1 DEF Push!P!Init, Unstarted
  <2>2. IsFiniteSet(DOMAIN read)
    BY <1>2 DEF PushIInv, PhaseInv
  <2> QED
    BY <2>1, <2>2, IdleTypes
<1>4. TreeTypes
  <2>1. /\ pathClosed = FALSE /\ resClosed = FALSE /\ DOMAIN read = {}
        /\ reader = [f \in DOMAIN pushTree |-> "none"]
    BY <1>1 DEF Push!R!Init
  <2> QED
    BY <2>1 DEF TreeTypes
<1>5. ServerTypes
  <2>1. pushEdits \in 0..MaxPushEdits
    BY <1>1, LimitsAssumption
  <2>2. CASE pushTree = <<>> /\ versions = <<>> /\ author = <<>>
    <3>1. Push!Objects = {}
      BY <2>2 DEF Push!Objects, Push!Files
    <3>2. versions \in [DOMAIN author -> Nat]
      BY <2>2
    <3> QED
      BY <1>1, <2>1, <3>1, <3>2 DEF ServerTypes
  <2>3. CASE Push!Init
    <3> DEFINE keys == {<<o.kind, o.uid>> : o \in {pushTree[f] : f \in
                          {g \in Push!Files : Push!R!Object(pushTree[g])}}} \cup {<<"Folder", "outside">>}
    <3>1. PICK v \in {0, 1} : versions = [k \in keys |-> IF k = <<"Folder", "outside">> THEN 1 ELSE v]
      BY <2>3 DEF Push!Init
    <3>2. DOMAIN author = DOMAIN versions
      BY <2>3 DEF Push!Init
    <3>3. \A o \in Push!Objects : <<o.kind, o.uid>> \in keys
      BY DEF Push!Objects
    <3> HIDE DEF keys
    <3>4. DOMAIN versions = keys
      BY <3>1
    <3>5. versions \in [keys -> Nat]
      <4>1. \A k \in keys : (IF k = <<"Folder", "outside">> THEN 1 ELSE v) \in Nat
        OBVIOUS
      <4> QED
        BY <3>1, <4>1
    <3> QED
      BY <1>1, <2>1, <3>2, <3>3, <3>4, <3>5 DEF ServerTypes
  <2> QED
    BY <1>1, <2>2, <2>3
<1> QED
    BY <1>3, <1>4, <1>5 DEF PushTypes

LEMMA TypesStay ==
    PushTypes /\ PushIInv /\ PushIInv' /\ PullDeleteIInv /\ WorldInv /\ [CommandsNext]_commandVars
        => PushTypes'
<1> SUFFICES ASSUME PushTypes, PushIInv, PushIInv', PullDeleteIInv, WorldInv, [CommandsNext]_commandVars
             PROVE  PushTypes'
    OBVIOUS
<1>1. CASE Command \/ World \/ EditorFails \/ EditCancelled \/ PushEnds \/ UNCHANGED commandVars
  <2>1. UNCHANGED pushVars
    BY <1>1 DEF Command, World, EditorFails, EditCancelled, PushEnds, commandVars
  <2> QED
    BY <2>1, TypesSame
<1> QED
    BY <1>1, ReadTypes, BeginningTypes, PushStepTypes, OthersTypes DEF CommandsNext

LEMMA TypesInvariant == CommandsSpec => []PushTypes
    BY TypesStart, TypesStay, PushInvariant, PullDeleteInvariant, WorldInvariant, PTL DEF CommandsSpec

LEMMA PushIsTyped == PushIInv /\ PushTypes => Push!TypeOK
<1> SUFFICES ASSUME PushIInv, PushTypes PROVE Push!TypeOK
    OBVIOUS
<1>1. /\ walked \in 0..Len(pushTree) /\ pathCh \in Seq(Push!Files) /\ resCh \in Seq(Push!Files)
      /\ {pathClosed, resClosed, readAborted, cancelled, faulty} \subseteq BOOLEAN
      /\ reader \in [Push!Files -> {"none", "reading", "sending", "done"}]
      /\ phase \in {"idle", "folders", "rest", "done"}
    BY DEF PushIInv, ReadInv, PhaseInv, PushTypes, TreeTypes, ServerTypes, PusherTypes, Push!Files
<1>2. \A r \in DOMAIN read : read[r] \in Push!Objects /\ Push!R!Ref(read[r]) = r
    BY DEF PushTypes, TreeTypes
<1>3. /\ levels \in Seq(SUBSET Push!P!Folders)
      /\ group \subseteq Push!P!Refs /\ nodes \subseteq Push!P!Folders
      /\ seen = <<>> \/ seen \in [Push!P!Refs -> Nat]
      /\ result \in {"none", "nil", "error"}
    BY DEF PushIInv, ResultInv, PushTypes, PusherTypes
<1>4. at = <<>> \/ at \in [Push!P!Refs -> Push!P!Ended \cup {"waiting", "get", "write", "sent", "returning"}]
  <2>1. Labels = Push!P!Ended \cup {"waiting", "get", "write", "sent", "returning"}
    BY DEF Labels, Push!P!Ended
  <2> QED
    BY <2>1 DEF PushTypes, PusherTypes
<1>5. success + pushFailed \in 0..Push!Cardinality(Push!P!Refs)
    BY PushCardinalityIs DEF PushTypes, PusherTypes
<1>6. versions \in [DOMAIN author -> Nat] /\ pushEdits \in 0..MaxPushEdits
    BY DEF PushTypes, ServerTypes
<1> QED
    BY <1>1, <1>2, <1>3, <1>4, <1>5, <1>6 DEF Push!TypeOK

(* The files stay safe, selectors mean what they say where no word is       *)
(* ambiguous, every variable of a push has its type, all that could be read *)
(* is pushed, and folders are sorted exactly if their parents form no cycle.*)
THEOREM CommandsAreSound == ASSUME CasesAreClear PROVE CommandsSpec => []Inv
<1>1. PullDeleteIInv /\ WorldInv => PullDeleteInv
  <2>1. PullDeleteIInv /\ WorldInv => SelectorsMeanTypes
    BY SelectorsAreSound
  <2>2. PullDeleteIInv => TypeOK /\ FilesAreSafe /\ LogInFirst
    BY DEF PullDeleteIInv, FilesInv, FilesAreSafe, LogInFirst
  <2> QED
    BY <2>1, <2>2 DEF PullDeleteInv
<1>2. PushIInv => Push!SortIsTopological
    BY SortIsSound DEF PushIInv, PhaseInv
<1>3. CommandsSpec => []Push!ReadIsComplete
    BY NothingIsLeftUnread
<1>4. PullDeleteInv /\ Push!TypeOK /\ Push!ReadIsComplete /\ Push!SortIsTopological => Inv
    BY DEF Inv, Push!Inv
<1> QED
    BY <1>1, <1>2, <1>3, <1>4, PushIsTyped, PullDeleteInvariant, WorldInvariant, PushInvariant,
       TypesInvariant, PTL

-----------------------------------------------------------------------------
(* What a push achieves when nothing fails                                  *)

(* A tree that can be pushed as it is, without a fault or another user: no  *)
(* read fails, and no callback ever leaves the way to a success, since what *)
(* it has seen of its object stays true and its parent is there.            *)
Clean == Push!Pushable /\ ~faulty /\ ~request.dryRun

IsSent(r) == read[r].foreign => request.includeManaged

OnItsWay(r) ==
    /\ \/ at[r] \in {"waiting", "get", "write", "sent", "pushed"}
       \/ at[r] = "skipped" /\ ~IsSent(r)
    /\ at[r] \in {"write", "sent"} => seen[r] = versions[Push!P!Key(r)]
    /\ at[r] = "pushed" => author[Push!P!Key(r)] = r /\ versions[Push!P!Key(r)] # 0

(* What is not written is as others have left it.                           *)
WrittenBy(k) ==
    \/ author[k] = Push!P!Others
    \/ \E r \in DOMAIN read : Push!P!Key(r) = k /\ at[r] = "pushed"

CleanInv ==
    /\ (\A f \in DOMAIN pushTree : Push!R!Object(pushTree[f])) => ~readAborted
    /\ \A r \in DOMAIN at : at[r] \in {"get", "write", "sent", "pushed"} => IsSent(r)
    /\ phase = "idle" => \A k \in DOMAIN author : author[k] = Push!P!Others
    /\ Clean /\ phase # "idle" =>
          /\ \A f \in DOMAIN pushTree : Push!R!Ref(pushTree[f]) \in DOMAIN read
          /\ nodes = Push!P!Folders
          /\ ~cancelled /\ (phase = "done" => result = "nil")
          /\ \A r \in DOMAIN read : OnItsWay(r)
          /\ \A k \in DOMAIN author : WrittenBy(k)

(* What Pushable says of the files.                                         *)
LEMMA PushableSays ==
    ASSUME Push!Pushable
    PROVE  /\ Push!Acyclic(Push!P!Folders)
           /\ \A f \in DOMAIN pushTree :
                /\ Push!R!Object(pushTree[f])
                /\ <<pushTree[f].kind, pushTree[f].version>> \in request.supported
                /\ \A g \in DOMAIN pushTree :
                      <<pushTree[f].kind, pushTree[f].uid>> = <<pushTree[g].kind, pushTree[g].uid>> => f = g
                /\ \/ pushTree[f].kind # "Folder" \/ pushTree[f].parent = NoParent
                   \/ versions[<<"Folder", pushTree[f].parent>>] # 0
                   \/ \E g \in DOMAIN pushTree :
                         /\ pushTree[g].kind = "Folder" /\ pushTree[g].uid = pushTree[f].parent
                         /\ Push!Goes(g)
    BY DEF Push!Pushable, Push!Files

(* Each resource is of one file, and no two are of one object of Grafana.   *)
LEMMA RefsAre ==
    ASSUME PushTypes, Push!Pushable
    PROVE  /\ \A r \in DOMAIN read : \E f \in DOMAIN pushTree :
                 /\ read[r] = pushTree[f] /\ Push!R!Ref(pushTree[f]) = r
                 /\ Push!P!Key(r) = <<pushTree[f].kind, pushTree[f].uid>>
                 /\ <<r[1], r[2]>> = <<pushTree[f].kind, pushTree[f].version>>
           /\ \A r, q \in DOMAIN read : Push!P!Key(r) = Push!P!Key(q) => r = q
<1>1. ASSUME NEW r \in DOMAIN read
      PROVE  \E f \in DOMAIN pushTree :
                 /\ read[r] = pushTree[f] /\ Push!R!Ref(pushTree[f]) = r
                 /\ Push!P!Key(r) = <<pushTree[f].kind, pushTree[f].uid>>
                 /\ <<r[1], r[2]>> = <<pushTree[f].kind, pushTree[f].version>>
  <2>1. read[r] \in Push!Objects /\ Push!R!Ref(read[r]) = r
    BY DEF PushTypes, TreeTypes
  <2>2. PICK f \in DOMAIN pushTree : read[r] = pushTree[f]
    BY <2>1 DEF Push!Objects, Push!Files
  <2> QED
    BY <2>1, <2>2 DEF Push!R!Ref, Push!P!Key
<1>2. ASSUME NEW r \in DOMAIN read, NEW q \in DOMAIN read, Push!P!Key(r) = Push!P!Key(q) PROVE r = q
  <2>1. PICK f \in DOMAIN pushTree :
            Push!R!Ref(pushTree[f]) = r /\ Push!P!Key(r) = <<pushTree[f].kind, pushTree[f].uid>>
    BY <1>1
  <2>2. PICK g \in DOMAIN pushTree :
            Push!R!Ref(pushTree[g]) = q /\ Push!P!Key(q) = <<pushTree[g].kind, pushTree[g].uid>>
    BY <1>1
  <2>3. f = g
    BY <1>2, <2>1, <2>2, PushableSays
  <2> QED
    BY <2>1, <2>2, <2>3
<1> QED
    BY <1>1, <1>2

(* The folders of distinct uids are all in the hierarchy.                   *)
LEMMA AllFoldersSorted ==
    ASSUME PushTypes, Push!Pushable, IsFiniteSet(DOMAIN read), NEW ns \in Push!P!NodeSets
    PROVE  ns = Push!P!Folders /\ Push!P!Sorted(ns)
<1>1. ns \subseteq Push!P!Folders /\ ns \subseteq DOMAIN read
    BY NodesAre
<1>2. ASSUME NEW r \in Push!P!Folders PROVE r \in ns
  <2> DEFINE A == {n \in ns : Push!P!Uid(n) = Push!P!Uid(r)}
  <2>1. Cardinality(A) = 1
    BY CardinalityIs DEF Push!P!NodeSets
  <2>2. A # {}
    <3> HIDE DEF A
    <3> QED
      BY <2>1, FS_EmptySet
  <2>3. PICK n \in ns : Push!P!Uid(n) = Push!P!Uid(r)
    BY <2>2
  <2>4. n \in DOMAIN read /\ r \in DOMAIN read /\ Push!P!Key(n) = Push!P!Key(r)
    BY <1>1, <2>3 DEF Push!P!Folders, Push!P!Refs, Push!P!IsFolder, Push!P!Key, Push!P!Uid
  <2>5. n = r
    BY <2>4, RefsAre
  <2> QED
    BY <2>5
<1>3. ns = Push!P!Folders
    BY <1>1, <1>2
<1>4. \A p, q \in ns : Push!P!Uid(p) = Push!P!Uid(q) => p = q
    BY NodesAre
<1>5. Push!P!Sorted(ns) <=> Push!Acyclic(ns)
    BY <1>1, <1>4, FS_Subset, SortedIsAcyclic
<1> QED
    BY <1>3, <1>5, PushableSays

\* The number after w is no larger than n, when w is less.
LEMMA NextIsIn ==
  ASSUME NEW n \in Nat, NEW w \in 0..n, w < n
  PROVE  w + 1 \in 1..n
  OBVIOUS

(* Start: everything waits, and the folders can be sorted.                  *)
LEMMA CleanStarts ==
    ASSUME PushIInv, PushTypes, CleanInv, Push!R!Finished, ~readAborted, Push!P!Start,
           UNCHANGED <<pushTree, walked, pathCh, pathClosed, reader, resCh, resClosed, readAborted>>
    PROVE  CleanInv'
<1>1. /\ phase = "idle" /\ Unstarted
      /\ UNCHANGED <<request, read, cancelled, versions, author, faulty>>
      /\ at' = [r \in DOMAIN read |-> "waiting"]
    BY DEF Push!P!Start, Push!P!World, PushIInv, PhaseInv, Push!P!Refs
<1>2. Push!Pushable' <=> Push!Pushable
    BY <1>1 DEF Push!Pushable, Push!Goes, Push!Files, Push!Acyclic, Push!P!Folders, Push!P!Refs, Push!P!ParentsIn, Push!P!Parent
<1>3. SUFFICES ASSUME Clean' PROVE
          /\ \A f \in DOMAIN pushTree' : Push!R!Ref(pushTree'[f]) \in DOMAIN read'
          /\ nodes' = Push!P!Folders'
          /\ ~cancelled' /\ (phase' = "done" => result' = "nil")
          /\ \A r \in DOMAIN read' : OnItsWay(r)'
          /\ \A k \in DOMAIN author' : WrittenBy(k)'
  <2>1. \A r \in DOMAIN at' : at'[r] = "waiting"
    BY <1>1
  <2>2. phase' # "idle"
    BY DEF Push!P!Start, Push!P!Return
  <2> QED
    BY <1>1, <2>1, <2>2 DEF CleanInv
<1>4. Push!Pushable
    BY <1>2, <1>3 DEF Clean
<1>5. PICK ns \in Push!P!NodeSets :
         /\ nodes' = ns
         /\ Push!P!Sorted(ns) => phase' = "folders"
    BY DEF Push!P!Start
<1>6. ns = Push!P!Folders /\ Push!P!Sorted(ns)
    BY <1>4, AllFoldersSorted DEF PushIInv, PhaseInv
<1>7. ASSUME NEW f \in DOMAIN pushTree PROVE Push!R!Ref(pushTree[f]) \in DOMAIN read
  <2>1. resClosed /\ resCh = <<>>
    BY DEF Push!R!Finished
  <2>2. pathCh = <<>> /\ walked = Len(pushTree) /\ DOMAIN pushTree = 1..Len(pushTree)
        /\ reader[f] \notin {"reading", "sending"}
    BY <2>1 DEF PushIInv, ReadInv, Push!R!Reading
  <2>3. Handled(f)
    BY <2>1, <2>2 DEF PushIInv, ReadInv
  <2>4. Push!R!Object(pushTree[f])
    BY <1>4, PushableSays
  <2> QED
    BY <2>1, <2>2, <2>3, <2>4 DEF Handled, ToSet
<1>8. \A r \in DOMAIN read' : OnItsWay(r)'
    BY <1>1 DEF OnItsWay
<1>9. \A k \in DOMAIN author' : WrittenBy(k)'
    BY <1>1 DEF CleanInv, WrittenBy
<1> QED
    BY <1>1, <1>5, <1>6, <1>7, <1>8, <1>9 DEF Unstarted, Push!P!Folders, Push!P!Refs

(* A callback of a clean push goes on, and disturbs no other.               *)
LEMMA CleanCallback ==
    ASSUME PushIInv, PushTypes, CleanInv, Push!Pushable, Clean', ~faulty, ~request.dryRun,
           NEW r \in group, Push!P!PushStep(r), Pushing
    PROVE  /\ ~cancelled' /\ UNCHANGED <<phase, result, nodes, read>>
           /\ \A q \in DOMAIN read : OnItsWay(q)'
           /\ \A k \in DOMAIN author' : WrittenBy(k)'
<1>1. /\ \A f \in DOMAIN pushTree : Push!R!Ref(pushTree[f]) \in DOMAIN read
      /\ nodes = Push!P!Folders /\ ~cancelled /\ \A q \in DOMAIN read : OnItsWay(q)
      /\ \A k \in DOMAIN author : WrittenBy(k)
    BY DEF CleanInv, Clean, Pushing
<1>2. r \in DOMAIN read /\ at \in [DOMAIN read -> Labels] /\ seen \in [DOMAIN read -> Nat]
      /\ versions \in [DOMAIN author -> Nat]
    BY DEF PushIInv, ResultInv, CountInv, Push!P!Refs, PushTypes, PusherTypes, ServerTypes
<1>3. ~faulty'
    BY DEF Clean
<1>4. PICK f \in DOMAIN pushTree :
          /\ read[r] = pushTree[f] /\ Push!R!Ref(pushTree[f]) = r
          /\ Push!P!Key(r) = <<pushTree[f].kind, pushTree[f].uid>>
          /\ <<r[1], r[2]>> = <<pushTree[f].kind, pushTree[f].version>>
    BY <1>2, RefsAre
<1>5. /\ <<r[1], r[2]>> \in request.supported
      /\ Push!P!IsFolder(r) =>
         \/ Push!P!Parent(r) = NoParent \/ versions[<<"Folder", Push!P!Parent(r)>>] # 0
         \/ \E g \in DOMAIN pushTree :
               pushTree[g].kind = "Folder" /\ pushTree[g].uid = Push!P!Parent(r) /\ Push!Goes(g)
  <2>1. Push!P!IsFolder(r) => pushTree[f].kind = "Folder"
    BY <1>4 DEF Push!P!IsFolder, Push!R!Ref
  <2> QED
    BY <1>4, <2>1, PushableSays DEF Push!P!Parent
<1>6. Push!P!Key(r) \in DOMAIN versions
  <2>1. pushTree[f] \in Push!Objects
    BY PushableSays DEF Push!Objects, Push!Files
  <2> QED
    BY <1>4, <2>1 DEF PushTypes, ServerTypes
<1>7. OnItsWay(r) /\ at[r] # "returning"
    BY <1>1, <1>2 DEF OnItsWay
<1>8. UNCHANGED <<phase, result, nodes, read>>
    BY CallbackMoves DEF Moves
<1>9. ASSUME NEW label \in {"get", "write", "sent", "skipped"}, Push!P!Goto(r, label),
             at[r] # "pushed", UNCHANGED <<versions, author, request>>,
             label = "get" => UNCHANGED seen,
             label = "skipped" => UNCHANGED seen /\ ~IsSent(r),
             label = "write" => seen' = [seen EXCEPT ![r] = versions[Push!P!Key(r)]],
             label = "sent" => UNCHANGED seen /\ at[r] = "write"
      PROVE  /\ \A q \in DOMAIN read : OnItsWay(q)'
             /\ \A k \in DOMAIN author' : WrittenBy(k)'
  <2>1. at' = [at EXCEPT ![r] = label]
    BY <1>9 DEF Push!P!Goto
  <2>2. SUFFICES ASSUME NEW q \in DOMAIN read PROVE OnItsWay(q)'
    <3>1. \A p \in DOMAIN read : at[p] = "pushed" => at'[p] = "pushed"
      BY <1>2, <1>9, <2>1
    <3>2. \A k \in DOMAIN author' : WrittenBy(k)'
      BY <1>1, <1>8, <1>9, <3>1 DEF WrittenBy
    <3> QED
      BY <3>2
  <2>3. CASE q # r
    <3>1. at'[q] = at[q] /\ seen'[q] = seen[q]
      BY <1>2, <1>9, <2>1, <2>3
    <3> QED
      BY <1>1, <1>8, <1>9, <3>1 DEF OnItsWay, IsSent
  <2>4. CASE q = r
    <3>1. at'[r] = label
      BY <1>2, <2>1
    <3>2. label \in {"write", "sent"} => seen'[r] = versions[Push!P!Key(r)]
      BY <1>2, <1>7, <1>9 DEF OnItsWay
    <3> QED
      BY <1>8, <1>9, <2>4, <3>1, <3>2 DEF OnItsWay, IsSent
  <2> QED
    BY <2>3, <2>4
<1>10. CASE Push!P!Begin(r)
  <2>1. /\ Push!P!Goto(r, "get") \/ (Push!P!Goto(r, "skipped") /\ ~IsSent(r))
        /\ UNCHANGED <<versions, author, seen, cancelled, request>> /\ at[r] # "pushed"
    BY <1>3, <1>5, <1>10 DEF Push!P!Begin, IsSent
  <2> QED
    BY <1>1, <1>8, <1>9, <2>1
<1>11. CASE Push!P!RequestError(r)
    BY <1>3, <1>11 DEF Push!P!RequestError
<1>12. CASE Push!P!Get(r)
  <2>1. Push!P!Goto(r, "write") /\ UNCHANGED <<versions, author, cancelled, request>> /\ at[r] = "get"
        /\ seen' = [seen EXCEPT ![r] = versions[Push!P!Key(r)]]
    BY <1>12 DEF Push!P!Get, Push!P!World
  <2> QED
    BY <1>1, <1>8, <1>9, <2>1
<1>13. CASE Push!P!SendWrite(r)
  <2>1. Push!P!Goto(r, "sent") /\ UNCHANGED <<versions, author, cancelled, seen, request>> /\ at[r] = "write"
    BY <1>13 DEF Push!P!SendWrite, Push!P!World
  <2> QED
    BY <1>1, <1>8, <1>9, <2>1
<1>14. CASE Push!P!Written(r)
  <2>1. /\ versions' = [versions EXCEPT ![Push!P!Key(r)] = @ + 1]
        /\ author' = [author EXCEPT ![Push!P!Key(r)] = r]
        /\ at' = [at EXCEPT ![r] = "pushed"]
        /\ UNCHANGED <<cancelled, seen, request>>
    BY <1>3, <1>14 DEF Push!P!Written, Push!P!Goto
  <2>2. SUFFICES ASSUME NEW q \in DOMAIN read PROVE OnItsWay(q)'
    <3>1. at'[r] = "pushed" /\ \A p \in DOMAIN read : at[p] = "pushed" => at'[p] = "pushed"
      BY <1>2, <2>1
    <3>2. DOMAIN author' = DOMAIN author /\ \A k \in DOMAIN author \ {Push!P!Key(r)} : author'[k] = author[k]
      BY <2>1
    <3>3. \A k \in DOMAIN author' : WrittenBy(k)'
      BY <1>1, <1>2, <1>8, <3>1, <3>2 DEF WrittenBy
    <3> QED
      BY <1>1, <1>8, <2>1, <3>3
  <2>3. CASE q # r
    <3>1. Push!P!Key(q) # Push!P!Key(r)
      BY <1>2, <2>3, RefsAre
    <3>2. /\ at'[q] = at[q] /\ seen'[q] = seen[q]
          /\ versions'[Push!P!Key(q)] = versions[Push!P!Key(q)] /\ author'[Push!P!Key(q)] = author[Push!P!Key(q)]
      BY <1>2, <2>1, <2>3, <3>1
    <3> QED
      BY <1>1, <1>8, <2>1, <3>2 DEF OnItsWay, IsSent
  <2>4. CASE q = r
    <3>1. at'[r] = "pushed" /\ author'[Push!P!Key(r)] = r
      BY <1>2, <1>6, <2>1
    <3>2. versions'[Push!P!Key(r)] = versions[Push!P!Key(r)] + 1 /\ versions[Push!P!Key(r)] \in Nat
      BY <1>2, <1>6, <2>1
    <3>3. versions'[Push!P!Key(r)] # 0
      BY <3>2
    <3> QED
      BY <2>4, <3>1, <3>3 DEF OnItsWay
  <2> QED
    BY <2>3, <2>4
<1>15. CASE Push!P!Refused(r)
  <2>1. at[r] = "sent" /\ ~Push!P!Accepts(r)
    BY <1>15 DEF Push!P!Refused
  <2>2. versions[Push!P!Key(r)] = seen[r]
    BY <1>7, <2>1 DEF OnItsWay
  <2>3. ASSUME Push!P!IsFolder(r), Push!P!Parent(r) # NoParent
        PROVE  versions[<<"Folder", Push!P!Parent(r)>>] # 0
    <3>1. SUFFICES ASSUME NEW g \in DOMAIN pushTree, Push!Goes(g),
                          pushTree[g].kind = "Folder", pushTree[g].uid = Push!P!Parent(r)
                   PROVE  versions[<<"Folder", Push!P!Parent(r)>>] # 0
      BY <1>5, <2>3
    <3>2. PICK q : q = Push!R!Ref(pushTree[g])
      OBVIOUS
    <3>3. q \in DOMAIN read /\ q[1] = "Folder" /\ q[3] = Push!P!Parent(r)
      BY <1>1, <3>1, <3>2 DEF Push!R!Ref
    <3>4. q \in Push!P!ParentsIn(r, nodes)
      BY <1>1, <3>3 DEF Push!P!ParentsIn, Push!P!Folders, Push!P!Refs, Push!P!IsFolder, Push!P!Uid
    <3>5. at[q] \in Push!P!Ended
      BY <2>3, <3>4 DEF PushIInv, OrderInv, Settled
    <3>6. versions[Push!P!Key(q)] # 0
      <4>1. PICK h \in DOMAIN pushTree : read[q] = pushTree[h] /\ Push!R!Ref(pushTree[h]) = q
        BY <3>3, RefsAre
      <4>2. <<pushTree[h].kind, pushTree[h].uid>> = <<pushTree[g].kind, pushTree[g].uid>>
        BY <3>2, <4>1 DEF Push!R!Ref
      <4>3. h = g
        BY <4>2, PushableSays
      <4>4. IsSent(q)
        BY <3>1, <4>1, <4>3 DEF IsSent, Push!Goes
      <4> QED
        BY <1>1, <3>3, <3>5, <4>4 DEF OnItsWay, Push!P!Ended
    <3>7. Push!P!Key(q) = <<"Folder", Push!P!Parent(r)>>
      BY <3>3 DEF Push!P!Key
    <3> QED
      BY <3>6, <3>7
  <2>4. Push!P!Accepts(r)
    BY <2>2, <2>3 DEF Push!P!Accepts, Push!P!Replaced
  <2> QED
    BY <2>1, <2>4
<1>16. CASE Push!P!ReturnError(r)
    BY <1>7, <1>16 DEF Push!P!ReturnError
<1> QED
    BY <1>10, <1>11, <1>12, <1>13, <1>14, <1>15, <1>16 DEF Push!P!PushStep

(* The push itself never makes a tree pushable that was not: it adds only   *)
(* what the tree has.                                                       *)
LEMMA PushableBefore ==
    ASSUME PushTypes, NEW r \in DOMAIN read, UNCHANGED <<pushTree, request, read>>,
           \/ UNCHANGED versions
           \/ versions' = [versions EXCEPT ![Push!P!Key(r)] = @ + 1] /\ IsSent(r),
           Push!Pushable'
    PROVE  Push!Pushable
<1>1. Push!Acyclic(Push!P!Folders)
    BY DEF Push!Pushable, Push!Acyclic, Push!P!Folders, Push!P!Refs, Push!P!ParentsIn, Push!P!Parent
<1>2. ASSUME NEW f \in DOMAIN pushTree
      PROVE  \/ pushTree[f].kind # "Folder" \/ pushTree[f].parent = NoParent
             \/ <<"Folder", pushTree[f].parent>> \in {k \in DOMAIN versions : versions[k] # 0}
             \/ \E g \in DOMAIN pushTree :
                   pushTree[g].kind = "Folder" /\ pushTree[g].uid = pushTree[f].parent /\ Push!Goes(g)
  <2>1. SUFFICES ASSUME <<"Folder", pushTree[f].parent>> \in {k \in DOMAIN versions' : versions'[k] # 0}
                 PROVE  \/ <<"Folder", pushTree[f].parent>> \in {k \in DOMAIN versions : versions[k] # 0}
                        \/ \E g \in DOMAIN pushTree :
                              pushTree[g].kind = "Folder" /\ pushTree[g].uid = pushTree[f].parent /\ Push!Goes(g)
    BY DEF Push!Pushable, Push!Goes, Push!Files
  <2>2. PICK k : k = <<"Folder", pushTree[f].parent>>
    OBVIOUS
  <2>3. k \in DOMAIN versions /\ versions'[k] # 0
    BY <2>1, <2>2
  <2>4. CASE k = Push!P!Key(r)
    <3>1. read[r] \in Push!Objects /\ Push!R!Ref(read[r]) = r
      BY DEF PushTypes, TreeTypes
    <3>2. PICK g \in DOMAIN pushTree : read[r] = pushTree[g]
      BY <3>1 DEF Push!Objects, Push!Files
    <3>3. k = <<pushTree[g].kind, pushTree[g].uid>>
      BY <2>4, <3>1, <3>2 DEF Push!P!Key, Push!R!Ref
    <3>4. CASE UNCHANGED versions
      BY <2>2, <2>3, <3>4
    <3>5. CASE IsSent(r)
      BY <2>2, <3>2, <3>3, <3>5 DEF IsSent, Push!Goes
    <3> QED
      BY <3>4, <3>5
  <2>5. CASE k # Push!P!Key(r)
    <3>1. versions'[k] = versions[k]
      BY <2>3, <2>5
    <3> QED
      BY <2>2, <2>3, <3>1
  <2> QED
    BY <2>4, <2>5
<1> QED
    BY <1>1, <1>2 DEF Push!Pushable, Push!Goes, Push!Files

LEMMA CleanSame ==
    ASSUME CleanInv, UNCHANGED pushVars
    PROVE  CleanInv'
<1> USE DEF pushVars, inputOfPush, readerVars, pusherVars, worldVars
<1>1. Push!Pushable' <=> Push!Pushable
    BY DEF Push!Pushable, Push!Goes, Push!Files, Push!Acyclic, Push!P!Folders, Push!P!Refs, Push!P!ParentsIn, Push!P!Parent
<1>2. \A r : (OnItsWay(r)' <=> OnItsWay(r)) /\ (WrittenBy(r)' <=> WrittenBy(r))
    BY DEF OnItsWay, WrittenBy, IsSent
<1> QED
    BY <1>1, <1>2 DEF CleanInv, Clean, IsSent, Push!P!Folders, Push!P!Refs

LEMMA CleanReads ==
    ASSUME PushIInv, CleanInv, ReadTree \/ ReadError
    PROVE  CleanInv'
<1>1. phase = "idle" /\ UNCHANGED pushTree
    BY DEF ReadTree, ReadError, Push!Read, Push!ReadError, Push!readerVars,
       Push!R!Next, Push!R!Walk, Push!R!WalkEnd, Push!R!Dispatch, Push!R!DispatchEnd,
       Push!R!Collect, Push!R!ReadFile, Push!R!SendResult
<1>0. at = <<>> /\ UNCHANGED <<at, author>>
    BY <1>1 DEF PushIInv, PhaseInv, Unstarted, ReadTree, ReadError, Push!Read, Push!ReadError,
       Push!pushVars, Push!worldVars
<1>2. CASE ReadError
  <2>0. phase' = "done"
    BY <1>2 DEF ReadError, Push!ReadError, Push!P!Return
  <2>1. readAborted /\ readAborted' = readAborted
    BY <1>2 DEF ReadError, Push!ReadError, Push!readerVars
  <2>2. ~Push!Pushable'
    BY <1>1, <2>1 DEF CleanInv, Push!Pushable, Push!Files
  <2> QED
    BY <1>0, <1>1, <2>0, <2>1, <2>2 DEF CleanInv, Clean
<1>3. CASE ReadTree
  <2>1. Push!R!Next /\ phase' = "idle"
    BY <1>1, <1>3 DEF ReadTree, Push!Read, Push!pushVars
  <2>2. ASSUME \A f \in DOMAIN pushTree : Push!R!Object(pushTree[f]) PROVE ~readAborted'
    <3>1. ~readAborted
      BY <2>2 DEF CleanInv
    <3>2. CASE \E f \in DOMAIN pushTree : Push!R!ReadFile(f) \/ Push!R!SendResult(f)
      BY <2>2, <3>1, <3>2 DEF Push!R!ReadFile, Push!R!SendResult
    <3>3. CASE Push!R!WalkEnd
      <4>1. CASE walked < Len(pushTree)
        <5>1. walked + 1 \in DOMAIN pushTree
          <6>1. walked \in 0..Len(pushTree)
            BY DEF PushIInv, ReadInv
          <6>2. Len(pushTree) \in Nat
            BY DEF PushIInv, ReadInv
          <6>3. DOMAIN pushTree = 1..Len(pushTree)
            BY DEF PushIInv, ReadInv
          <6>4. PICK n : n = Len(pushTree)
            OBVIOUS
          <6>5. PICK w : w = walked
            OBVIOUS
          <6>6. w + 1 \in 1..n
            BY <4>1, <6>1, <6>2, <6>4, <6>5, NextIsIn
          <6> QED
            BY <6>3, <6>4, <6>5, <6>6
        <5>2. pushTree[walked + 1] # Push!R!Missing
          BY <2>2, <5>1 DEF Push!R!Object
        <5> QED
          BY <3>1, <3>3, <5>2 DEF Push!R!WalkEnd
      <4> QED
        BY <3>1, <3>3, <4>1 DEF Push!R!WalkEnd
    <3> QED
      BY <2>1, <3>1, <3>2, <3>3 DEF Push!R!Next, Push!R!Walk, Push!R!Dispatch, Push!R!DispatchEnd, Push!R!Collect
  <2> QED
    BY <1>0, <1>1, <2>1, <2>2 DEF CleanInv
<1> QED
    BY <1>2, <1>3

LEMMA CleanBeginnings ==
    ASSUME PushIInv, CleanInv, PushFollows \/ EditSaved
    PROVE  CleanInv'
<1>1. phase = "idle" /\ phase' = phase /\ ~readAborted /\ readAborted' = readAborted
  <2>1. CASE PushFollows
    BY <2>1 DEF PushFollows, PushIInv, PhaseInv, Unread, pusherVars
  <2>2. CASE EditSaved
    BY <2>2 DEF EditSaved, PushIInv, PhaseInv, Unread, pusherVars
  <2> QED
    BY <2>1, <2>2
<1>2. at = <<>> /\ at' = at
    BY <1>1 DEF PushIInv, PhaseInv, Unstarted, PushFollows, EditSaved, pusherVars
<1>3. \A k \in DOMAIN author' : author'[k] = Push!P!Others
  <2>1. UNCHANGED author \/ \E docs, gone : StartsWith(docs, gone)
    BY DEF PushFollows, EditSaved
  <2> QED
    BY <1>1, <2>1 DEF StartsWith, CleanInv
<1> QED
    BY <1>1, <1>2, <1>3 DEF CleanInv

LEMMA CleanSteps ==
    ASSUME PushIInv, PushTypes, CleanInv, PushStep
    PROVE  CleanInv'
<1>1. /\ Push!R!Finished /\ ~readAborted
      /\ UNCHANGED <<pushTree, walked, pathCh, pathClosed, reader, resCh, resClosed, readAborted>>
    BY DEF PushStep, Push!Push, Push!readerVars
<1>2. CASE Push!P!Start
    BY <1>1, <1>2, CleanStarts
<1>3. CASE Push!P!PushLevel \/ Push!P!PushRest \/ Push!P!Finish
  <2>1. /\ phase # "idle"
        /\ UNCHANGED <<request, read, nodes, at, seen, cancelled, versions, author, faulty>>
        /\ (phase' = "done" => result' = "nil" \/ cancelled) /\ phase' # "idle"
    BY <1>3 DEF Push!P!PushLevel, Push!P!PushRest, Push!P!Finish, Push!P!Return, Push!P!World
  <2>2. Push!Pushable' <=> Push!Pushable
    BY <1>1, <2>1 DEF Push!Pushable, Push!Goes, Push!Files, Push!Acyclic, Push!P!Folders, Push!P!Refs, Push!P!ParentsIn, Push!P!Parent
  <2>3. \A r : (OnItsWay(r)' <=> OnItsWay(r)) /\ (WrittenBy(r)' <=> WrittenBy(r))
    BY <2>1 DEF OnItsWay, WrittenBy, IsSent
  <2> QED
    BY <1>1, <2>1, <2>2, <2>3 DEF CleanInv, Clean, IsSent, Push!P!Folders, Push!P!Refs
<1>4. CASE \E r \in group : Push!P!PushStep(r)
  <2>1. PICK r \in group : Push!P!PushStep(r)
    BY <1>4
  <2>2. PICK label : Moves(r, label)
    BY <2>1, CallbackMoves
  <2>3. at[r] \notin Push!P!Ended /\ UNCHANGED <<request, read, phase, result, nodes>> /\ r \in DOMAIN read
    BY <2>2 DEF Moves, PushIInv, ResultInv, Push!P!Refs
  <2>4. Pushing
    BY <2>1, <2>3 DEF PushIInv, PhaseInv, ResultInv, Unstarted, Pushing, Push!P!GroupEnded
  <2> DEFINE Moving == {"get", "write", "sent", "pushed"}
  <2>0. \A q \in DOMAIN at' : at'[q] \in Moving => IsSent(q)'
    <3>1. DOMAIN at' = DOMAIN at /\ \A q \in DOMAIN at \ {r} : at'[q] = at[q]
      BY <2>2 DEF Moves
    <3>2. r \in DOMAIN at /\ at'[r] \in Moving => IsSent(r)
      <4>1. ASSUME Push!P!Begin(r), r \in DOMAIN at PROVE at'[r] \in Moving => IsSent(r)
        <5>1. \/ Push!P!Fail(r)
              \/ Push!P!Goto(r, IF read[r].foreign /\ ~request.includeManaged THEN "skipped" ELSE "get")
          BY <4>1 DEF Push!P!Begin
        <5> QED
          BY <4>1, <5>1 DEF Push!P!Fail, Push!P!Goto, IsSent
      <4>2. ASSUME ~Push!P!Begin(r), r \in DOMAIN at PROVE at[r] \in Moving \/ at'[r] \notin Moving
        BY <2>1, <4>2 DEF Push!P!PushStep, Push!P!RequestError, Push!P!Get, Push!P!SendWrite,
           Push!P!Written, Push!P!Refused, Push!P!ReturnError, Push!P!Goto
      <4> QED
        BY <4>1, <4>2 DEF CleanInv
    <3> QED
      BY <2>3, <3>1, <3>2 DEF CleanInv, IsSent
  <2>5. SUFFICES ASSUME Clean' PROVE
          /\ \A f \in DOMAIN pushTree' : Push!R!Ref(pushTree'[f]) \in DOMAIN read'
          /\ nodes' = Push!P!Folders'
          /\ ~cancelled' /\ (phase' = "done" => result' = "nil")
          /\ \A q \in DOMAIN read' : OnItsWay(q)'
          /\ \A k \in DOMAIN author' : WrittenBy(k)'
    BY <1>1, <2>0, <2>3, <2>4 DEF CleanInv, Pushing
  <2>6. \/ UNCHANGED versions
        \/ versions' = [versions EXCEPT ![Push!P!Key(r)] = @ + 1] /\ at[r] = "sent"
    BY <2>1 DEF Push!P!PushStep, Push!P!Begin, Push!P!RequestError, Push!P!Get, Push!P!SendWrite,
       Push!P!Written, Push!P!Refused, Push!P!ReturnError, Push!P!World
  <2>7. Push!Pushable /\ ~request.dryRun
    <3>1. at[r] = "sent" => IsSent(r)
      BY <2>3, <2>4 DEF CleanInv, PushIInv, CountInv, Push!P!Refs
    <3> QED
      BY <1>1, <2>3, <2>5, <2>6, <3>1, PushableBefore DEF Clean
  <2>8. ~faulty
    <3>1. faulty' = faulty \/ faulty' = TRUE
      BY <2>1 DEF Push!P!PushStep, Push!P!Begin, Push!P!RequestError, Push!P!Get, Push!P!SendWrite,
         Push!P!Written, Push!P!Refused, Push!P!ReturnError, Push!P!World
    <3> QED
      BY <2>5, <3>1 DEF Clean
  <2>9. ~cancelled' /\ (\A q \in DOMAIN read : OnItsWay(q)') /\ \A k \in DOMAIN author' : WrittenBy(k)'
    BY <2>1, <2>4, <2>5, <2>7, <2>8, CleanCallback
  <2>10. /\ \A f \in DOMAIN pushTree : Push!R!Ref(pushTree[f]) \in DOMAIN read
         /\ nodes = Push!P!Folders
    BY <2>4, <2>7, <2>8 DEF CleanInv, Clean, Pushing
  <2> QED
    BY <1>1, <2>3, <2>4, <2>9, <2>10 DEF Pushing, Push!P!Folders, Push!P!Refs
<1> QED
    BY <1>2, <1>3, <1>4 DEF PushStep, Push!Push

LEMMA CleanInvariant == CommandsSpec => []CleanInv
<1>1. CommandsInit => CleanInv
    BY DEF CommandsInit, Push!Init, Push!R!Init, Push!P!Init, CleanInv
<1>2. PushIInv /\ PushTypes /\ CleanInv /\ [CommandsNext]_commandVars => CleanInv'
  <2> SUFFICES ASSUME PushIInv, PushTypes, CleanInv, [CommandsNext]_commandVars PROVE CleanInv'
    OBVIOUS
  <2>1. CASE Command \/ World \/ EditorFails \/ EditCancelled \/ PushEnds \/ UNCHANGED commandVars
    <3>1. UNCHANGED pushVars
      BY <2>1 DEF Command, World, EditorFails, EditCancelled, PushEnds, commandVars
    <3> QED
      BY <3>1, CleanSame
  <2>2. CASE Others
    <3>1. /\ faulty' = TRUE /\ UNCHANGED <<pushTree, readAborted, at, read, request, phase>>
          /\ phase # "idle"
      BY <2>2 DEF Others, Push!Others, Push!P!EditByOthers, Push!P!pusherVars, Push!readerVars
    <3> QED
      BY <3>1 DEF CleanInv, Clean, IsSent
  <2> QED
    BY <2>1, <2>2, CleanReads, CleanBeginnings, CleanSteps DEF CommandsNext
<1> QED
    BY <1>1, <1>2, PushInvariant, TypesInvariant, PTL DEF CommandsSpec

(* A push that returns no error has each resource once in its summary, and  *)
(* one of a sound tree, without faults and other users, returns none and    *)
(* has written all of it, each object by its own file (Push).               *)
THEOREM PushReportsHold == CommandsSpec => []PushReportIsTrue
<1>1. PushIInv /\ PushTypes /\ CleanInv => Push!CleanPushSucceeds
  <2> SUFFICES ASSUME PushIInv, PushTypes, CleanInv, phase = "done", Clean
               PROVE  /\ result = "nil" /\ pushFailed = 0
                      /\ success = Cardinality({f \in DOMAIN pushTree : Push!Goes(f)})
                      /\ \A f \in DOMAIN pushTree : Push!Goes(f) =>
                            author[<<pushTree[f].kind, pushTree[f].uid>>] = Push!R!Ref(pushTree[f])
                      /\ \A k \in DOMAIN author :
                            \/ author[k] = Push!P!Others
                            \/ \E f \in DOMAIN pushTree :
                                  Push!Goes(f) /\ k = <<pushTree[f].kind, pushTree[f].uid>>
    BY PushCardinalityIs DEF Push!CleanPushSucceeds, Clean, Push!Files
  <2>1. /\ \A f \in DOMAIN pushTree : Push!R!Ref(pushTree[f]) \in DOMAIN read
        /\ nodes = Push!P!Folders /\ result = "nil" /\ \A r \in DOMAIN read : OnItsWay(r)
        /\ Push!Pushable
    BY DEF CleanInv, Clean
  <2>2. /\ at \in [DOMAIN read -> Labels]
        /\ \A r \in DOMAIN read : at[r] = IF IsSent(r) THEN "pushed" ELSE "skipped"
    <3>1. at \in [DOMAIN read -> Labels]
      BY <2>1 DEF PushIInv, CountInv, Push!P!Refs
    <3>2. \A r \in DOMAIN read : at[r] = "pushed" \/ (at[r] = "skipped" /\ ~IsSent(r))
      BY <2>1 DEF PushIInv, ResultInv, OnItsWay, Push!P!Ended, Push!P!Refs
    <3>3. \A r \in DOMAIN read : at[r] = "pushed" => IsSent(r)
      BY <3>1 DEF CleanInv
    <3> QED
      BY <3>1, <3>2, <3>3
  <2>3. success = Cardinality(Those({"pushed"})) /\ pushFailed = Cardinality(Those({"failed", "returning"}))
    BY <2>1 DEF PushIInv, CountInv
  <2> DEFINE F == {f \in DOMAIN pushTree : Push!Goes(f)}
             S == {r \in DOMAIN read : IsSent(r)}
  <2>4. Those({"pushed"}) = S /\ Those({"failed", "returning"}) = {}
    BY <2>2 DEF Those, Push!P!Refs
  <2>5. DOMAIN pushTree = 1..Len(pushTree) /\ Len(pushTree) \in Nat
    BY DEF PushIInv, ReadInv
  <2>6. ASSUME NEW f \in DOMAIN pushTree, NEW r, r = Push!R!Ref(pushTree[f])
        PROVE  /\ r \in DOMAIN read /\ Push!P!Key(r) = <<pushTree[f].kind, pushTree[f].uid>>
               /\ read[r] = pushTree[f] /\ (IsSent(r) <=> Push!Goes(f))
    <3>1. r \in DOMAIN read /\ Push!P!Key(r) = <<pushTree[f].kind, pushTree[f].uid>>
      BY <2>1, <2>6 DEF Push!R!Ref, Push!P!Key
    <3>2. PICK g \in DOMAIN pushTree :
             read[r] = pushTree[g] /\ Push!P!Key(r) = <<pushTree[g].kind, pushTree[g].uid>>
      BY <2>1, <3>1, RefsAre
    <3>3. f = g
      BY <2>1, <3>1, <3>2, PushableSays
    <3> QED
      BY <3>1, <3>2, <3>3 DEF IsSent, Push!Goes
  <2>7. Cardinality(S) = Cardinality(F)
    <3> DEFINE ref == [f \in F |-> Push!R!Ref(pushTree[f])]
    <3>1. \A f \in F : ref[f] \in S
      BY <2>6
    <3>2. ASSUME NEW r \in S PROVE \E f \in F : ref[f] = r
      <4>1. PICK f \in DOMAIN pushTree : Push!R!Ref(pushTree[f]) = r
        BY <2>1, RefsAre
      <4>2. f \in F
        BY <2>6, <4>1
      <4> QED
        BY <4>1, <4>2
    <3>3. ASSUME NEW f \in F, NEW g \in F, ref[f] = ref[g] PROVE f = g
      <4>1. <<pushTree[f].kind, pushTree[f].uid>> = <<pushTree[g].kind, pushTree[g].uid>>
        BY <3>3 DEF Push!R!Ref
      <4> QED
        BY <2>1, <4>1, PushableSays
    <3>4. ref \in [F -> S]
      BY <3>1
    <3>5. IsFiniteSet(F)
      <4>1. IsFiniteSet(DOMAIN pushTree) /\ F \in SUBSET DOMAIN pushTree
        BY <2>5, FS_Interval
      <4> HIDE DEF F
      <4> QED
        BY <4>1, FS_Subset
    <3> HIDE DEF ref, F, S
    <3>6. ref \in Bijection(F, S)
      BY <3>2, <3>3, <3>4 DEF Bijection, Injection, Surjection, IsInjective
    <3> QED
      BY <3>5, <3>6, FS_Bijection DEF ExistsBijection
  <2>8. ASSUME NEW f \in F
        PROVE  author[<<pushTree[f].kind, pushTree[f].uid>>] = Push!R!Ref(pushTree[f])
    <3>1. PICK r : r = Push!R!Ref(pushTree[f])
      OBVIOUS
    <3>2. r \in DOMAIN read /\ Push!P!Key(r) = <<pushTree[f].kind, pushTree[f].uid>> /\ IsSent(r)
      BY <2>6, <3>1
    <3>3. author[Push!P!Key(r)] = r
      BY <2>1, <2>2, <3>2 DEF OnItsWay
    <3> QED
      BY <3>1, <3>2, <3>3
  <2>9. ASSUME NEW k \in DOMAIN author, author[k] # Push!P!Others
        PROVE  \E f \in F : k = <<pushTree[f].kind, pushTree[f].uid>>
    <3>1. PICK r \in DOMAIN read : Push!P!Key(r) = k /\ at[r] = "pushed"
      BY <2>9 DEF CleanInv, WrittenBy
    <3>2. IsSent(r)
      BY <2>2, <3>1
    <3>3. PICK f \in DOMAIN pushTree :
             Push!R!Ref(pushTree[f]) = r /\ Push!P!Key(r) = <<pushTree[f].kind, pushTree[f].uid>>
      BY <2>1, RefsAre
    <3>4. f \in F
      BY <2>6, <3>2, <3>3
    <3> QED
      BY <3>1, <3>3, <3>4
  <2>10. Cardinality({}) = 0
    BY FS_EmptySet
  <2> QED
    BY <2>1, <2>3, <2>4, <2>7, <2>8, <2>9, <2>10
<1>2. CommandsSpec => []Push!EveryResourceAccounted
    BY SummaryIsTrue
<1>3. Push!EveryResourceAccounted /\ Push!CleanPushSucceeds => PushReportIsTrue
    BY DEF PushReportIsTrue
<1> QED
    BY <1>1, <1>2, <1>3, PushInvariant, TypesInvariant, CleanInvariant, PTL

-----------------------------------------------------------------------------
(* What a command that says nothing of a failure has done                   *)

(* An object that is as it was when the command began.                      *)
Alive(o) == o \in DOMAIN remote /\ Exists(o) /\ Untouched(o)

Covers(f, o) == f.group = o[1] /\ f.kind = o[2] /\ (f.uids = {} \/ o[3] \in f.uids)

Provided(g, version, kind) == \E r \in Usable(disc) :
    r.group = g /\ r.version = version /\ r.kind = kind

(* The server keeps objects by group, kind and name, in versions that       *)
(* discovery lists if the group is served in them.                          *)
StoredInv ==
    /\ DOMAIN remote \subseteq STRING \X STRING \X STRING
    /\ \A o \in DOMAIN remote, r \in Usable(disc) :
          /\ r.group = o[1] /\ r.kind = o[2] /\ remote[o].stored # ""
          /\ Served(o[1], remote[o].stored)
          => Provided(o[1], remote[o].stored, o[2])

(* A goroutine that has begun, and has not failed, still asks for an object *)
(* its filter covers, or has it as the server does.                         *)
Has(e, o) == \E i \in e.items :
    Object(i) = o /\ i.rev = remote[o].rev /\ i.manager = remote[o].manager
Gathers(f, e) ==
    /\ e.state = "done" => e.todo = {} /\ e.again = {}
    /\ e.state \in {"get", "done"} => \A o \in DOMAIN remote : Alive(o) /\ Covers(f, o) =>
          (\E t \in e.todo \cup e.again : t.name = o[3]) \/ Has(e, o)
    /\ \A i \in e.items :
          /\ Alive(Object(i)) =>
                i.rev = remote[Object(i)].rev /\ i.manager = remote[Object(i)].manager
          /\ Provided(i.group, i.version, i.kind)
    /\ \A t \in e.todo \cup e.again :
          Served(f.group, t.version) => Provided(f.group, t.version, f.kind)
    /\ Provided(f.group, f.version, f.kind)

GatherInv ==
    /\ failed \in Nat
    /\ pc = "parse" => failed = 0 /\ ~aborted
    /\ pc = "fetch" =>
          /\ DOMAIN fetch = DOMAIN filters /\ DOMAIN filters = 1..Len(filters)
          /\ Len(filters) \in Nat
          /\ \A k \in DOMAIN fetch : Gathers(filters[k], fetch[k])
          /\ \/ aborted \/ failed > 0
             \/ \A k \in DOMAIN fetch : fetch[k].state # "failed"

(* From the collection on, nothing that was asked for is forgotten: it is   *)
(* still to do, or where it was to go, or a failure was counted.            *)
Batched == /\ command.name \in {"pull", "get", "delete"} /\ ~command.path
           /\ pc \in {"write", "print", "delete"} \/ exit = "0"
AllFetched == IF command.name = "delete" THEN \A k \in DOMAIN fetch : fetch[k].state = "done"
              ELSE failed = 0
Asked(o) ==
    /\ Alive(o) /\ Wanted(o)
    /\ command.name = "pull" => command.includeManaged \/ remote[o].manager # "other"
Placed(p) ==
    \/ \E i \in lost : Path(i) = p
    \/ /\ p \in DOMAIN files
       /\ files[p] \in collection \/ (writing # Nobody /\ Path(writing) = p)

BatchInv ==
    Batched =>
        /\ AllFetched => \A o \in DOMAIN remote : Asked(o) => \E i \in collection : Object(i) = o
        /\ \A i \in collection : Alive(Object(i)) => i.rev = remote[Object(i)].rev
        /\ command.name = "pull" =>
              /\ \A i \in collection \ todo : Placed(Path(i))
              /\ writing # Nobody => writing \in collection /\ Path(writing) \in DOMAIN files
        /\ command.name = "delete" => \A i \in collection :
              /\ Provided(i.group, i.version, i.kind)
              /\ Alive(Object(i)) =>
                    i \in todo \cup inflight \/ failed > 0 \/ aborted \/ command.dryRun
        /\ exit = "0" => /\ todo = {} /\ writing = Nobody /\ inflight = {} /\ ~aborted
                         /\ FailOnErrors => failed = 0

CompleteIInv == StoredInv /\ GatherInv /\ BatchInv

-----------------------------------------------------------------------------
(* The server meanwhile. An object that is as it was still is what it was.  *)
WorldMoves ==
    /\ UNCHANGED input /\ DOMAIN remote' = DOMAIN remote
    /\ \A o \in DOMAIN remote :
          /\ Alive(o)' => Alive(o) /\ remote'[o] = remote[o]
          /\ remote'[o].stored \in {"", remote[o].stored}

LEMMA WorldKeeps ==
    ASSUME UNCHANGED <<input, remote, touched>>
    PROVE  WorldMoves
    BY DEF WorldMoves, Alive, Exists, Untouched

LEMMA WorldLoses ==
    ASSUME NEW o, remote' = [remote EXCEPT ![o] = Absent], UNCHANGED <<input, touched>>
    PROVE  WorldMoves
<1>1. DOMAIN remote' = DOMAIN remote
    OBVIOUS
<1>2. ASSUME NEW p \in DOMAIN remote
      PROVE  /\ Alive(p)' => Alive(p) /\ remote'[p] = remote[p]
             /\ remote'[p].stored \in {"", remote[p].stored}
  <2>1. CASE p = o
    <3>1. remote'[p] = Absent
      BY <2>1
    <3> QED
      BY <3>1 DEF Alive, Exists, Absent
  <2>2. CASE p # o
    <3>1. remote'[p] = remote[p]
      BY <2>2
    <3> QED
      BY <3>1, <1>1 DEF Alive, Exists, Untouched
  <2> QED
    BY <2>1, <2>2
<1> QED
    BY <1>1, <1>2 DEF WorldMoves

LEMMA WorldEdited ==
    ASSUME OthersEdit
    PROVE  WorldMoves
<1>1. PICK o \in DOMAIN remote :
         /\ touched' = touched \cup {o}
         /\ remote' = [remote EXCEPT ![o] =
              IF Exists(o) THEN Absent ELSE [rev |-> 2, stored |-> "", manager |-> "grafanapi"]]
    BY DEF OthersEdit
<1>2. UNCHANGED input /\ DOMAIN remote' = DOMAIN remote
    BY <1>1 DEF OthersEdit
<1>3. ASSUME NEW p \in DOMAIN remote
      PROVE  /\ Alive(p)' => Alive(p) /\ remote'[p] = remote[p]
             /\ remote'[p].stored \in {"", remote[p].stored}
  <2>1. CASE p = o
    BY <1>1, <2>1 DEF Alive, Untouched, Absent
  <2>2. CASE p # o
    <3>1. remote'[p] = remote[p]
      BY <1>1, <2>2
    <3> QED
      BY <1>1, <1>2, <3>1 DEF Alive, Exists, Untouched
  <2> QED
    BY <2>1, <2>2
<1> QED
    BY <1>2, <1>3 DEF WorldMoves

LEMMA WorldGoesOn ==
    ASSUME [CommandsNext]_commandVars
    PROVE  WorldMoves
<1> USE DEF history
<1>1. CASE Deleted \/ DeleteFails
  <2>1. PICK i : RemoveObject(i) \/ UNCHANGED remote
    BY <1>1 DEF Deleted, DeleteFails
  <2>2. UNCHANGED <<input, touched>>
    BY <1>1 DEF Deleted, DeleteFails
  <2> QED
    BY <2>1, <2>2, WorldKeeps, WorldLoses DEF RemoveObject
<1>2. CASE Command /\ ~Deleted /\ ~DeleteFails
  <2>1. UNCHANGED <<input, remote, touched>>
    BY <1>2 DEF Command, Step, Refuse, DiscoveryFails, Discover, List, Get, NextRound,
       FetchFails, FetchAborted, Collect, Unwritable, Open, Encode, Report, Read, Send
  <2> QED
    BY <2>1, WorldKeeps
<1>3. CASE World
  <2>1. Killed => UNCHANGED <<input, remote, touched>>
    BY DEF Killed
  <2> QED
    BY <1>3, <2>1, WorldKeeps, WorldEdited DEF World
<1>4. CASE PushFollows \/ EditorFails \/ EditCancelled \/ EditSaved \/ PushEnds
  <2>1. UNCHANGED <<input, remote, touched>>
    BY <1>4 DEF PushFollows, EditorFails, EditCancelled, EditSaved, PushEnds
  <2> QED
    BY <2>1, WorldKeeps
<1>5. CASE ReadTree \/ ReadError \/ PushStep \/ Others \/ UNCHANGED commandVars
  <2>1. UNCHANGED <<input, remote, touched>>
    BY <1>5 DEF ReadTree, ReadError, PushStep, Others, commandVars, vars
  <2> QED
    BY <2>1, WorldKeeps
<1> QED
    BY <1>1, <1>2, <1>3, <1>4, <1>5 DEF CommandsNext

LEMMA StoredStays ==
    ASSUME StoredInv, WorldMoves
    PROVE  StoredInv'
<1>1. disc' = disc /\ DOMAIN remote' = DOMAIN remote
    BY DEF WorldMoves, input
<1>2. \A o \in DOMAIN remote : remote'[o].stored \in {"", remote[o].stored}
    BY DEF WorldMoves
<1> QED
    BY <1>1, <1>2 DEF StoredInv, Served, Provided

LEMMA GathersStay ==
    ASSUME NEW f, NEW e, Gathers(f, e), WorldMoves
    PROVE  Gathers(f, e)'
<1>1. disc' = disc /\ DOMAIN remote' = DOMAIN remote
    BY DEF WorldMoves, input
<1>2. \A o \in DOMAIN remote : Alive(o)' => Alive(o) /\ remote'[o] = remote[o]
    BY DEF WorldMoves
<1>3. \A o : Alive(o)' => o \in DOMAIN remote
    BY <1>1 DEF Alive
<1>4. \A o \in DOMAIN remote : Alive(o)' /\ Has(e, o) => Has(e, o)'
    BY <1>2 DEF Has
<1>5. (e.state \in {"get", "done"})' => \A o \in DOMAIN remote' : Alive(o)' /\ Covers(f, o) =>
          (\E t \in e.todo \cup e.again : t.name = o[3]) \/ Has(e, o)'
    BY <1>1, <1>2, <1>4 DEF Gathers
<1>6. \A i \in e.items :
          /\ Alive(Object(i))' =>
                i.rev = remote'[Object(i)].rev /\ i.manager = remote'[Object(i)].manager
          /\ Provided(i.group, i.version, i.kind)'
    BY <1>1, <1>2, <1>3 DEF Gathers, Provided
<1>7. \A t \in e.todo \cup e.again :
          Served(f.group, t.version)' => Provided(f.group, t.version, f.kind)'
    BY <1>1 DEF Gathers, Served, Provided
<1>8. Provided(f.group, f.version, f.kind)'
    BY <1>1 DEF Gathers, Provided
<1>9. (e.state = "done" => e.todo = {} /\ e.again = {})'
    BY DEF Gathers
<1> QED
    BY <1>5, <1>6, <1>7, <1>8, <1>9 DEF Gathers, Covers

(* The state of goroutine k is e, of the filter f, in the next state.       *)
LEMMA GathersNext ==
    ASSUME NEW k, NEW f, NEW e, Gathers(f, e)', f = filters'[k], e = fetch'[k]
    PROVE  Gathers(filters[k], fetch[k])'
    BY DEF Gathers, Covers, Has, Provided, Served

LEMMA GatherSame ==
    ASSUME GatherInv, WorldMoves, failed' \in Nat,
           pc' = "fetch" => pc = "fetch" /\ UNCHANGED <<filters, fetch, failed, aborted>>,
           pc' = "parse" => pc = "parse" /\ UNCHANGED <<failed, aborted>>
    PROVE  GatherInv'
<1>1. ASSUME pc' = "fetch", NEW k \in DOMAIN fetch PROVE Gathers(filters[k], fetch[k])'
  <2>1. PICK f : f = filters[k]
    OBVIOUS
  <2>2. PICK e : e = fetch[k]
    OBVIOUS
  <2>3. Gathers(f, e)
    BY <1>1, <2>1, <2>2 DEF GatherInv
  <2>4. Gathers(f, e)'
    BY <2>3, GathersStay
  <2> QED
    BY <1>1, <2>1, <2>2, <2>4, GathersNext
<1> QED
    BY <1>1 DEF GatherInv

LEMMA GatherOne ==
    ASSUME GatherInv, WorldMoves, pc = "fetch", pc' = "fetch", NEW i \in DOMAIN fetch, NEW e,
           Gathers(filters[i], e), fetch' = [fetch EXCEPT ![i] = e], filters' = filters,
           failed' \in Nat,
           \/ aborted' \/ failed' > 0
           \/ e.state # "failed" /\ UNCHANGED <<aborted, failed>>
    PROVE  GatherInv'
<1>0. DOMAIN fetch' = DOMAIN fetch /\ \A k \in DOMAIN fetch : fetch'[k] = IF k = i THEN e ELSE fetch[k]
    OBVIOUS
<1>1. ASSUME NEW k \in DOMAIN fetch PROVE Gathers(filters[k], fetch[k])'
  <2>1. PICK f : f = filters[k]
    OBVIOUS
  <2>2. PICK g : g = fetch'[k]
    OBVIOUS
  <2>3. Gathers(f, g)
    BY <1>0, <2>1, <2>2 DEF GatherInv
  <2>4. Gathers(f, g)'
    BY <2>3, GathersStay
  <2> QED
    BY <2>1, <2>2, <2>4, GathersNext
<1>2. \/ aborted' \/ failed' > 0 \/ \A k \in DOMAIN fetch' : fetch'[k].state # "failed"
    BY <1>0 DEF GatherInv
<1> QED
    BY <1>0, <1>1, <1>2 DEF GatherInv

(* A goroutine's record when some of its fields are set.                     *)
LEMMA SetOne ==
    ASSUME NEW a, NEW b, NEW c, NEW d, NEW s, NEW y, NEW r,
           r = [todo |-> a, again |-> b, items |-> c, round |-> d, state |-> s]
    PROVE  /\ [r EXCEPT !.todo = y] =
                 [todo |-> y, again |-> b, items |-> c, round |-> d, state |-> s]
           /\ [r EXCEPT !.again = y] =
                 [todo |-> a, again |-> y, items |-> c, round |-> d, state |-> s]
           /\ [r EXCEPT !.items = y] =
                 [todo |-> a, again |-> b, items |-> y, round |-> d, state |-> s]
    OBVIOUS
LEMMA SetThree ==
    ASSUME NEW a, NEW b, NEW c, NEW d, NEW s, NEW r,
           r = [todo |-> a, again |-> b, items |-> c, round |-> d, state |-> s],
           NEW x, NEW y, NEW z
    PROVE  [r EXCEPT !.todo = x, !.again = y, !.items = z] =
           [todo |-> x, again |-> y, items |-> z, round |-> d, state |-> s]
<1>1. PICK q : q = [r EXCEPT !.todo = x]
    OBVIOUS
<1>2. q = [todo |-> x, again |-> b, items |-> c, round |-> d, state |-> s]
    BY <1>1, SetOne
<1>3. PICK p : p = [q EXCEPT !.again = y]
    OBVIOUS
<1>4. p = [todo |-> x, again |-> y, items |-> c, round |-> d, state |-> s]
    BY <1>2, <1>3, SetOne
<1>5. PICK o : o = [p EXCEPT !.items = z]
    OBVIOUS
<1>6. o = [todo |-> x, again |-> y, items |-> z, round |-> d, state |-> s]
    BY <1>4, <1>5, SetOne
<1> QED
    BY <1>1, <1>3, <1>5, <1>6
(* What a goroutine's next step knows of the objects of its filter.         *)
LEMMA GatherFetches ==
    ASSUME StoredInv, GatherInv, PullDeleteIInv, WorldMoves, NEW i \in DOMAIN fetch,
           List(i) \/ Get(i) \/ NextRound(i) \/ FetchFails(i)
    PROVE  GatherInv'
<1> USE DEF bounds, history, batch
<1>0. pc = "fetch" /\ pc' = "fetch" /\ filters' = filters
    BY DEF List, Get, NextRound, FetchFails
<1>1. Gathers(filters[i], fetch[i]) /\ failed \in Nat
    BY <1>0 DEF GatherInv
<1>2. PICK f : f = filters[i]
    OBVIOUS
<1>3. fetch[i] = [todo |-> fetch[i].todo, again |-> fetch[i].again, items |-> fetch[i].items,
                  round |-> fetch[i].round, state |-> fetch[i].state]
    BY DEF PullDeleteIInv, FetchInv
<1>4. ASSUME NEW o \in DOMAIN remote PROVE o = <<o[1], o[2], o[3]>>
  <2>1. o \in STRING \X STRING \X STRING
    BY DEF StoredInv
  <2> QED
    BY <2>1
<1>5. ASSUME NEW o \in DOMAIN remote, NEW v
      PROVE  Object(Item(o, v)) = o /\ Item(o, v).rev = remote[o].rev
             /\ Item(o, v).manager = remote[o].manager
             /\ Item(o, v).group = o[1] /\ Item(o, v).kind = o[2] /\ Item(o, v).version = v
    BY <1>4 DEF Item, Object
<1>10. CASE List(i)
  <2> DEFINE e == [todo |-> {}, round |-> 1, state |-> "get",
                   items |-> {Item(o, filters[i].version) : o \in
                                {p \in Listed(filters[i]) : remote[p].stored = ""}},
                   again |-> {[name |-> o[3], version |-> remote[o].stored] : o \in
                                {p \in Listed(filters[i]) : remote[p].stored # ""}}]
  <2>1. fetch' = [fetch EXCEPT ![i] = e] /\ UNCHANGED <<aborted, failed>>
    BY <1>10 DEF List
  <2>2. ASSUME NEW o \in DOMAIN remote, Alive(o), Covers(f, o)
        PROVE  (\E t \in e.todo \cup e.again : t.name = o[3]) \/ Has(e, o)
    <3>1. o \in Listed(filters[i])
      BY <1>2, <2>2 DEF Alive, Covers, Listed
    <3>2. CASE remote[o].stored = ""
      <4>1. Item(o, filters[i].version) \in e.items
        BY <3>1, <3>2
      <4> QED
        BY <1>5, <4>1 DEF Has
    <3>3. CASE remote[o].stored # ""
      <4>1. PICK t : t = [name |-> o[3], version |-> remote[o].stored]
        OBVIOUS
      <4>2. t \in e.again /\ t.name = o[3]
        BY <3>1, <3>3, <4>1
      <4> QED
        BY <4>2
    <3> QED
      BY <3>2, <3>3
  <2>3. ASSUME NEW j \in e.items
        PROVE  /\ Alive(Object(j)) =>
                     j.rev = remote[Object(j)].rev /\ j.manager = remote[Object(j)].manager
               /\ Provided(j.group, j.version, j.kind)
    <3>1. PICK o \in Listed(filters[i]) : j = Item(o, filters[i].version)
      OBVIOUS
    <3>2. o \in DOMAIN remote /\ o[1] = filters[i].group /\ o[2] = filters[i].kind
      BY DEF Listed
    <3>3. Provided(filters[i].group, filters[i].version, filters[i].kind)
      BY <1>1 DEF Gathers
    <3>4. /\ Object(j) = o /\ j.rev = remote[o].rev /\ j.manager = remote[o].manager
          /\ j.group = o[1] /\ j.kind = o[2] /\ j.version = filters[i].version
      BY <1>5, <3>1, <3>2
    <3> HIDE DEF e
    <3> QED
      BY <3>2, <3>3, <3>4
  <2>4. ASSUME NEW t \in e.todo \cup e.again, Served(f.group, t.version)
        PROVE  Provided(f.group, t.version, f.kind)
    <3>1. PICK o \in {p \in Listed(filters[i]) : remote[p].stored # ""} :
              t = [name |-> o[3], version |-> remote[o].stored]
      OBVIOUS
    <3>2. o \in DOMAIN remote /\ o[1] = f.group /\ o[2] = f.kind /\ t.version = remote[o].stored
      BY <1>2, <3>1 DEF Listed
    <3>3. PICK r \in Usable(disc) : r.group = f.group /\ r.kind = f.kind
      BY <1>1, <1>2 DEF Gathers, Provided
    <3> QED
      BY <2>4, <3>1, <3>2, <3>3 DEF StoredInv
  <2>5. e.state = "get"
    OBVIOUS
  <2>6. Provided(f.group, f.version, f.kind)
    BY <1>1, <1>2 DEF Gathers
  <2> HIDE DEF e
  <2>7. Gathers(f, e)
    BY <2>2, <2>3, <2>4, <2>5, <2>6 DEF Gathers
  <2> QED
    BY <1>0, <1>1, <1>2, <2>1, <2>5, <2>7, GatherOne
<1>20. CASE Get(i)
  <2>1. PICK t \in fetch[i].todo :
           LET o == Target(i, t)
               enough == fetch[i].round = 2 \/ remote[o].stored = ""
           IN
           /\ Answers(i, t)
           /\ fetch' = [fetch EXCEPT ![i] = [fetch[i] EXCEPT
                !.todo = @ \ {t},
                !.again = IF enough THEN @
                          ELSE @ \cup {[name |-> t.name, version |-> remote[o].stored]},
                !.items = IF enough THEN @ \cup {Item(o, t.version)} ELSE @]]
    BY <1>20 DEF Get
  <2> DEFINE old == fetch[i]
             o == Target(i, t)
             enough == old.round = 2 \/ remote[o].stored = ""
             again == IF enough THEN old.again
                      ELSE old.again \cup {[name |-> t.name, version |-> remote[o].stored]}
             items == IF enough THEN old.items \cup {Item(o, t.version)} ELSE old.items
             e == [todo |-> old.todo \ {t}, again |-> again, items |-> items,
                   round |-> old.round, state |-> "get"]
  <2>2. old.state = "get" /\ UNCHANGED <<aborted, failed>>
    BY <1>20 DEF Get
  <2>3. fetch' = [fetch EXCEPT ![i] = e]
    <3>1. fetch' = [fetch EXCEPT ![i] =
                     [old EXCEPT !.todo = @ \ {t}, !.again = again, !.items = items]]
      BY <2>1
    <3>2. [old EXCEPT !.todo = @ \ {t}, !.again = again, !.items = items] = e
      <4>1. old = [todo |-> old.todo, again |-> old.again, items |-> old.items,
                   round |-> old.round, state |-> "get"]
        BY <1>3, <2>2
      <4>2. PICK old0, todo0, again0, items0, round0 :
              /\ old0 = old /\ todo0 = old.todo /\ round0 = old.round
              /\ old = [todo |-> todo0, again |-> again0, items |-> items0,
                        round |-> round0, state |-> "get"]
        BY <4>1
      <4>3. PICK x, y, z : x = todo0 \ {t} /\ y = again /\ z = items
        OBVIOUS
      <4>4. [old0 EXCEPT !.todo = x, !.again = y, !.items = z] =
              [todo |-> x, again |-> y, items |-> z, round |-> round0, state |-> "get"]
        <5>1. old0 = [todo |-> todo0, again |-> again0, items |-> items0,
                      round |-> round0, state |-> "get"]
          BY <4>2
        <5>2. PICK w : w = [old0 EXCEPT !.todo = x, !.again = y, !.items = z]
          OBVIOUS
        <5>3. w = [todo |-> x, again |-> y, items |-> z, round |-> round0, state |-> "get"]
          BY <5>1, <5>2, SetThree
        <5> QED
          BY <5>2, <5>3
      <4> HIDE DEF old, again, items
      <4> QED
        BY <4>2, <4>3, <4>4
    <3> QED
      BY <3>1, <3>2
  <2>4. o \in DOMAIN remote /\ Exists(o) /\ Served(f.group, t.version)
    BY <1>2, <2>1 DEF Answers
  <2>5. o[1] = f.group /\ o[2] = f.kind /\ o[3] = t.name
    BY <1>2 DEF Target
  <2>6. ASSUME NEW p \in DOMAIN remote, Alive(p), Covers(f, p)
        PROVE  (\E s \in e.todo \cup e.again : s.name = p[3]) \/ Has(e, p)
    <3>1. (\E s \in old.todo \cup old.again : s.name = p[3]) \/ Has(old, p)
      BY <1>1, <1>2, <2>2, <2>6 DEF Gathers
    <3>2. CASE Has(old, p)
      BY <3>2 DEF Has
    <3>3. CASE \E s \in (old.todo \ {t}) \cup old.again : s.name = p[3]
      BY <3>3
    <3>4. CASE t.name = p[3]
      <4>1. p = o
        <5>1. p[1] = o[1] /\ p[2] = o[2] /\ p[3] = o[3]
          BY <2>5, <2>6, <3>4 DEF Covers
        <5> HIDE DEF o
        <5> QED
          BY <1>4, <2>4, <5>1
      <4>2. CASE enough
        <5>1. Item(o, t.version) \in e.items
          BY <4>2
        <5> HIDE DEF o, e
        <5> QED
          BY <1>5, <2>4, <4>1, <5>1 DEF Has
      <4>3. CASE ~enough
        <5>1. PICK s : s = [name |-> t.name, version |-> remote[o].stored]
          OBVIOUS
        <5>2. s \in e.again /\ s.name = p[3]
          BY <3>4, <4>3, <5>1
        <5> HIDE DEF e
        <5> QED
          BY <5>2
      <4> QED
        BY <4>2, <4>3
    <3> QED
      BY <3>1, <3>2, <3>3, <3>4
  <2>7. ASSUME NEW j \in e.items
        PROVE  /\ Alive(Object(j)) =>
                     j.rev = remote[Object(j)].rev /\ j.manager = remote[Object(j)].manager
               /\ Provided(j.group, j.version, j.kind)
    <3>1. CASE j \in old.items
      BY <1>1, <3>1 DEF Gathers
    <3>2. CASE j \notin old.items
      <4>1. j = Item(o, t.version)
        BY <2>7, <3>2
      <4>2. Provided(f.group, t.version, f.kind)
        BY <1>1, <1>2, <2>4 DEF Gathers
      <4> HIDE DEF o, e
      <4>3. /\ Object(j) = o /\ j.rev = remote[o].rev /\ j.manager = remote[o].manager
            /\ j.group = o[1] /\ j.kind = o[2] /\ j.version = t.version
        BY <1>5, <2>4, <4>1
      <4> QED
        BY <2>5, <4>2, <4>3
    <3> QED
      BY <3>1, <3>2
  <2>8. ASSUME NEW s \in e.todo \cup e.again, Served(f.group, s.version)
        PROVE  Provided(f.group, s.version, f.kind)
    <3>1. CASE s \in old.todo \cup old.again
      BY <1>1, <1>2, <2>8, <3>1 DEF Gathers
    <3>2. CASE s \notin old.todo \cup old.again
      <4>1. s = [name |-> t.name, version |-> remote[o].stored] /\ remote[o].stored # ""
        BY <2>8, <3>2
      <4>2. PICK r \in Usable(disc) : r.group = f.group /\ r.kind = f.kind
        BY <1>1, <1>2 DEF Gathers, Provided
      <4> HIDE DEF o
      <4>3. s.version = remote[o].stored
        BY <4>1
      <4> QED
        BY <2>4, <2>5, <2>8, <4>1, <4>2, <4>3 DEF StoredInv
    <3> QED
      BY <3>1, <3>2
  <2>9. e.state = "get"
    OBVIOUS
  <2>10. Provided(f.group, f.version, f.kind)
    BY <1>1, <1>2 DEF Gathers
  <2> HIDE DEF e
  <2>11. Gathers(f, e)
    BY <2>6, <2>7, <2>8, <2>9, <2>10 DEF Gathers
  <2> QED
    BY <1>0, <1>1, <1>2, <2>2, <2>3, <2>9, <2>11, GatherOne
<1>30. CASE NextRound(i)
  <2> DEFINE old == fetch[i]
             e == IF old.again = {} THEN [old EXCEPT !.state = "done"]
                  ELSE [old EXCEPT !.todo = old.again, !.again = {}, !.round = 2]
  <2>1. /\ fetch' = [fetch EXCEPT ![i] = e] /\ UNCHANGED <<aborted, failed>>
        /\ old.state = "get" /\ old.todo = {}
    BY <1>30 DEF NextRound
  <2>2. /\ e.items = old.items /\ e.todo \cup e.again = old.todo \cup old.again
        /\ e.state \in {"get", "done"} /\ (e.state = "done" => e.todo = {} /\ e.again = {})
    <3>1. CASE old.again = {}
      <4>1. e = [todo |-> old.todo, again |-> old.again, items |-> old.items,
                 round |-> old.round, state |-> "done"]
        BY <1>3, <3>1
      <4> QED
        BY <2>1, <3>1, <4>1
    <3>2. CASE old.again # {}
      <4>1. e = [todo |-> old.again, again |-> {}, items |-> old.items,
                 round |-> 2, state |-> "get"]
        BY <1>3, <2>1, <3>2
      <4> QED
        BY <2>1, <3>2, <4>1
    <3> QED
      BY <3>1, <3>2
  <2> HIDE DEF e
  <2>3. Gathers(f, e)
    BY <1>1, <1>2, <2>1, <2>2 DEF Gathers, Has
  <2> QED
    BY <1>0, <1>1, <1>2, <2>1, <2>2, <2>3, GatherOne
<1>40. CASE FetchFails(i)
  <2> DEFINE old == fetch[i]
             e == [old EXCEPT !.state = "failed"]
  <2>1. /\ fetch' = [fetch EXCEPT ![i] = e]
        /\ aborted' \/ failed' = failed + 1
        /\ failed' \in Nat
    <3>1. fetch' = [fetch EXCEPT ![i] = e] /\ FetchError
      BY <1>40 DEF FetchFails
    <3> QED
      BY <1>1, <3>1 DEF FetchError
  <2>2. /\ e.items = old.items /\ e.todo = old.todo /\ e.again = old.again /\ e.state = "failed"
    BY <1>3
  <2> HIDE DEF e
  <2>3. Gathers(f, e)
    BY <1>1, <1>2, <2>2 DEF Gathers
  <2>4. aborted' \/ failed' > 0
    BY <1>1, <2>1
  <2> QED
    BY <1>0, <1>2, <2>1, <2>3, <2>4, GatherOne
<1> QED
    BY <1>10, <1>20, <1>30, <1>40

(* What a command fetches, discovery provides.                              *)
LEMMA FiltersAreProvided ==
    ASSUME IsCase([disc |-> disc, files |-> tree, command |-> command]),
           NEW fs, fs = PullFilters
    PROVE  /\ DOMAIN fs = 1..Len(fs) /\ Len(fs) \in Nat
           /\ \A k \in DOMAIN fs : Provided(fs[k].group, fs[k].version, fs[k].kind)
<1>1. /\ IsFiniteSet(DOMAIN Index.resources)
      /\ ToSet(Index.resources) \subseteq Usable(disc)
    BY IndexIs DEF Index, FilterDiscoveryResults, Restrict, ToSet, Usable
<1>2. \A r \in Usable(disc) : \A u : LET f == Filter(r, u) IN Provided(f.group, f.version, f.kind)
    BY DEF Provided, Filter
<1>3. CASE command.args # <<>>
  <2>1. PICK d : d = Index
    OBVIOUS
  <2>2. PICK sels : sels = command.args
    OBVIOUS
  <2>3. PICK preferred \in BOOLEAN : preferred = TRUE
    OBVIOUS
  <2>4. /\ DOMAIN fs = 1..Len(fs) /\ Len(fs) \in Nat
        /\ \A f \in ToSet(fs) : \E i \in DOMAIN sels :
              \E r \in LookupFor(d, sels[i], preferred) : f = Filter(r, sels[i].uids)
    <3>1. IsFiniteSet(DOMAIN d.resources) /\ sels \in Seq(Selectors)
      BY <1>1, <2>1, <2>2 DEF IsCase
    <3>2. fs = MakeFilters(d, sels, preferred)
      BY <1>3, <2>1, <2>2, <2>3 DEF PullFilters
    <3> QED
      BY <3>1, <3>2, FiltersAre
  <2>5. ASSUME NEW k \in DOMAIN fs PROVE Provided(fs[k].group, fs[k].version, fs[k].kind)
    <3>1. PICK i \in DOMAIN sels : \E r \in LookupFor(d, sels[i], preferred) :
              fs[k] = Filter(r, sels[i].uids)
      BY <2>4 DEF ToSet
    <3>2. PICK r \in LookupFor(d, sels[i], preferred) : fs[k] = Filter(r, sels[i].uids)
      BY <3>1
    <3>3. PICK q : q = sels[i]
      OBVIOUS
    <3>4. Found(d, q, r)
      BY <3>2, <3>3, LookupFinds
    <3>5. r \in Usable(disc)
      BY <1>1, <2>1, <3>4 DEF Found
    <3> QED
      BY <1>2, <3>2, <3>5
  <2> QED
    BY <2>4, <2>5
<1>4. CASE command.args = <<>>
  <2> DEFINE S == {Filter(r, {}) : r \in PreferredResources(Index)}
  <2>1. fs = SetToSeq(S)
    BY <1>4 DEF PullFilters
  <2>2. PreferredResources(Index) \subseteq ToSet(Index.resources)
    BY DEF PreferredResources
  <2>3. IsFiniteSet(PreferredResources(Index))
    <3>1. PICK f : f = Index.resources
      OBVIOUS
    <3>2. IsFiniteSet(ToSet(f))
      BY <1>1, <3>1, MembersFinite
    <3>3. PICK P : P = PreferredResources(Index)
      OBVIOUS
    <3>4. IsFiniteSet(P)
      BY <2>2, <3>1, <3>2, <3>3, FS_Subset
    <3> QED
      BY <3>3, <3>4
  <2>4. IsFiniteSet(S)
    <3>1. PICK P : P = PreferredResources(Index)
      OBVIOUS
    <3> DEFINE g == [r \in P |-> Filter(r, {})]
               T == {Filter(r, {}) : r \in P}
    <3>2. g \in Surjection(P, T)
      BY DEF Surjection
    <3>3. IsFiniteSet(P)
      BY <2>3, <3>1
    <3> HIDE DEF g, T
    <3>4. IsFiniteSet(T)
      BY <3>2, <3>3, FS_Surjection
    <3> QED
      BY <3>1, <3>4 DEF T
  <2>5. fs \in Seq(S) /\ ToSet(fs) = S
    <3>1. PICK T : T = S
      OBVIOUS
    <3>2. IsFiniteSet(T) /\ fs = SetToSeq(T)
      BY <2>1, <2>4, <3>1
    <3>3. fs \in Seq(T) /\ ToSet(fs) = T
      BY <3>2, SetToSeqIs
    <3> QED
      BY <3>1, <3>3
  <2>6. DOMAIN fs = 1..Len(fs) /\ Len(fs) \in Nat
    <3> HIDE DEF S
    <3> QED
      BY <2>5, LenProperties
  <2>7. ASSUME NEW k \in DOMAIN fs PROVE Provided(fs[k].group, fs[k].version, fs[k].kind)
    <3>1. PICK r \in PreferredResources(Index) : fs[k] = Filter(r, {})
      BY <2>5 DEF ToSet
    <3> QED
      BY <1>1, <1>2, <2>2, <3>1
  <2> QED
    BY <2>6, <2>7
<1> QED
    BY <1>3, <1>4

LEMMA GatherBegins ==
    ASSUME GatherInv, PullDeleteIInv, Discover
    PROVE  GatherInv'
<1>1. CASE command.path
    BY <1>1 DEF Discover, GatherInv
<1>2. CASE ~command.path
  <2>1. IsCase([disc |-> disc, files |-> tree, command |-> command])
    BY DEF Discover, PullDeleteIInv, CaseInv
  <2>2. /\ filters' = PullFilters /\ pc = "parse" /\ pc' = "fetch"
        /\ fetch' = [k \in DOMAIN filters' |-> Begun(filters'[k])]
        /\ UNCHANGED <<disc, failed, aborted>>
    BY <1>2 DEF Discover, input
  <2>3. PICK fs : fs = PullFilters
    OBVIOUS
  <2>4. /\ DOMAIN fs = 1..Len(fs) /\ Len(fs) \in Nat
        /\ \A k \in DOMAIN fs : Provided(fs[k].group, fs[k].version, fs[k].kind)
    BY <2>1, <2>3, FiltersAreProvided
  <2>5. ASSUME NEW k \in DOMAIN fs PROVE Gathers(filters[k], fetch[k])' /\ fetch'[k].state # "failed"
    <3>1. PICK f : f = fs[k]
      OBVIOUS
    <3>2. PICK e : e = Begun(f)
      OBVIOUS
    <3>3. f = filters'[k] /\ e = fetch'[k]
      BY <2>2, <2>3, <3>1, <3>2
    <3>4. Provided(f.group, f.version, f.kind)'
      BY <2>2, <2>4, <3>1 DEF Provided
    <3>5. /\ e.again = {} /\ e.items = {} /\ e.state \in {"list", "get"}
          /\ e.todo = {[name |-> n, version |-> f.version] : n \in f.uids}
          /\ (e.state = "get" => f.uids # {})
      BY <3>2 DEF Begun
    <3>6. ASSUME NEW o, Covers(f, o), e.state = "get"
          PROVE  \E t \in e.todo \cup e.again : t.name = o[3]
      <4>1. PICK t : t = [name |-> o[3], version |-> f.version]
        OBVIOUS
      <4>2. t \in e.todo /\ t.name = o[3]
        BY <3>5, <3>6, <4>1 DEF Covers
      <4> QED
        BY <4>2
    <3>7. \A t \in e.todo \cup e.again : t.version = f.version
      BY <3>5
    <3>8. Gathers(f, e)'
      BY <3>4, <3>5, <3>6, <3>7 DEF Gathers, Covers
    <3> QED
      BY <3>3, <3>5, <3>8, GathersNext
  <2> QED
    BY <2>2, <2>3, <2>4, <2>5 DEF GatherInv
<1> QED
    BY <1>1, <1>2

LEMMA GatherStays ==
    ASSUME StoredInv, GatherInv, PullDeleteIInv, [CommandsNext]_commandVars
    PROVE  GatherInv'
<1> USE DEF Ends, Proceed, fetching, bounds, history, batch
<1>0. WorldMoves /\ failed \in Nat
    BY WorldGoesOn DEF GatherInv
<1>1. CASE Command
  <2>1. CASE \E i \in DOMAIN fetch : List(i) \/ Get(i) \/ NextRound(i) \/ FetchFails(i)
    BY <1>0, <2>1, GatherFetches
  <2>2. CASE Discover
    BY <2>2, GatherBegins
  <2>3. CASE Collect
    <3>1. command.name \in {"pull", "delete", "get", "edit"}
      BY <2>3 DEF Collect, PullDeleteIInv, CaseInv, IsCase
    <3>2. pc' \notin {"fetch", "parse"} /\ failed' \in Nat
      BY <1>0, <2>3, <3>1 DEF Collect, Recorded
    <3> QED
      BY <1>0, <3>2, GatherSame
  <2>4. CASE Refuse \/ DiscoveryFails \/ FetchAborted \/ Unwritable \/ Open \/ Encode \/ Report
             \/ Read \/ Send \/ Deleted \/ DeleteFails
    <3>1. CASE Refuse \/ DiscoveryFails \/ FetchAborted \/ Unwritable \/ Open \/ Encode \/ Report
      BY <1>0, <3>1, GatherSame DEF Refuse, DiscoveryFails, FetchAborted, Unwritable, Open, Encode,
         WriteFails, Report
    <3>2. CASE Read \/ Send \/ Deleted \/ DeleteFails
      <4>1. failed' \in Nat /\ pc' \notin {"parse", "fetch"}
        BY <1>0, <3>2 DEF Read, Send, Deleted, DeleteFails
      <4> QED
        BY <1>0, <4>1, GatherSame
    <3> QED
      BY <2>4, <3>1, <3>2
  <2> QED
    BY <1>1, <2>1, <2>2, <2>3, <2>4 DEF Command, Step
<1>2. CASE World
  <2>1. CASE OthersEdit
    BY <1>0, <2>1, GatherSame DEF OthersEdit
  <2>2. CASE Killed
    BY <1>0, <2>2, GatherSame DEF Killed
  <2> QED
    BY <1>2, <2>1, <2>2 DEF World
<1>3. CASE PushFollows \/ EditorFails \/ EditCancelled \/ EditSaved \/ PushEnds
  <2>1. pc' \notin {"parse", "fetch"} /\ failed' = failed
    BY <1>3 DEF PushFollows, StartsWith, EditorFails, EditCancelled, EditSaved, PushEnds
  <2> QED
    BY <1>0, <2>1, GatherSame
<1>4. CASE ReadTree \/ ReadError \/ PushStep \/ Others \/ UNCHANGED commandVars
  <2>1. UNCHANGED <<pc, filters, fetch, failed, aborted>>
    BY <1>4 DEF ReadTree, ReadError, PushStep, Others, commandVars, vars
  <2> QED
    BY <1>0, <2>1, GatherSame
<1> QED
    BY <1>1, <1>2, <1>3, <1>4 DEF CommandsNext

(* What was gathered for an object is in the collection, in the place of a  *)
(* later filter's if there is one.                                          *)
LEMMA GatheredHas ==
    ASSUME GatherInv, PullDeleteIInv, pc = "fetch",
           NEW k \in DOMAIN fetch, fetch[k].state = "done",
           NEW o, Alive(o), Has(fetch[k], o)
    PROVE  \E i \in Gathered :
              Object(i) = o /\ i.rev = remote[o].rev /\ i.manager = remote[o].manager
<1>1. PICK j \in fetch[k].items :
          Object(j) = o /\ j.rev = remote[o].rev /\ j.manager = remote[o].manager
    BY DEF Has
<1> DEFINE Ks == {l \in DOMAIN fetch : fetch[l].state = "done" /\ \E i \in fetch[l].items : Ref(i) = Ref(j)}
<1>2. PICK n \in Nat : DOMAIN fetch = 1..n
    BY DEF GatherInv
<1>3. PICK l \in Ks : \A m \in Ks : m <= l
  <2>1. Ks \in SUBSET (1..n) /\ k \in Ks
    BY <1>1, <1>2
  <2>2. PICK S : S = Ks
    OBVIOUS
  <2>3. S \in SUBSET (1..n) /\ S # {}
    BY <2>1, <2>2
  <2>4. \E x \in S : \A y \in S : y <= x
    BY <2>3, GreatestIs
  <2> QED
    BY <2>2, <2>4
<1>4. PICK i \in fetch[l].items : Ref(i) = Ref(j)
    OBVIOUS
<1>5. l \in DOMAIN fetch /\ fetch[l].state = "done"
    OBVIOUS
<1>6. Object(i) = o
    BY <1>1, <1>4 DEF Ref, Object
<1>7. i.rev = remote[o].rev /\ i.manager = remote[o].manager
    BY <1>4, <1>5, <1>6 DEF GatherInv, Gathers
<1>8. ~\E m \in DOMAIN fetch : /\ m > l /\ fetch[m].state = "done"
                               /\ \E q \in fetch[m].items : Ref(q) = Ref(i)
  <2> SUFFICES ASSUME NEW m \in DOMAIN fetch, m > l, fetch[m].state = "done",
                      \E q \in fetch[m].items : Ref(q) = Ref(i)
               PROVE  FALSE
    OBVIOUS
  <2>1. m \in Ks
    BY <1>4
  <2>2. m <= l
    BY <1>3, <2>1
  <2>3. m \in 1..n /\ l \in 1..n
    BY <1>2, <1>5
  <2> HIDE DEF Ks
  <2> QED
    BY <2>2, <2>3, OneOrder
<1>9. [item |-> i, filter |-> l] \in Fetched
    BY <1>5 DEF Fetched
<1>10. i \in Gathered
  <2>1. PICK y : y = [item |-> i, filter |-> l]
    OBVIOUS
  <2>2. y.item = i /\ y.filter = l
    BY <2>1
  <2> HIDE DEF Ks
  <2> QED
    BY <1>4, <1>5, <1>8, <1>9, <2>1, <2>2 DEF Gathered
<1> QED
    BY <1>6, <1>7, <1>10

LEMMA KeptIs ==
    ASSUME NEW i \in Kept
    PROVE  i \in Gathered /\ \E k \in DOMAIN fetch : i \in fetch[k].items
    BY DEF Kept, Gathered, Fetched

LEMMA BatchBegins ==
    ASSUME StoredInv, GatherInv, PullDeleteIInv, Collect, Batched'
    PROVE  BatchInv'
<1> USE DEF fetching, history
<1>1. /\ pc = "fetch" /\ Waited /\ ~aborted /\ UNCHANGED <<input, remote, files, fetch, filters,
           aborted, writing, inflight, touched, lost>>
    BY DEF Collect
<1>2. WorldMoves
    BY <1>1, WorldKeeps
<1>3. collection = {} /\ todo = {} /\ inflight = {} /\ writing = Nobody /\ exit = "none"
    BY <1>1 DEF PullDeleteIInv, FilesInv, TypeOK
<1>4. PICK gone : /\ gone \subseteq Kept /\ collection' = {Stripped(i) : i \in Kept \ gone}
                  /\ todo' = Batch(collection') /\ exit' = exit
                  /\ \/ gone = {} /\ failed' = Recorded
                     \/ command.name = "pull" /\ failed' = failed + 1
  <2>1. CASE /\ collection' = {Stripped(i) : i \in Kept} /\ todo' = Batch(collection')
             /\ failed' = Recorded /\ UNCHANGED exit
    <3>1. Kept \ {} = Kept
      OBVIOUS
    <3> QED
      BY <2>1, <3>1
  <2>2. CASE \E i \in Kept :
            /\ command.name = "pull"
            /\ IF FetchStops THEN Ends("1") /\ UNCHANGED <<collection, todo, failed>>
               ELSE /\ collection' = {Stripped(j) : j \in Kept \ {i}} /\ todo' = collection'
                    /\ failed' = failed + 1
                    /\ Proceed /\ UNCHANGED exit
    <3>1. pc' = "done" => exit' = "0"
      BY <1>1 DEF Batched
    <3>2. PICK i \in Kept : /\ command.name = "pull"
            /\ collection' = {Stripped(j) : j \in Kept \ {i}} /\ todo' = collection'
            /\ failed' = failed + 1 /\ exit' = exit
      BY <2>2, <3>1 DEF Ends
    <3>3. {i} \subseteq Kept /\ Batch(collection') = collection'
      BY <3>2 DEF Batch
    <3> QED
      BY <3>2, <3>3
  <2> QED
    BY <2>1, <2>2 DEF Collect
<1>5. \A i \in Kept : Object(Stripped(i)) = Object(i) /\ Stripped(i).rev = i.rev
        /\ Stripped(i).group = i.group /\ Stripped(i).version = i.version
        /\ Stripped(i).kind = i.kind
    BY DEF Stripped, Object
<1>6. ASSUME NEW i \in collection'
      PROVE  /\ Alive(Object(i))' => i.rev = remote'[Object(i)].rev
             /\ Provided(i.group, i.version, i.kind)'
  <2>1. PICK j \in Kept : i = Stripped(j)
    BY <1>4
  <2>2. PICK k \in DOMAIN fetch : j \in fetch[k].items
    BY KeptIs
  <2>3. /\ Alive(Object(j)) => j.rev = remote[Object(j)].rev
        /\ Provided(j.group, j.version, j.kind)
    BY <1>1, <2>2 DEF GatherInv, Gathers
  <2>4. Object(i) = Object(j) /\ i.rev = j.rev /\ i.group = j.group /\ i.version = j.version
        /\ i.kind = j.kind
    BY <1>5, <2>1
  <2>5. Alive(Object(i))' => Alive(Object(j)) /\ remote'[Object(i)] = remote[Object(j)]
    BY <1>1, <2>4 DEF Alive, Exists, Untouched
  <2>6. Provided(i.group, i.version, i.kind)' 
    BY <1>1, <2>3, <2>4 DEF Provided, input
  <2> QED
    BY <2>3, <2>4, <2>5, <2>6
<1>7. ASSUME AllFetched', NEW o \in DOMAIN remote', Asked(o)'
      PROVE  \E i \in collection' : Object(i) = o
  <2>1. Asked(o) /\ Alive(o)
    BY <1>1, <1>7 DEF Asked, Alive, Exists, Untouched, Wanted, input
  <2>2. \A k \in DOMAIN fetch : fetch[k].state = "done"
    <3>1. CASE command.name = "delete"
      BY <1>1, <1>7, <3>1 DEF AllFetched, input
    <3>2. CASE command.name # "delete"
      <4>1. failed' = 0
        BY <1>1, <1>7, <3>2 DEF AllFetched, input
      <4>2. failed = 0
        BY <1>4, <3>2, <4>1 DEF Recorded, GatherInv
      <4> QED
        BY <1>1, <4>2 DEF GatherInv, Waited
    <3> QED
      BY <3>1, <3>2
  <2>3. gone = {}
    <3>1. CASE failed' = failed + 1 /\ command.name = "pull"
      <4>1. failed' = 0
        BY <1>1, <1>7, <3>1 DEF AllFetched, input
      <4> QED
        BY <3>1, <4>1 DEF GatherInv
    <3> QED
      BY <1>4, <3>1
  <2>4. PICK f \in ToSet(filters) : Covers(f, o)
    BY <2>1 DEF Asked, Wanted, Covers
  <2>5. PICK k \in DOMAIN filters : f = filters[k]
    BY <2>4 DEF ToSet
  <2>6. k \in DOMAIN fetch /\ fetch[k].state = "done"
    BY <1>1, <2>2, <2>5 DEF GatherInv
  <2>7. Has(fetch[k], o)
    BY <1>1, <2>1, <2>4, <2>5, <2>6 DEF GatherInv, Gathers, Alive
  <2>8. PICK i \in Gathered :
            Object(i) = o /\ i.rev = remote[o].rev /\ i.manager = remote[o].manager
    BY <1>1, <2>1, <2>6, <2>7, GatheredHas
  <2>9. i \in Kept
    BY <2>1, <2>8 DEF Kept, Excluded, Asked
  <2>10. Stripped(i) \in collection' /\ Object(Stripped(i)) = o
    BY <1>4, <1>5, <2>3, <2>8, <2>9
  <2> QED
    BY <2>10
<1>8. command.name \in {"pull", "delete"} => todo' = collection'
    BY <1>4 DEF Batch
<1> QED
    BY <1>1, <1>3, <1>4, <1>6, <1>7, <1>8 DEF BatchInv, input

(* What was collected stays, and is as good as it was.                      *)
Collected ==
    /\ AllFetched => \A o \in DOMAIN remote : Asked(o) => \E i \in collection : Object(i) = o
    /\ \A i \in collection : Alive(Object(i)) => i.rev = remote[Object(i)].rev

LEMMA CollectedStays ==
    ASSUME Batched, BatchInv, WorldMoves, UNCHANGED <<filters, collection>>, AllFetched' => AllFetched
    PROVE  Collected'
<1>1. UNCHANGED input /\ DOMAIN remote' = DOMAIN remote
    BY DEF WorldMoves
<1>2. \A o \in DOMAIN remote : Alive(o)' => Alive(o) /\ remote'[o] = remote[o]
    BY DEF WorldMoves
<1>3. \A o : Alive(o)' => o \in DOMAIN remote
    BY <1>1 DEF Alive
<1>4. \A o \in DOMAIN remote : Asked(o)' => Asked(o)
    BY <1>1, <1>2 DEF Asked, Wanted, input
<1>5. AllFetched' => \A o \in DOMAIN remote' : Asked(o)' => \E i \in collection' : Object(i) = o
    BY <1>1, <1>4 DEF BatchInv
<1>6. \A i \in collection' : Alive(Object(i))' => i.rev = remote'[Object(i)].rev
    BY <1>2, <1>3 DEF BatchInv
<1> QED
    BY <1>5, <1>6 DEF Collected

(* A step that leaves the batch alone, and does not end in success.         *)
LEMMA BatchSame ==
    ASSUME BatchInv, WorldMoves, Batched' => Batched, exit' = "0" => exit = "0",
           UNCHANGED <<filters, collection, failed, aborted, todo, writing, inflight, files, lost>>,
           command.name = "delete" => UNCHANGED fetch
    PROVE  BatchInv'
<1> SUFFICES ASSUME Batched' PROVE BatchInv'
    BY DEF BatchInv
<1>1. Collected'
    BY CollectedStays DEF AllFetched, WorldMoves, input
<1>2. UNCHANGED <<disc, command>>
    BY DEF WorldMoves, input
<1>3. \A o : Alive(o)' => Alive(o)
    BY DEF WorldMoves, Alive
<1>4. command.name = "pull" =>
          /\ \A i \in collection \ todo : Placed(Path(i))'
          /\ writing # Nobody => writing \in collection /\ Path(writing) \in DOMAIN files
    BY DEF BatchInv, Placed
<1>5. command.name = "delete" => \A i \in collection :
          /\ Provided(i.group, i.version, i.kind)'
          /\ Alive(Object(i))' => i \in todo \cup inflight \/ failed > 0 \/ aborted \/ command.dryRun
    BY <1>2, <1>3 DEF BatchInv, Provided
<1>6. exit' = "0" => /\ todo = {} /\ writing = Nobody /\ inflight = {} /\ ~aborted
                     /\ FailOnErrors => failed = 0
    BY DEF BatchInv
<1> QED
    BY <1>1, <1>2, <1>4, <1>5, <1>6 DEF BatchInv, Collected, FailOnErrors

LEMMA BatchReports ==
    ASSUME GatherInv, BatchInv, Report
    PROVE  BatchInv'
<1> USE DEF fetching, history, batch, Ends
<1> SUFFICES ASSUME Batched' PROVE BatchInv'
    BY DEF BatchInv
<1>1. /\ UNCHANGED <<input, remote, touched, filters, fetch, collection, failed, aborted, todo,
                     writing, inflight, files, lost>>
      /\ pc \in {"write", "delete", "print"} /\ todo = {} /\ writing = Nobody /\ inflight = {}
      /\ exit' = IF aborted THEN "1" ELSE Status
    BY DEF Report
<1>2. WorldMoves
    BY <1>1, WorldKeeps
<1>3. Batched
    BY <1>1 DEF Batched, input
<1>4. Collected'
    BY <1>1, <1>2, <1>3, CollectedStays DEF AllFetched, input
<1>5. exit' = "0" => ~aborted /\ (FailOnErrors => failed = 0)
    BY <1>1 DEF Status, GatherInv
<1>6. \A o : Alive(o)' => Alive(o)
    BY <1>2 DEF WorldMoves, Alive
<1>7. command.name = "pull" => \A i \in collection \ todo : Placed(Path(i))'
    BY <1>1, <1>3 DEF BatchInv, Placed
<1>8. command.name = "delete" => \A i \in collection :
          /\ Provided(i.group, i.version, i.kind)'
          /\ Alive(Object(i))' => failed > 0 \/ aborted \/ command.dryRun
    BY <1>1, <1>3, <1>6 DEF BatchInv, Provided, input
<1> QED
    BY <1>1, <1>4, <1>5, <1>7, <1>8 DEF BatchInv, Collected, FailOnErrors, input

(* A file is where its object was to go, or is written again.               *)
LEMMA BatchWrites ==
    ASSUME BatchInv, PullDeleteIInv, Open \/ Encode, Batched'
    PROVE  BatchInv'
<1> USE DEF Ends, Fault, fetching, history
<1>1. /\ UNCHANGED <<input, remote, touched, filters, fetch, collection, failed, aborted, inflight>>
      /\ pc = "write" /\ command.name = "pull" /\ exit = "none"
    BY DEF Open, Encode, PullDeleteIInv, FilesInv
<1>2. WorldMoves
    BY <1>1, WorldKeeps
<1>3. Batched
    BY <1>1 DEF Batched, input
<1>4. Collected'
    BY <1>1, <1>2, <1>3, CollectedStays DEF AllFetched, input
<1>5. exit' # "0"
    BY <1>1 DEF Open, Encode, WriteFails
<1>6. /\ \A i \in collection \ todo : Placed(Path(i))
      /\ writing # Nobody => writing \in collection /\ Path(writing) \in DOMAIN files
      /\ todo \subseteq collection /\ \A i \in collection : i # Nobody
    <2>1. \A i \in collection : "kind" \in DOMAIN i
      BY <1>1 DEF PullDeleteIInv, FilesInv
    <2>2. "kind" \notin DOMAIN Nobody
      BY DEF Nobody
    <2> QED
      BY <1>1, <1>3, <2>1, <2>2 DEF BatchInv, PullDeleteIInv, TypeOK
<1>7. /\ \A i \in collection \ todo' : Placed(Path(i))'
      /\ writing' # Nobody => writing' \in collection /\ Path(writing') \in DOMAIN files'
  <2>1. CASE Open
    <3>1. PICK i \in todo :
            /\ todo' = todo \ {i} /\ writing = Nobody
            /\ \/ /\ files' = [p \in DOMAIN files \cup {Path(i)} |->
                                 IF p = Path(i) THEN Cut ELSE files[p]]
                  /\ writing' = i /\ lost' = lost
               \/ lost' = lost \cup {i} /\ UNCHANGED <<files, writing>>
      BY <2>1 DEF Open, WriteFails
    <3>2. CASE /\ files' = [p \in DOMAIN files \cup {Path(i)} |->
                              IF p = Path(i) THEN Cut ELSE files[p]]
               /\ writing' = i /\ lost' = lost
      <4>1. i \in collection /\ i # Nobody
        BY <1>6
      <4>2. Placed(Path(i))'
        BY <3>2, <4>1 DEF Placed
      <4>3. ASSUME NEW j \in collection, j \notin todo, Path(j) # Path(i) PROVE Placed(Path(j))'
        <5>1. Placed(Path(j))
          BY <1>6, <4>3
        <5>2. Path(j) \in DOMAIN files => files'[Path(j)] = files[Path(j)] /\ Path(j) \in DOMAIN files'
          BY <3>2, <4>3
        <5> QED
          BY <1>1, <3>1, <3>2, <5>1, <5>2 DEF Placed
      <4>4. ASSUME NEW j \in collection, j \notin todo' PROVE Placed(Path(j))'
        <5>1. CASE Path(j) = Path(i)
          BY <4>2, <5>1 DEF Placed
        <5>2. CASE Path(j) # Path(i)
          <6>1. j \notin todo
            BY <3>1, <4>4, <5>2
          <6> QED
            BY <4>3, <5>2, <6>1
        <5> QED
          BY <5>1, <5>2
      <4> QED
        BY <3>2, <4>1, <4>4
    <3>3. CASE lost' = lost \cup {i} /\ UNCHANGED <<files, writing>>
      <4>1. ASSUME NEW j \in collection, j \notin todo' PROVE Placed(Path(j))'
        <5>1. CASE j = i
          BY <3>3, <5>1 DEF Placed
        <5>2. CASE j # i
          <6>1. Placed(Path(j))
            BY <1>6, <3>1, <4>1, <5>2
          <6> QED
            BY <1>1, <3>3, <6>1 DEF Placed
        <5> QED
          BY <5>1, <5>2
      <4> QED
        BY <3>1, <3>3, <4>1
    <3> QED
      BY <3>1, <3>2, <3>3
  <2>2. CASE Encode
    <3>1. /\ todo' = todo /\ writing # Nobody /\ writing' = Nobody
          /\ \/ files' = [files EXCEPT ![Path(writing)] = writing] /\ lost' = lost
             \/ lost' = lost \cup {writing} /\ files' = files
      BY <2>2 DEF Encode, WriteFails
    <3>2. ASSUME NEW j \in collection, j \notin todo' PROVE Placed(Path(j))'
      <4>1. Placed(Path(j))
        BY <1>6, <3>1, <3>2
      <4>2. CASE files' = [files EXCEPT ![Path(writing)] = writing] /\ lost' = lost
        <5>1. DOMAIN files' = DOMAIN files
          BY <4>2
        <5>2. CASE Path(j) = Path(writing)
          <6>1. files'[Path(j)] = writing /\ Path(j) \in DOMAIN files'
            BY <1>6, <3>1, <4>2, <5>2
          <6> QED
            BY <1>1, <1>6, <3>1, <6>1 DEF Placed
        <5>3. CASE Path(j) # Path(writing)
          <6>1. Path(j) \in DOMAIN files => files'[Path(j)] = files[Path(j)]
            BY <4>2, <5>3
          <6> QED
            BY <1>1, <4>1, <4>2, <5>1, <5>3, <6>1 DEF Placed
        <5> QED
          BY <5>2, <5>3
      <4>3. CASE lost' = lost \cup {writing} /\ files' = files
        BY <1>1, <4>1, <4>3 DEF Placed
      <4> QED
        BY <3>1, <4>2, <4>3
    <3> QED
      BY <3>1, <3>2
  <2> QED
    BY <2>1, <2>2
<1> QED
    BY <1>1, <1>4, <1>5, <1>7 DEF BatchInv, Collected, input

(* A delete's requests: one is sent for each, or a failure is counted.      *)
LEMMA BatchDeletes ==
    ASSUME GatherInv, BatchInv, PullDeleteIInv, WorldMoves, Send \/ Deleted \/ DeleteFails, Batched'
    PROVE  BatchInv'
<1> USE DEF fetching, history
<1>0. IsCase([disc |-> disc, files |-> tree, command |-> command])
    BY DEF PullDeleteIInv, CaseInv, Send, Deleted, DeleteFails
<1>1. /\ UNCHANGED <<input, filters, fetch, collection, writing, exit>>
      /\ pc = "delete" /\ command.name = "delete" /\ exit = "none"
    BY DEF Send, Deleted, DeleteFails, PullDeleteIInv, FilesInv
<1>2. Batched
    BY <1>1 DEF Batched, input
<1>3. Collected'
    BY <1>1, <1>2, CollectedStays DEF AllFetched, input
<1>4. \A i \in collection : Provided(i.group, i.version, i.kind) /\ Provided(i.group, i.version, i.kind)'
    BY <1>1, <1>2 DEF BatchInv, Provided, input
<1>5. failed \in Nat
    BY DEF GatherInv
<1>6. ASSUME NEW j \in collection, Alive(Object(j))'
      PROVE  j \in todo' \cup inflight' \/ failed' > 0 \/ aborted' \/ command.dryRun
  <2>1. Alive(Object(j))
    BY <1>6 DEF WorldMoves, Alive
  <2>2. j \in todo \cup inflight \/ failed > 0 \/ aborted \/ command.dryRun
    BY <1>1, <1>2, <2>1 DEF BatchInv
  <2>3. CASE Send
    <3>1. PICK i \in todo :
             /\ todo' = todo \ {i}
             /\ IF ~Supported(i)
                THEN aborted' = (aborted \/ StopOnError) /\ UNCHANGED <<inflight, failed>>
                ELSE IF aborted THEN failed' = failed + 1 /\ UNCHANGED <<inflight, aborted>>
                ELSE inflight' = inflight \cup {i} /\ UNCHANGED <<failed, aborted>>
      BY <2>3 DEF Send
    <3>2. i \in collection
      BY DEF PullDeleteIInv, TypeOK
    <3>3. Supported(i)
      <4>1. Provided(i.group, i.version, i.kind)
        BY <1>4, <3>2
      <4>2. Usable(disc) \subseteq ToSet(Index.resources)
        BY DEF Index, FilterDiscoveryResults, Restrict, ToSet, Usable
      <4> QED
        BY <4>1, <4>2 DEF Provided, Supported
    <3> QED
      BY <1>5, <2>2, <3>1, <3>3
  <2>4. CASE Deleted
    <3>1. PICK i \in inflight :
             There(i) /\ RemoveObject(i) /\ inflight' = inflight \ {i}
      BY <2>4 DEF Deleted
    <3>2. UNCHANGED <<todo, failed, aborted>>
      BY <2>4 DEF Deleted
    <3>3. CASE i = j /\ ~command.dryRun
      <4>1. remote'[Object(j)] = Absent
        BY <3>1, <3>3 DEF RemoveObject, There
      <4> QED
        BY <1>6, <4>1 DEF Alive, Exists, Absent
    <3> QED
      BY <2>2, <3>1, <3>2, <3>3
  <2>5. CASE DeleteFails
    BY <1>5, <2>5 DEF DeleteFails
  <2> QED
    BY <2>3, <2>4, <2>5
<1> QED
    BY <1>1, <1>3, <1>4, <1>6 DEF BatchInv, Collected, input

LEMMA BatchStays ==
    ASSUME StoredInv, GatherInv, BatchInv, PullDeleteIInv, [CommandsNext]_commandVars
    PROVE  BatchInv'
<1> USE DEF Ends, fetching, history, batch
<1>0. WorldMoves
    BY WorldGoesOn
<1>1. ASSUME ~Batched' PROVE BatchInv'
    BY <1>1 DEF BatchInv
<1>2. CASE Command
  <2>1. CASE Collect
    BY <1>1, <2>1, BatchBegins
  <2>2. CASE Report
    BY <2>2, BatchReports
  <2>3. CASE Open \/ Encode
    BY <1>1, <2>3, BatchWrites
  <2>4. CASE Send \/ Deleted \/ DeleteFails
    BY <1>0, <1>1, <2>4, BatchDeletes
  <2>5. CASE Refuse \/ DiscoveryFails \/ FetchAborted \/ Unwritable
    <3>1. pc' = "done" /\ exit' # "0" /\ UNCHANGED input
      BY <2>5, Statuses DEF Refuse, DiscoveryFails, FetchAborted, Unwritable
    <3> QED
      BY <1>1, <3>1 DEF Batched
  <2>6. CASE Discover \/ (\E i \in DOMAIN fetch : List(i) \/ Get(i) \/ NextRound(i) \/ FetchFails(i))
    <3>1. pc' \in {"read", "fetch"} /\ exit' = exit /\ pc \notin {"done", "push"}
      BY <2>6 DEF Discover, List, Get, NextRound, FetchFails
    <3>2. exit = "none"
      BY <3>1 DEF PullDeleteIInv, FilesInv
    <3> QED
      BY <1>1, <3>1, <3>2 DEF Batched
  <2>7. CASE Read
    <3>1. pc = "read" /\ UNCHANGED input
      BY <2>7 DEF Read
    <3>2. command.path
      BY <3>1 DEF PullDeleteIInv, FilesInv, AskedInv
    <3> QED
      BY <1>1, <3>1, <3>2 DEF Batched, input
  <2> QED
    BY <1>2, <2>1, <2>2, <2>3, <2>4, <2>5, <2>6, <2>7 DEF Command, Step
<1>3. CASE World
  <2>1. CASE OthersEdit
    <3>1. UNCHANGED <<input, pc, fetch, filters, collection, failed, aborted, todo, writing, inflight,
                      files, lost, exit>>
      BY <2>1 DEF OthersEdit
    <3>2. Batched' => Batched
      BY <3>1 DEF Batched, input
    <3> QED
      BY <1>0, <3>1, <3>2, BatchSame
  <2>2. CASE Killed
    BY <1>1, <2>2 DEF Killed, Batched
  <2> QED
    BY <1>3, <2>1, <2>2 DEF World
<1>4. CASE EditorFails \/ EditCancelled \/ EditSaved
  <2>1. pc = "editor" /\ UNCHANGED input
    BY <1>4 DEF EditorFails, EditCancelled, EditSaved
  <2>2. command.name = "edit"
    BY <2>1 DEF PullDeleteIInv, FilesInv
  <2> QED
    BY <1>1, <2>1, <2>2 DEF Batched, input
<1>5. CASE PushFollows
  <2>1. /\ UNCHANGED <<input, filters, collection, failed, aborted, todo, writing, inflight,
                       files, lost, exit>>
        /\ pc = "done" /\ pc' = "push" /\ command.then = "push"
    BY <1>5 DEF PushFollows, StartsWith
  <2>2. Batched' => Batched
    BY <2>1 DEF Batched, input
  <2>3. command.name # "delete"
    <3>1. NoPush.then # "push"
      BY DEF NoPush
    <3>2. IsCase([disc |-> disc, files |-> tree, command |-> command])
      BY <2>1, <3>1 DEF PullDeleteIInv, CaseInv
    <3>3. command.then = "push" => command.name = "pull"
      BY <3>2 DEF IsCase
    <3> QED
      BY <2>1, <3>3
  <2> QED
    BY <1>0, <2>1, <2>2, <2>3, BatchSame
<1>6. CASE PushEnds \/ ReadTree \/ ReadError \/ PushStep \/ Others \/ UNCHANGED commandVars
  <2>1. /\ UNCHANGED <<input, fetch, filters, collection, failed, aborted, todo, writing, inflight,
                       files, lost, exit>>
        /\ pc' = pc \/ pc' = "done"
    BY <1>6 DEF PushEnds, ReadTree, ReadError, PushStep, Others, commandVars, vars
  <2>2. Batched' => Batched
    BY <2>1 DEF Batched, input
  <2> QED
    BY <1>0, <2>1, <2>2, BatchSame
<1> QED
    BY <1>2, <1>3, <1>4, <1>5, <1>6 DEF CommandsNext

LEMMA CompleteStart == ASSUME CasesAreListed, CommandsInit PROVE CompleteIInv
<1>1. CASE Init
  <2>1. PICK c \in Cases :
           disc = c.disc /\ remote = c.remote /\ files = c.files /\ command = c.command
    BY <1>1 DEF Init
  <2>2. VersionsAreListed(c) /\ DOMAIN remote \subseteq STRING \X STRING \X STRING
    BY <2>1, CasesAssumption DEF CasesAreListed
  <2>3. StoredInv
    BY <2>1, <2>2 DEF StoredInv, VersionsAreListed, Served, Provided
  <2>4. GatherInv
    BY <1>1 DEF Init, GatherInv
  <2>5. BatchInv
    BY <1>1 DEF Init, BatchInv, Batched
  <2> QED
    BY <2>3, <2>4, <2>5 DEF CompleteIInv
<1>2. CASE ~Init
  <2>1. remote = <<>> /\ pc = "push" /\ exit = "none" /\ failed = 0
    BY <1>2 DEF CommandsInit
  <2>2. DOMAIN remote = {}
    BY <2>1
  <2> QED
    BY <2>1, <2>2 DEF CompleteIInv, StoredInv, GatherInv, BatchInv, Batched
<1> QED
    BY <1>1, <1>2

LEMMA CompleteStays ==
    CompleteIInv /\ PullDeleteIInv /\ [CommandsNext]_commandVars => CompleteIInv'
    BY WorldGoesOn, StoredStays, GatherStays, BatchStays DEF CompleteIInv

LEMMA CompleteInvariant == ASSUME CasesAreListed PROVE CommandsSpec => []CompleteIInv
    BY CompleteStart, CompleteStays, PullDeleteInvariant, PTL DEF CommandsSpec

(* A pull, a get or a delete that exits 0 without being told to ignore      *)
(* errors has done what was asked: whatever else fails or is changed, each  *)
(* object that its filters cover and nobody touched is in its file, printed *)
(* or gone, if discovery lists the versions that objects are stored in.     *)
THEOREM ExitZeroMeansDone ==
    ASSUME CasesAreListed
    PROVE  CommandsSpec => []ExitZeroIsComplete
<1>1. CompleteIInv /\ PullDeleteIInv => ExitZeroIsComplete
  <2> SUFFICES ASSUME CompleteIInv, PullDeleteIInv, exit = "0", FailOnErrors, ~command.path,
                      NEW o \in DOMAIN remote, Wanted(o), Untouched(o)
               PROVE  CASE command.name = "pull" ->
                             Exists(o) /\ (command.includeManaged \/ remote[o].manager # "other") =>
                                \/ \E i \in lost : Path(i) = <<o[2], o[3]>>
                                \/ /\ <<o[2], o[3]>> \in DOMAIN files
                                   /\ LET i == files[<<o[2], o[3]>>] IN
                                      i # Cut /\ (Object(i) = o => i.rev = remote[o].rev)
                        [] command.name = "get" ->
                             Exists(o) => \E i \in collection : Object(i) = o /\ i.rev = remote[o].rev
                        [] command.name = "delete" ->
                             (\A k \in DOMAIN fetch : fetch[k].state = "done") =>
                                ~Exists(o) \/ command.dryRun
                        [] OTHER -> TRUE
    BY DEF ExitZeroIsComplete
  <2>1. ASSUME command.name \in {"pull", "get", "delete"}, Asked(o), AllFetched
        PROVE  \E i \in collection : Object(i) = o /\ i.rev = remote[o].rev
    <3>1. PICK i \in collection : Object(i) = o
      BY <2>1 DEF CompleteIInv, BatchInv, Batched
    <3> QED
      BY <2>1, <3>1 DEF CompleteIInv, BatchInv, Batched, Asked
  <2>2. command.name \in {"pull", "get", "delete"} =>
           failed = 0 /\ todo = {} /\ inflight = {} /\ writing = Nobody /\ ~aborted
    BY DEF CompleteIInv, BatchInv, Batched
  <2>3. ASSUME command.name = "pull", Exists(o),
               command.includeManaged \/ remote[o].manager # "other"
        PROVE  \/ \E i \in lost : Path(i) = <<o[2], o[3]>>
               \/ /\ <<o[2], o[3]>> \in DOMAIN files
                  /\ LET i == files[<<o[2], o[3]>>] IN
                     i # Cut /\ (Object(i) = o => i.rev = remote[o].rev)
    <3>1. PICK i \in collection : Object(i) = o
      BY <2>1, <2>2, <2>3 DEF Asked, Alive, AllFetched
    <3>2. Path(i) = <<o[2], o[3]>>
      BY <3>1 DEF Object, Path
    <3>3. Placed(Path(i)) /\ writing = Nobody
      BY <2>2, <2>3, <3>1 DEF CompleteIInv, BatchInv, Batched
    <3>4. CASE Path(i) \in DOMAIN files /\ files[Path(i)] \in collection
      <4>1. PICK j \in collection : j = files[Path(i)]
        BY <3>4
      <4>2. "kind" \in DOMAIN j
        BY <2>3 DEF PullDeleteIInv, FilesInv
      <4>3. j # Cut
        BY <4>2 DEF Cut
      <4>4. Object(j) = o => j.rev = remote[o].rev
        BY <2>3 DEF CompleteIInv, BatchInv, Batched, Alive
      <4> QED
        BY <3>2, <3>4, <4>1, <4>3, <4>4
    <3> QED
      BY <3>2, <3>3, <3>4 DEF Placed
  <2>4. ASSUME command.name = "get", Exists(o)
        PROVE  \E i \in collection : Object(i) = o /\ i.rev = remote[o].rev
    BY <2>1, <2>2, <2>4 DEF Asked, Alive, AllFetched
  <2>5. ASSUME command.name = "delete", \A k \in DOMAIN fetch : fetch[k].state = "done",
               Exists(o), ~command.dryRun
        PROVE  FALSE
    <3>1. PICK i \in collection : Object(i) = o
      BY <2>1, <2>5 DEF Asked, Alive, AllFetched
    <3>2. i \in todo \cup inflight \/ failed > 0 \/ aborted
      BY <2>5, <3>1 DEF CompleteIInv, BatchInv, Batched, Alive
    <3> QED
      BY <2>2, <2>5, <3>2
  <2> QED
    BY <2>3, <2>4, <2>5
<1> QED
    BY <1>1, CompleteInvariant, PullDeleteInvariant, PTL

-----------------------------------------------------------------------------
(* What a push brings back of a pull                                        *)

(* A pull that a push is to follow, and that no other user disturbs.        *)
Backup == command.then = "push" /\ edits = 0

(* i is the object that the server has, in a version that it is asked for.  *)
Copied(i) ==
    /\ Object(i) \in DOMAIN remote /\ Exists(Object(i)) /\ Wanted(Object(i))
    /\ Provided(i.group, i.version, i.kind)
    /\ i.version \in IF remote[Object(i)].stored = "" THEN {f.version : f \in ToSet(filters)}
                     ELSE {remote[Object(i)].stored}
    /\ "manager" \in DOMAIN i
    /\ i.manager = "other" <=> remote[Object(i)].manager = "other"

(* The second round of a goroutine asks for the stored versions, the first  *)
(* for that of the filter.                                                  *)
InStored(f, t) == LET o == <<f.group, f.kind, t.name>>
                  IN  remote[o].stored # "" /\ t.version = remote[o].stored
Copies(f, e) ==
    /\ \A i \in e.items : Copied(i)
    /\ \A t \in e.again : InStored(f, t)
    /\ \A t \in e.todo : IF e.round = 2 THEN InStored(f, t) ELSE t.version = f.version

(* A file of the pull is the copy of an object that was to be pulled.       *)
Saved(i) == Copied(i) /\ (i.manager = "other" => command.includeManaged)

CopyInv ==
    /\ edits \in Nat
    /\ Backup =>
          /\ touched = {} /\ (faults = 0 => lost = {}) /\ faults \in Nat
          /\ \A p \in DOMAIN tree : tree[p].rev = 0
          /\ pc = "fetch" => \A k \in DOMAIN fetch : Copies(filters[k], fetch[k])
          /\ \A i \in collection : Saved(i)
          /\ writing # Nobody => Saved(writing)
          /\ \A p \in DOMAIN files : files[p].rev > 0 => Saved(files[p])

LEMMA Undisturbed ==
    ASSUME PullDeleteIInv, edits \in Nat, [CommandsNext]_commandVars
    PROVE  /\ edits' \in Nat /\ UNCHANGED <<disc, command, tree>> /\ DOMAIN remote' = DOMAIN remote
           /\ Backup' => Backup /\ command.name = "pull" /\ UNCHANGED <<remote, touched>>
<1> USE DEF history, bounds
<1>1. WorldMoves
    BY WorldGoesOn
<1>2. command.then = "push" => command.name = "pull"
  <2>1. command = NoPush => command.then = "nothing"
    BY DEF NoPush
  <2>2. IsCase([disc |-> disc, files |-> tree, command |-> command])
           => (command.then = "push" => command.name = "pull")
    BY DEF IsCase
  <2> QED
    BY <2>1, <2>2 DEF PullDeleteIInv, CaseInv
<1>3. CASE OthersEdit
  <2>1. edits' = edits + 1 /\ UNCHANGED <<disc, command, tree>>
    BY <1>3 DEF OthersEdit, input
  <2>2. edits' \in Nat /\ edits' # 0
    BY <2>1
  <2> QED
    BY <1>1, <2>1, <2>2 DEF Backup, WorldMoves
<1>4. CASE Deleted \/ DeleteFails
  <2>1. command.name = "delete"
    BY <1>4 DEF Deleted, DeleteFails, PullDeleteIInv, FilesInv
  <2>2. UNCHANGED <<disc, command, tree, edits>>
    BY <1>4 DEF Deleted, DeleteFails, input
  <2> QED
    BY <1>1, <1>2, <2>1, <2>2 DEF Backup, WorldMoves
<1>5. CASE Command /\ ~Deleted /\ ~DeleteFails
  <2>1. UNCHANGED <<disc, command, tree, edits, remote, touched>>
    BY <1>5 DEF Command, Step, Refuse, DiscoveryFails, Discover, List, Get, NextRound,
       FetchFails, FetchAborted, Collect, Unwritable, Open, Encode, Report, Read, Send, input
  <2> QED
    BY <1>2, <2>1 DEF Backup
<1>6. CASE (World /\ ~OthersEdit) \/ PushFollows \/ EditorFails \/ EditCancelled \/ EditSaved \/ PushEnds
  <2>1. UNCHANGED <<disc, command, tree, edits, remote, touched>>
    BY <1>6 DEF World, Killed, PushFollows, EditorFails, EditCancelled, EditSaved, PushEnds, input
  <2> QED
    BY <1>2, <2>1 DEF Backup
<1>7. CASE ReadTree \/ ReadError \/ PushStep \/ Others \/ UNCHANGED commandVars
  <2>1. UNCHANGED <<disc, command, tree, edits, remote, touched>>
    BY <1>7 DEF ReadTree, ReadError, PushStep, Others, commandVars, vars, input
  <2> QED
    BY <1>2, <2>1 DEF Backup
<1> QED
    BY <1>3, <1>4, <1>5, <1>6, <1>7 DEF CommandsNext, World

(* What a goroutine of a backup has or asks for next.                       *)
LEMMA CopiesNext ==
    ASSUME NEW k, NEW f, NEW e, Copies(f, e), f = filters'[k], e = fetch'[k],
           UNCHANGED <<disc, remote, filters>>
    PROVE  Copies(filters[k], fetch[k])'
<1>1. \A i : Copied(i)' <=> Copied(i)
    BY DEF Copied, Exists, Wanted, Provided
<1> QED
    BY <1>1 DEF Copies, InStored

LEMMA CopyFetches ==
    ASSUME StoredInv, GatherInv, PullDeleteIInv, CopyInv, Backup, UNCHANGED <<disc, remote>>,
           NEW i \in DOMAIN fetch, List(i) \/ Get(i) \/ NextRound(i) \/ FetchFails(i)
    PROVE  \A k \in DOMAIN fetch' : Copies(filters[k], fetch[k])'
<1>0. pc = "fetch" /\ UNCHANGED filters
    BY DEF List, Get, NextRound, FetchFails
<1>1. Gathers(filters[i], fetch[i]) /\ Copies(filters[i], fetch[i])
    BY <1>0 DEF GatherInv, CopyInv
<1>2. PICK f : f = filters[i]
    OBVIOUS
<1>3. fetch[i] = [todo |-> fetch[i].todo, again |-> fetch[i].again, items |-> fetch[i].items,
                  round |-> fetch[i].round, state |-> fetch[i].state]
      /\ \A t \in fetch[i].todo : Fits(f, t.name)
    BY <1>2 DEF PullDeleteIInv, FetchInv
<1>4. ASSUME NEW o \in DOMAIN remote PROVE o = <<o[1], o[2], o[3]>>
  <2>1. o \in STRING \X STRING \X STRING
    BY DEF StoredInv
  <2> QED
    BY <2>1
<1>5. ASSUME NEW o \in DOMAIN remote, Exists(o), Covers(f, o), NEW v, Provided(f.group, v, f.kind),
             v = IF remote[o].stored = "" THEN f.version ELSE remote[o].stored
      PROVE  Copied(Item(o, v))
  <2>1. PICK j : j = Item(o, v)
    OBVIOUS
  <2>2. Object(j) = o /\ j.manager = remote[o].manager /\ j.group = f.group /\ j.kind = f.kind /\ j.version = v
        /\ "manager" \in DOMAIN j
    BY <1>4, <1>5, <2>1 DEF Item, Object, Covers
  <2>3. f \in ToSet(filters)
    BY <1>2 DEF PullDeleteIInv, FetchInv, ToSet
  <2>4. Wanted(o)
    BY <1>5, <2>3 DEF Covers, Wanted
  <2>5. v \in IF remote[o].stored = "" THEN {g.version : g \in ToSet(filters)} ELSE {remote[o].stored}
    BY <1>5, <2>3
  <2> QED
    BY <1>5, <2>1, <2>2, <2>4, <2>5 DEF Copied
<1>6. ASSUME NEW e, fetch' = [fetch EXCEPT ![i] = e], Copies(f, e)
      PROVE  \A k \in DOMAIN fetch' : Copies(filters[k], fetch[k])'
  <2>1. DOMAIN fetch' = DOMAIN fetch /\ \A k \in DOMAIN fetch : fetch'[k] = IF k = i THEN e ELSE fetch[k]
    BY <1>6
  <2>2. ASSUME NEW k \in DOMAIN fetch PROVE Copies(filters[k], fetch[k])'
    <3>1. PICK g : g = filters[k]
      OBVIOUS
    <3>2. PICK h : h = fetch'[k]
      OBVIOUS
    <3>3. Copies(g, h)
      BY <1>0, <1>2, <1>6, <2>1, <3>1, <3>2 DEF CopyInv
    <3> QED
      BY <1>0, <3>1, <3>2, <3>3, CopiesNext
  <2> QED
    BY <2>1, <2>2
<1>10. CASE List(i)
  <2> DEFINE e == [todo |-> {}, round |-> 1, state |-> "get",
                   items |-> {Item(o, filters[i].version) : o \in
                                {p \in Listed(filters[i]) : remote[p].stored = ""}},
                   again |-> {[name |-> o[3], version |-> remote[o].stored] : o \in
                                {p \in Listed(filters[i]) : remote[p].stored # ""}}]
  <2>1. fetch' = [fetch EXCEPT ![i] = e] /\ fetch[i].state = "list"
    BY <1>10 DEF List
  <2>2. f.uids = {}
    BY <1>2, <2>1 DEF PullDeleteIInv, FetchInv
  <2>3. ASSUME NEW j \in e.items PROVE Copied(j)
    <3>1. PICK o \in {p \in Listed(filters[i]) : remote[p].stored = ""} : j = Item(o, f.version)
      BY <1>2
    <3>2. o \in DOMAIN remote /\ Exists(o) /\ Covers(f, o)
      BY <1>2, <2>2, <3>1 DEF Listed, Covers
    <3>3. Provided(f.group, f.version, f.kind)
      BY <1>1, <1>2 DEF Gathers
    <3> HIDE DEF e
    <3> QED
      BY <1>5, <3>1, <3>2, <3>3
  <2>4. ASSUME NEW t \in e.again PROVE InStored(f, t)
    <3>1. PICK o \in {p \in Listed(filters[i]) : remote[p].stored # ""} :
              t = [name |-> o[3], version |-> remote[o].stored]
      OBVIOUS
    <3>2. o \in DOMAIN remote /\ o[1] = f.group /\ o[2] = f.kind
          /\ t.name = o[3] /\ t.version = remote[o].stored /\ remote[o].stored # ""
      BY <1>2, <3>1 DEF Listed
    <3>3. o = <<f.group, f.kind, t.name>>
      BY <1>4, <3>2
    <3> HIDE DEF e
    <3> QED
      BY <3>2, <3>3 DEF InStored
  <2>5. e.todo = {}
    OBVIOUS
  <2> HIDE DEF e
  <2>6. Copies(f, e)
    BY <2>3, <2>4, <2>5 DEF Copies
  <2> QED
    BY <1>6, <2>1, <2>6
<1>20. CASE Get(i)
  <2>1. PICK t \in fetch[i].todo :
           LET o == Target(i, t)
               enough == fetch[i].round = 2 \/ remote[o].stored = ""
           IN
           /\ Answers(i, t)
           /\ fetch' = [fetch EXCEPT ![i] = [fetch[i] EXCEPT
                !.todo = @ \ {t},
                !.again = IF enough THEN @
                          ELSE @ \cup {[name |-> t.name, version |-> remote[o].stored]},
                !.items = IF enough THEN @ \cup {Item(o, t.version)} ELSE @]]
    BY <1>20 DEF Get
  <2> DEFINE old == fetch[i]
             o == Target(i, t)
             enough == old.round = 2 \/ remote[o].stored = ""
             again == IF enough THEN old.again
                      ELSE old.again \cup {[name |-> t.name, version |-> remote[o].stored]}
             items == IF enough THEN old.items \cup {Item(o, t.version)} ELSE old.items
  <2>2. PICK e : e = [old EXCEPT !.todo = @ \ {t}, !.again = again, !.items = items]
    OBVIOUS
  <2>3. fetch' = [fetch EXCEPT ![i] = e]
    BY <2>1, <2>2
  <2>4. e.todo = old.todo \ {t} /\ e.again = again /\ e.items = items /\ e.round = old.round
    <3>1. PICK a, b, c, d, s : /\ old = [todo |-> a, again |-> b, items |-> c, round |-> d, state |-> s]
                               /\ a = old.todo /\ d = old.round
      BY <1>3
    <3>2. PICK x, y, z, q : x = old.todo \ {t} /\ y = again /\ z = items /\ q = old
      OBVIOUS
    <3>3. q = [todo |-> a, again |-> b, items |-> c, round |-> d, state |-> s]
      BY <3>1, <3>2
    <3>4. PICK w : w = [q EXCEPT !.todo = x, !.again = y, !.items = z]
      OBVIOUS
    <3>5. w = [todo |-> x, again |-> y, items |-> z, round |-> d, state |-> s]
      <4> HIDE DEF again, items, old
      <4> QED
        BY <3>3, <3>4, SetThree
    <3>6. e = w
      <4> HIDE DEF again, items, old
      <4> QED
        BY <2>2, <3>2, <3>4
    <3>7. e.todo = x /\ e.again = y /\ e.items = z /\ e.round = d
      <4> HIDE DEF again, items, old
      <4> QED
        BY <3>5, <3>6
    <3> HIDE DEF again, items, old
    <3> QED
      BY <3>1, <3>2, <3>7
  <2>5. o \in DOMAIN remote /\ Exists(o) /\ Served(f.group, t.version)
    BY <1>2, <2>1 DEF Answers
  <2>6. o = <<f.group, f.kind, t.name>> /\ o[1] = f.group /\ o[2] = f.kind /\ o[3] = t.name
    BY <1>2 DEF Target
  <2>7. Covers(f, o) /\ Provided(f.group, t.version, f.kind)
    <3>1. Provided(f.group, t.version, f.kind)
      BY <1>1, <1>2, <2>5 DEF Gathers
    <3> HIDE DEF o
    <3> QED
      BY <1>3, <2>6, <3>1 DEF Covers, Fits
  <2>8. IF old.round = 2 THEN remote[o].stored # "" /\ t.version = remote[o].stored
        ELSE t.version = f.version
    BY <1>1, <1>2, <2>6 DEF Copies, InStored
  <2>9. ASSUME NEW j \in e.items PROVE Copied(j)
    <3>1. CASE j \in old.items
      BY <1>1, <3>1 DEF Copies
    <3>2. CASE j = Item(o, t.version) /\ enough
      <4>1. t.version = IF remote[o].stored = "" THEN f.version ELSE remote[o].stored
        BY <2>8, <3>2
      <4> HIDE DEF o
      <4> QED
        BY <1>5, <2>5, <2>7, <3>2, <4>1
    <3> QED
      BY <2>4, <3>1, <3>2
  <2>10. ASSUME NEW s \in e.again PROVE InStored(f, s)
    <3>1. CASE s \in old.again
      BY <1>1, <1>2, <3>1 DEF Copies
    <3>2. CASE s = [name |-> t.name, version |-> remote[o].stored] /\ ~enough
      <4>1. s.name = t.name /\ s.version = remote[o].stored /\ remote[o].stored # ""
        BY <3>2
      <4> HIDE DEF o
      <4> QED
        BY <2>6, <4>1 DEF InStored
    <3> QED
      BY <2>4, <3>1, <3>2
  <2>11. \A s \in e.todo : IF e.round = 2 THEN InStored(f, s) ELSE s.version = f.version
    BY <1>1, <1>2, <2>4 DEF Copies
  <2>12. Copies(f, e)
    BY <2>9, <2>10, <2>11 DEF Copies
  <2> QED
    BY <1>6, <2>3, <2>12
<1>30. CASE NextRound(i)
  <2> DEFINE old == fetch[i]
             e == IF old.again = {} THEN [old EXCEPT !.state = "done"]
                  ELSE [old EXCEPT !.todo = old.again, !.again = {}, !.round = 2]
  <2>1. fetch' = [fetch EXCEPT ![i] = e] /\ old.todo = {}
    BY <1>30 DEF NextRound
  <2>2. \/ e = [todo |-> {}, again |-> {}, items |-> old.items, round |-> old.round, state |-> "done"]
        \/ e = [todo |-> old.again, again |-> {}, items |-> old.items, round |-> 2, state |-> old.state]
    BY <1>3, <2>1
  <2> HIDE DEF e
  <2>3. e.items = old.items /\ e.again = {} /\ (e.todo = {} \/ (e.todo = old.again /\ e.round = 2))
    BY <2>2
  <2>4. Copies(f, e)
    BY <1>1, <1>2, <2>3 DEF Copies
  <2> QED
    BY <1>6, <2>1, <2>4
<1>40. CASE FetchFails(i)
  <2> DEFINE old == fetch[i]
             e == [old EXCEPT !.state = "failed"]
  <2>1. fetch' = [fetch EXCEPT ![i] = e]
    BY <1>40 DEF FetchFails
  <2>2. /\ e.items = old.items /\ e.todo = old.todo /\ e.again = old.again /\ e.round = old.round
    BY <1>3
  <2> HIDE DEF e
  <2>3. Copies(f, e)
    BY <1>1, <1>2, <2>2 DEF Copies
  <2> QED
    BY <1>6, <2>1, <2>3
<1> QED
    BY <1>10, <1>20, <1>30, <1>40

LEMMA FaultsCount ==
    ASSUME faults \in Nat, [CommandsNext]_commandVars
    PROVE  faults' \in Nat /\ (faults' = 0 => faults = 0 /\ lost' = lost)
<1> USE DEF history, bounds
<1>1. CASE Open \/ Encode
  <2>1. (UNCHANGED <<faults, lost>>) \/ Fault
    BY <1>1 DEF Open, Encode, WriteFails
  <2> QED
    BY <2>1 DEF Fault
<1>2. CASE (Command \/ World) /\ ~Open /\ ~Encode
  <2>1. (UNCHANGED faults \/ Fault) /\ lost' = lost
    <3>1. CASE Refuse \/ DiscoveryFails \/ Discover
      BY <3>1 DEF Refuse, DiscoveryFails, Discover
    <3>2. CASE \E i \in DOMAIN fetch : List(i) \/ Get(i) \/ NextRound(i)
      BY <3>2 DEF List, Get, NextRound
    <3>3. CASE \E i \in DOMAIN fetch : FetchFails(i)
      BY <3>3 DEF FetchFails
    <3>4. CASE FetchAborted \/ Collect \/ Unwritable \/ Report
      BY <3>4 DEF FetchAborted, Collect, Unwritable, Report
    <3>5. CASE Read \/ Send \/ Deleted \/ DeleteFails
      BY <3>5 DEF Read, Send, Deleted, DeleteFails
    <3>6. CASE OthersEdit \/ Killed
      BY <3>6 DEF OthersEdit, Killed
    <3> QED
      BY <1>2, <3>1, <3>2, <3>3, <3>4, <3>5, <3>6 DEF Command, World, Step
  <2> QED
    BY <2>1 DEF Fault
<1>3. CASE PushFollows \/ EditorFails \/ EditCancelled \/ EditSaved \/ PushEnds
  <2>1. (UNCHANGED faults \/ Fault) /\ lost' = lost
    BY <1>3 DEF PushFollows, EditorFails, EditCancelled, EditSaved, PushEnds
  <2> QED
    BY <2>1 DEF Fault
<1>4. CASE ReadTree \/ ReadError \/ PushStep \/ Others \/ UNCHANGED commandVars
  BY <1>4 DEF ReadTree, ReadError, PushStep, Others, commandVars, vars
<1> QED
  BY <1>1, <1>2, <1>3, <1>4 DEF CommandsNext

(* What the pull of a backup has, or is writing, is what it was.            *)
LEMMA CopiesStay ==
    ASSUME CopyInv, Backup, UNCHANGED <<disc, remote, command, filters>>,
           pc' = "fetch" => \A k \in DOMAIN fetch' : Copies(filters[k], fetch[k])',
           \A i \in collection' : Saved(i) \/ i \in collection,
           writing' \in {writing, Nobody} \cup collection,
           \A p \in DOMAIN files' :
              files'[p].rev > 0 => (p \in DOMAIN files /\ files'[p] = files[p]) \/ Saved(files'[p])
    PROVE  /\ pc' = "fetch" => \A k \in DOMAIN fetch' : Copies(filters[k], fetch[k])'
           /\ \A i \in collection' : Saved(i)'
           /\ writing' # Nobody => Saved(writing)'
           /\ \A p \in DOMAIN files' : files'[p].rev > 0 => Saved(files[p])'
<1>1. \A i : Saved(i)' <=> Saved(i)
    BY DEF Saved, Copied, Exists, Wanted, Provided
<1>2. \A i \in collection' : Saved(i)'
    BY <1>1 DEF CopyInv
<1>3. ASSUME writing' # Nobody PROVE Saved(writing)'
  <2>1. PICK w : w = writing'
    OBVIOUS
  <2>2. Saved(w)
    BY <1>3, <2>1 DEF CopyInv
  <2>3. Saved(w)'
    BY <1>1, <2>2
  <2> QED
    BY <2>1, <2>3 DEF Saved, Copied, Object
<1>4. ASSUME NEW p \in DOMAIN files', files'[p].rev > 0 PROVE Saved(files[p])'
  <2>1. PICK w : w = files'[p]
    OBVIOUS
  <2>2. Saved(w)
    BY <1>4, <2>1 DEF CopyInv
  <2>3. Saved(w)'
    BY <1>1, <2>2
  <2> QED
    BY <2>1, <2>3 DEF Saved, Copied, Object
<1> QED
    BY <1>2, <1>3, <1>4

LEMMA CopyBegins ==
    ASSUME CopyInv, PullDeleteIInv, Backup, Discover
    PROVE  /\ pc' = "fetch" => \A k \in DOMAIN fetch' : Copies(filters[k], fetch[k])'
           /\ collection' = {} /\ writing' = Nobody
           /\ \A p \in DOMAIN files' : ~(files'[p].rev > 0)
<1> USE DEF batch, history
<1>1. pc = "parse" /\ UNCHANGED <<disc, remote, files, tree, collection, writing>>
    BY DEF Discover, input
<1>2. collection = {} /\ writing = Nobody /\ files = tree
    BY <1>1 DEF PullDeleteIInv, FilesInv
<1>3. ASSUME NEW p \in DOMAIN files' PROVE ~(files'[p].rev > 0)
  <2>1. files'[p].rev = 0
    BY <1>1, <1>2 DEF CopyInv
  <2> QED
    BY <2>1
<1>4. ASSUME pc' = "fetch", NEW k \in DOMAIN fetch' PROVE Copies(filters[k], fetch[k])'
  <2>1. fetch' = [i \in DOMAIN filters' |-> Begun(filters'[i])]
    BY <1>4 DEF Discover
  <2>2. PICK f : f = filters'[k]
    OBVIOUS
  <2>3. PICK e : e = Begun(f)
    OBVIOUS
  <2>4. e = fetch'[k]
    BY <1>4, <2>1, <2>2, <2>3
  <2>5. e.items = {} /\ e.again = {} /\ e.round = 1
        /\ e.todo = {[name |-> n, version |-> f.version] : n \in f.uids}
    BY <2>3 DEF Begun
  <2>6. \A t \in e.todo : t.version = f.version
    BY <2>5
  <2>7. Copies(f, e)'
    BY <2>5, <2>6 DEF Copies
  <2> QED
    BY <2>2, <2>4, <2>7 DEF Copies, InStored, Copied
<1> QED
    BY <1>1, <1>2, <1>3, <1>4

LEMMA CopyCollects ==
    ASSUME CopyInv, PullDeleteIInv, Backup, command.name = "pull", Collect
    PROVE  \A i \in collection' : Saved(i)
<1>1. pc = "fetch" /\ collection = {}
    BY DEF Collect, PullDeleteIInv, FilesInv
<1>2. ASSUME NEW i \in collection' PROVE \E j \in Kept : i = Stripped(j)
    BY <1>1, <1>2 DEF Collect
<1>3. \A j \in Kept : /\ Stripped(j).group = j.group /\ Stripped(j).version = j.version
                     /\ Stripped(j).kind = j.kind /\ Stripped(j).name = j.name
    BY DEF Stripped
<1>4. ASSUME NEW j \in Kept PROVE Saved(Stripped(j))
  <2>1. PICK k \in DOMAIN fetch : j \in fetch[k].items
    BY KeptIs
  <2>2. Copied(j)
    BY <1>1, <2>1 DEF CopyInv, Copies
  <2>3. j.manager = "other" => command.includeManaged
    BY DEF Kept, Excluded
  <2>4. PICK i : i = Stripped(j)
    OBVIOUS
  <2>5. i.group = j.group /\ i.kind = j.kind /\ i.name = j.name /\ i.version = j.version
    BY <1>3, <2>4
  <2>8. (i.manager = "other" <=> j.manager = "other") /\ "manager" \in DOMAIN i
    <3>1. "manager" \in DOMAIN j
      BY <2>2 DEF Copied
    <3> QED
      BY <2>4, <3>1 DEF Stripped
  <2>6. Object(i) = Object(j)
    BY <2>5 DEF Object
  <2>7. Copied(i)
    BY <2>2, <2>5, <2>6, <2>8 DEF Copied
  <2> QED
    BY <2>3, <2>4, <2>7, <2>8 DEF Saved
<1> QED
    BY <1>2, <1>4

LEMMA CopyStays ==
    ASSUME CopyInv, StoredInv, GatherInv, PullDeleteIInv, PhaseInv, [CommandsNext]_commandVars
    PROVE  CopyInv'
<1> USE DEF batch, history, fetching
<1>1. edits' \in Nat /\ UNCHANGED <<disc, command, tree>>
    BY Undisturbed DEF CopyInv
<1>2. SUFFICES ASSUME Backup' PROVE
          /\ pc' = "fetch" => \A k \in DOMAIN fetch' : Copies(filters[k], fetch[k])'
          /\ \A i \in collection' : Saved(i)'
          /\ writing' # Nobody => Saved(writing)'
          /\ \A p \in DOMAIN files' : files'[p].rev > 0 => Saved(files[p])'
  <2>1. ASSUME Backup' PROVE Backup /\ touched' = touched
    BY <2>1, Undisturbed DEF CopyInv
  <2>2. ASSUME Backup' PROVE /\ touched' = {} /\ (faults' = 0 => lost' = {}) /\ faults' \in Nat
                             /\ \A p \in DOMAIN tree' : tree'[p].rev = 0
    BY <1>1, <2>1, <2>2, FaultsCount DEF CopyInv
  <2> QED
    BY <1>1, <1>2, <2>2 DEF CopyInv
<1>3. Backup /\ command.name = "pull" /\ UNCHANGED <<disc, remote, command>>
    BY <1>1, <1>2, Undisturbed DEF CopyInv
<1>4. pc \notin {"read", "delete", "editor"}
    BY <1>3 DEF PullDeleteIInv, FilesInv
<1>5. CASE \E i \in DOMAIN fetch : List(i) \/ Get(i) \/ NextRound(i) \/ FetchFails(i)
  <2>1. \A k \in DOMAIN fetch' : Copies(filters[k], fetch[k])'
    BY <1>3, <1>5, CopyFetches
  <2>2. UNCHANGED <<filters, collection, writing, files>>
    BY <1>5 DEF List, Get, NextRound, FetchFails
  <2> QED
    BY <1>3, <2>1, <2>2, CopiesStay
<1>6. CASE Discover
    BY <1>3, <1>6, CopyBegins
<1>7. CASE Collect
  <2>1. \A i \in collection' : Saved(i)
    BY <1>3, <1>7, CopyCollects
  <2>2. UNCHANGED <<filters, writing, files>>
    BY <1>7 DEF Collect
  <2>3. pc' # "fetch"
    BY <1>3, <1>7 DEF Collect, Proceed, Ends
  <2> QED
    BY <1>3, <2>1, <2>2, <2>3, CopiesStay
<1>8. CASE Open
  <2>1. pc' # "fetch" /\ UNCHANGED <<filters, collection>>
    BY <1>8 DEF Open, WriteFails, Ends
  <2>2. writing' \in {writing, Nobody} \cup collection
    BY <1>8 DEF Open, PullDeleteIInv, TypeOK
  <2>3. ASSUME NEW p \in DOMAIN files', files'[p].rev > 0
        PROVE  p \in DOMAIN files /\ files'[p] = files[p]
    <3>1. PICK i : \/ files' = [q \in DOMAIN files \cup {Path(i)} |-> IF q = Path(i) THEN Cut ELSE files[q]]
                   \/ files' = files
      BY <1>8 DEF Open
    <3>2. Cut.rev = 0 /\ ~(0 > 0)
      BY DEF Cut
    <3> QED
      BY <2>3, <3>1, <3>2
  <2> QED
    BY <1>3, <2>1, <2>2, <2>3, CopiesStay
<1>9. CASE Encode
  <2>1. pc' # "fetch" /\ UNCHANGED <<filters, collection>> /\ writing' = Nobody /\ writing # Nobody
    BY <1>9 DEF Encode, WriteFails, Ends
  <2>2. Saved(writing)
    BY <1>3, <2>1 DEF CopyInv
  <2>3. ASSUME NEW p \in DOMAIN files', files'[p].rev > 0
        PROVE  (p \in DOMAIN files /\ files'[p] = files[p]) \/ Saved(files'[p])
    <3>1. files' = [files EXCEPT ![Path(writing)] = writing] \/ files' = files
      BY <1>9 DEF Encode
    <3>2. p \in DOMAIN files /\ (files'[p] = files[p] \/ files'[p] = writing)
      BY <2>3, <3>1
    <3> QED
      BY <2>2, <3>2
  <2> QED
    BY <1>3, <2>1, <2>3, CopiesStay
<1>10. CASE PushFollows
  <2>1. pc' = "push" /\ UNCHANGED <<filters, collection, writing, files>>
    BY <1>10 DEF PushFollows, StartsWith
  <2> QED
    BY <1>3, <2>1, CopiesStay
<1>11. CASE \/ Refuse \/ DiscoveryFails \/ FetchAborted \/ Unwritable \/ Report \/ Killed \/ PushEnds
  <2>1. pc' = "done" /\ UNCHANGED <<filters, collection, writing, files>>
    BY <1>11 DEF Refuse, DiscoveryFails, FetchAborted, Unwritable, Report, Killed, PushEnds, Ends
  <2> QED
    BY <1>3, <2>1, CopiesStay
<1>12. CASE ReadTree \/ ReadError \/ PushStep \/ Others \/ UNCHANGED commandVars
  <2>1. pc' = pc /\ UNCHANGED <<filters, fetch, collection, writing, files>>
    BY <1>12 DEF ReadTree, ReadError, PushStep, Others, commandVars, vars
  <2>2. ASSUME pc' = "fetch", NEW k \in DOMAIN fetch' PROVE Copies(filters[k], fetch[k])'
    <3>1. PICK f : f = filters[k]
      OBVIOUS
    <3>2. PICK e : e = fetch[k]
      OBVIOUS
    <3>3. Copies(f, e)
      BY <1>3, <2>1, <2>2, <3>1, <3>2 DEF CopyInv
    <3> QED
      BY <1>3, <2>1, <3>1, <3>2, <3>3, CopiesNext
  <2> QED
    BY <1>3, <2>1, <2>2, CopiesStay
<1>13. CASE OthersEdit
  <2>1. edits' = edits + 1 /\ edits' = 0
    BY <1>2, <1>13 DEF OthersEdit, Backup
  <2> QED
    BY <2>1 DEF CopyInv
<1>14. CASE Read \/ Send \/ Deleted \/ DeleteFails \/ EditorFails \/ EditCancelled \/ EditSaved
    BY <1>4, <1>14 DEF Read, Send, Deleted, DeleteFails, EditorFails, EditCancelled, EditSaved
<1> QED
    BY <1>5, <1>6, <1>7, <1>8, <1>9, <1>10, <1>11, <1>12, <1>13, <1>14
    DEF CommandsNext, Command, World, Step

LEMMA CopyStart == ASSUME BackupsAreSound, CommandsInit PROVE CopyInv
<1>1. CASE Init
  <2>1. PICK c \in Cases :
           disc = c.disc /\ remote = c.remote /\ files = c.files /\ command = c.command
    BY <1>1 DEF Init
  <2>2. /\ tree = files /\ collection = {} /\ writing = Nobody /\ pc = "parse"
        /\ touched = {} /\ lost = {} /\ faults = 0 /\ edits = 0
    BY <1>1 DEF Init
  <2>3. command.then = "push" => \A p \in DOMAIN files : files[p].rev = 0
    BY <2>1 DEF BackupsAreSound
  <2> QED
    BY <2>2, <2>3 DEF CopyInv, Backup
<1>2. CASE ~Init
  <2>1. command = NoPush /\ edits = 0
    BY <1>2 DEF CommandsInit
  <2> QED
    BY <2>1 DEF CopyInv, Backup, NoPush
<1> QED
    BY <1>1, <1>2

(* What BackupsAreSound says of the command that runs.                      *)
SoundInv ==
    command.then = "push" =>
        /\ FailOnErrors
        /\ \A o, q \in DOMAIN remote : o[2] = q[2] /\ o[3] = q[3] => o = q
        /\ \A ns \in (SUBSET {o[3] : o \in {q \in DOMAIN remote : q[2] = "Folder"}}) \ {{}} :
              \E n \in ns : Folder("Folder", n) \notin ns

LEMMA SoundStart == ASSUME BackupsAreSound, CommandsInit PROVE SoundInv
<1>1. CASE Init
  <2>1. PICK c \in Cases :
           disc = c.disc /\ remote = c.remote /\ files = c.files /\ command = c.command
    BY <1>1 DEF Init
  <2> QED
    BY <2>1 DEF SoundInv, BackupsAreSound, FailOnErrors
<1>2. CASE ~Init
  <2>1. command = NoPush
    BY <1>2 DEF CommandsInit
  <2> QED
    BY <2>1 DEF SoundInv, NoPush
<1> QED
    BY <1>1, <1>2

LEMMA SoundStays ==
    ASSUME SoundInv, CopyInv, PullDeleteIInv, [CommandsNext]_commandVars
    PROVE  SoundInv'
<1>1. command' = command /\ DOMAIN remote' = DOMAIN remote
    BY Undisturbed DEF CopyInv
<1> QED
    BY <1>1 DEF SoundInv, FailOnErrors

LEMMA CopyInvariant == ASSUME CasesAreListed, BackupsAreSound PROVE CommandsSpec => [](CopyInv /\ SoundInv)
<1>1. CopyInv /\ SoundInv /\ CompleteIInv /\ PullDeleteIInv /\ PushIInv /\ [CommandsNext]_commandVars
        => CopyInv' /\ SoundInv'
    BY CopyStays, SoundStays DEF CompleteIInv, PushIInv
<1>2. CommandsInit => CopyInv /\ SoundInv
    BY CopyStart, SoundStart
<1> QED
    BY <1>1, <1>2, CompleteInvariant, PullDeleteInvariant, PushInvariant, PTL DEF CommandsSpec

(* The push of a backup is one of its files, all of them and each once.     *)
Follows == command.then = "push" /\ (pc = "push" \/ phase # "idle")
FollowInv ==
    Follows =>
        /\ exit = "0" /\ edits = 0 /\ faults = 0
        /\ request.supported = SupportedTypes
        /\ \A f \in DOMAIN pushTree : \E p \in DOMAIN files : pushTree[f] = Decoded(files[p])
        /\ \A p \in DOMAIN files : \E f \in DOMAIN pushTree : pushTree[f] = Decoded(files[p])
        /\ \A f, g \in DOMAIN pushTree : pushTree[f] = pushTree[g] => f = g
        /\ \A o \in DOMAIN remote : <<o[2], o[3]>> \in DOMAIN author

LEMMA FollowBegins ==
    ASSUME PullDeleteIInv, PushFollows
    PROVE  FollowInv'
<1>1. PICK options \in Following, gone \in {{}, {<<o[2], o[3]>> : o \in DOMAIN remote}} :
          /\ request' = [options EXCEPT !.supported = SupportedTypes]
          /\ StartsWith(SetToSeq({Decoded(files[p]) : p \in DOMAIN files}), gone)
    BY DEF PushFollows
<1>2. /\ exit' = "0" /\ edits' = 0 /\ faults' = 0 /\ UNCHANGED <<disc, remote, files>>
    BY DEF PushFollows, bounds, input
<1>3. request'.supported = SupportedTypes
    BY <1>1, LimitsAssumption
<1> DEFINE S == {Decoded(files[p]) : p \in DOMAIN files}
           g == [p \in DOMAIN files |-> Decoded(files[p])]
<1>4. IsFiniteSet(S)
  <2>1. IsFiniteSet(DOMAIN files)
    BY DEF PullDeleteIInv, FilesInv
  <2>2. g \in Surjection(DOMAIN files, S)
    BY DEF Surjection
  <2> HIDE DEF S, g
  <2> QED
    BY <2>1, <2>2, FS_Surjection
<1>5. pushTree' = SetToSeq(S)
    BY <1>1 DEF StartsWith
<1>6. /\ ToSet(pushTree') = S
      /\ \A i, j \in DOMAIN pushTree' : pushTree'[i] = pushTree'[j] => i = j
  <2> HIDE DEF S
  <2> QED
    BY <1>4, <1>5, SetToSeqIs, SetToSeqOnce
<1>7. /\ \A f \in DOMAIN pushTree' : \E p \in DOMAIN files : pushTree'[f] = Decoded(files[p])
      /\ \A p \in DOMAIN files : \E f \in DOMAIN pushTree' : pushTree'[f] = Decoded(files[p])
  <2>1. /\ \A f \in DOMAIN pushTree' : pushTree'[f] \in S
        /\ \A s \in S : \E f \in DOMAIN pushTree' : pushTree'[f] = s
    <3> HIDE DEF S
    <3> QED
      BY <1>6 DEF ToSet
  <2> QED
    BY <2>1
<1>8. \A o \in DOMAIN remote : <<o[2], o[3]>> \in DOMAIN author'
  <2>1. DOMAIN author' = DOMAIN versions'
    BY <1>1 DEF StartsWith
  <2>2. \A o \in DOMAIN remote : Path([kind |-> o[2], name |-> o[3]]) \in DOMAIN versions'
    BY <1>1 DEF StartsWith
  <2> QED
    BY <2>1, <2>2 DEF Path
<1>9. SupportedTypes' = SupportedTypes
    BY <1>2 DEF SupportedTypes, Index
<1> HIDE DEF S, g
<1>10. \A i : Decoded(i)' = Decoded(i)
    BY DEF Decoded
<1> QED
    BY <1>2, <1>3, <1>6, <1>7, <1>8, <1>9 DEF FollowInv, Decoded

LEMMA PushKeeps ==
    ASSUME ReadTree \/ ReadError \/ PushStep \/ Others
    PROVE  /\ pc = "push" /\ UNCHANGED <<vars, pushTree, request>>
           /\ DOMAIN author' = DOMAIN author
<1>1. CASE ReadTree
  <2>1. Push!R!Next /\ UNCHANGED author
    BY <1>1 DEF ReadTree, Push!Read, Push!worldVars
  <2> QED
    BY <1>1, <2>1 DEF ReadTree, Push!R!Next, Push!R!Walk, Push!R!WalkEnd, Push!R!Dispatch,
       Push!R!DispatchEnd, Push!R!Collect, Push!R!ReadFile, Push!R!SendResult
<1>2. CASE ReadError
  BY <1>2 DEF ReadError, Push!ReadError, Push!readerVars, Push!worldVars
<1>3. CASE PushStep
  <2>1. /\ pc = "push" /\ UNCHANGED <<vars, pushTree>>
        /\ \/ Push!P!Start \/ Push!P!PushLevel \/ Push!P!PushRest \/ Push!P!Finish
           \/ \E r \in group : Push!P!PushStep(r)
    BY <1>3 DEF PushStep, Push!Push, Push!readerVars
  <2>2. CASE Push!P!Start \/ Push!P!PushLevel \/ Push!P!PushRest \/ Push!P!Finish
    BY <2>1, <2>2 DEF Push!P!Start, Push!P!PushLevel, Push!P!PushRest, Push!P!Finish, Push!P!World
  <2>3. CASE \E r \in group : Push!P!PushStep(r)
    <3>1. PICK r \in group : Push!P!PushStep(r)
      BY <2>3
    <3>2. CASE Push!P!Written(r)
      <4>1. author' = [author EXCEPT ![Push!P!Key(r)] = r] \/ author' = author
        BY <3>2 DEF Push!P!Written
      <4>2. request' = request
        BY <3>2 DEF Push!P!Written
      <4> QED
        BY <2>1, <4>1, <4>2
    <3>3. CASE ~Push!P!Written(r)
      <4>1. UNCHANGED <<request, author>>
        BY <3>1, <3>3 DEF Push!P!PushStep, Push!P!Begin, Push!P!RequestError, Push!P!Get,
           Push!P!SendWrite, Push!P!Refused, Push!P!ReturnError, Push!P!World
      <4> QED
        BY <2>1, <4>1
    <3> QED
      BY <3>2, <3>3
  <2> QED
    BY <2>1, <2>2, <2>3
<1>4. CASE Others
  <2>1. PICK k : Push!P!EditByOthers(k)
    BY <1>4 DEF Others, Push!Others
  <2>2. author' = [author EXCEPT ![k] = Push!P!Others] /\ request' = request
    BY <2>1 DEF Push!P!EditByOthers
  <2> QED
    BY <1>4, <2>2 DEF Others, Push!Others, Push!readerVars
<1> QED
  BY <1>1, <1>2, <1>3, <1>4

LEMMA BackupsPull == CaseInv /\ command.then = "push" => command.name = "pull"
<1>1. command = NoPush => command.then = "nothing"
    BY DEF NoPush
<1>2. IsCase([disc |-> disc, files |-> tree, command |-> command])
         => (command.then = "push" => command.name = "pull")
    BY DEF IsCase
<1> QED
    BY <1>1, <1>2 DEF CaseInv

LEMMA FollowSame ==
    ASSUME FollowInv, command' = command, Follows' => Follows,
           UNCHANGED <<disc, files, exit, edits, faults, pushTree, request>>,
           DOMAIN remote' = DOMAIN remote, DOMAIN author' = DOMAIN author
    PROVE  FollowInv'
    BY DEF FollowInv, SupportedTypes, Index, Decoded

LEMMA FollowStays ==
    ASSUME FollowInv, CopyInv, PullDeleteIInv, PhaseInv, [CommandsNext]_commandVars
    PROVE  FollowInv'
<1>1. command' = command /\ DOMAIN remote' = DOMAIN remote
    BY Undisturbed DEF CopyInv
<1>2. SUFFICES ASSUME Follows' PROVE FollowInv'
    BY DEF FollowInv
<1>3. command.name = "pull"
    BY <1>1, <1>2, BackupsPull DEF Follows, PullDeleteIInv
<1>4. pc # "editor"
    BY <1>3 DEF PullDeleteIInv, FilesInv
<1>5. CASE Command \/ World
  <2>1. pc # "push" /\ phase' = phase /\ pc \notin {"push", "done"}
    <3>1. pc # "push" /\ phase' = phase
      BY <1>5 DEF Command, World, pushVars, pusherVars
    <3>2. CASE Command
      <4>1. pc \in {"parse", "fetch", "read", "write", "delete", "print", "editor"}
        BY <3>2 DEF Command, Step, Refuse, DiscoveryFails, Discover, List, Get, NextRound,
           FetchFails, FetchAborted, Collect, Unwritable, Open, Encode, Report, Read, Send,
           Deleted, DeleteFails
      <4> QED
        BY <3>1, <4>1
    <3>3. CASE World
      BY <3>1, <3>3 DEF World, OthersEdit, Killed
    <3> QED
      BY <1>5, <3>1, <3>2, <3>3
  <2>2. phase' = "idle"
    BY <2>1 DEF PhaseInv
  <2>3. pc' # "push"
    <3>1. command.name \in {"pull"}
      BY <1>3
    <3>2. CASE Command
      BY <2>1, <3>1, <3>2 DEF Command, Step, Refuse, DiscoveryFails, Discover, List, Get, NextRound,
           FetchFails, FetchAborted, Collect, Unwritable, Open, Encode, WriteFails, Report, Read, Send,
           Deleted, DeleteFails, Ends, Proceed
    <3>3. CASE World
      BY <2>1, <3>3 DEF World, OthersEdit, Killed, Ends
    <3> QED
      BY <1>5, <3>2, <3>3
  <2> QED
    BY <1>2, <2>2, <2>3 DEF Follows
<1>6. CASE PushFollows
    BY <1>6, FollowBegins
<1>7. CASE EditorFails \/ EditCancelled \/ EditSaved
    BY <1>4, <1>7 DEF EditorFails, EditCancelled, EditSaved
<1>8. CASE ReadTree \/ ReadError \/ PushStep \/ Others
  <2>1. /\ pc = "push" /\ UNCHANGED <<disc, files, exit, edits, faults, pushTree, request>>
        /\ DOMAIN author' = DOMAIN author
    BY <1>8, PushKeeps DEF vars, input, bounds
  <2>2. Follows
    BY <1>1, <1>2, <2>1 DEF Follows
  <2> QED
    BY <1>1, <2>1, <2>2, FollowSame
<1>9. CASE PushEnds \/ UNCHANGED commandVars
  <2>1. /\ pc' \in {"done", pc} /\ UNCHANGED <<disc, files, exit, edits, faults, pushTree, request, phase, author>>
    BY <1>9 DEF PushEnds, commandVars, vars, input, bounds, pushVars, pusherVars, inputOfPush, worldVars
  <2>2. Follows
    BY <1>1, <1>2, <2>1 DEF Follows
  <2> QED
    BY <1>1, <2>1, <2>2, FollowSame
<1> QED
    BY <1>5, <1>6, <1>7, <1>8, <1>9 DEF CommandsNext

LEMMA FollowInvariant == ASSUME CasesAreListed, BackupsAreSound PROVE CommandsSpec => []FollowInv
<1>1. CommandsInit => FollowInv
  <2>1. Init => pc = "parse"
    BY DEF Init
  <2>2. CommandsInit => phase = "idle"
    BY DEF CommandsInit, Push!Init, Push!P!Init
  <2>3. ~Init /\ CommandsInit => command.then = "nothing"
    BY DEF CommandsInit, NoPush
  <2> QED
    BY <2>1, <2>2, <2>3 DEF FollowInv, Follows
<1>2. FollowInv /\ CopyInv /\ PullDeleteIInv /\ PushIInv /\ [CommandsNext]_commandVars => FollowInv'
    BY FollowStays DEF PushIInv
<1> QED
    BY <1>1, <1>2, CopyInvariant, PullDeleteInvariant, PushInvariant, PTL DEF CommandsSpec

(* A push of a backup has ended, without a fault of its own.                *)
BackupPushed ==
    /\ pc = "done" /\ phase = "done" /\ command.then = "push"
    /\ ~faulty /\ ~request.dryRun /\ (\A p \in DOMAIN files : Pulled(p)) /\ FoldersKnown

BackupIInv == CopyInv /\ SoundInv /\ FollowInv /\ PullDeleteIInv /\ PushTypes

(* d is the copy of the object that the file p is of.                       *)
IsOf(d, p) ==
    /\ Push!R!Object(d) /\ d.kind = p[1] /\ d.uid = p[2] /\ d.version = files[p].version
    /\ d.parent = Folder(p[1], p[2]) /\ (d.foreign <=> files[p].manager = "other")

LEMMA BackupTree ==
    ASSUME BackupIInv, BackupPushed
    PROVE  /\ \A p \in DOMAIN files : Saved(files[p]) /\ Path(files[p]) = p
           /\ \A f \in DOMAIN pushTree : \E p \in DOMAIN files : IsOf(pushTree[f], p)
           /\ \A p \in DOMAIN files : \E f \in DOMAIN pushTree : IsOf(pushTree[f], p)
           /\ \A f, g \in DOMAIN pushTree :
                 <<pushTree[f].kind, pushTree[f].uid>> = <<pushTree[g].kind, pushTree[g].uid>> => f = g
<1>1. Follows /\ Backup
    BY DEF BackupPushed, BackupIInv, FollowInv, Follows, Backup
<1>2. ASSUME NEW p \in DOMAIN files
      PROVE  Saved(files[p]) /\ Path(files[p]) = p /\ IsOf(Decoded(files[p]), p)
  <2>1. files[p] # Cut /\ files[p].rev > 0
    BY DEF BackupPushed, Pulled
  <2>2. Path(files[p]) = p
    BY <2>1 DEF BackupIInv, PullDeleteIInv, TypeOK
  <2>3. Saved(files[p])
    BY <1>1, <2>1 DEF BackupIInv, CopyInv
  <2>4. PICK i : i = files[p]
    OBVIOUS
  <2>5. p = <<i.kind, i.name>> /\ i.kind = p[1] /\ i.name = p[2]
    BY <2>2, <2>4 DEF Path
  <2>6. PICK d : d = Decoded(i)
    OBVIOUS
  <2>7. d = [kind |-> i.kind, version |-> i.version, uid |-> i.name,
             parent |-> Folder(i.kind, i.name), foreign |-> i.manager = "other"]
    BY <2>1, <2>4, <2>6 DEF Decoded
  <2>8. "parent" \in DOMAIN d
    BY <2>7
  <2>9. Push!R!Object(d)
    BY <2>8 DEF Push!R!Object, Push!R!Missing, Push!R!Unreadable
  <2>10. /\ d.kind = i.kind /\ d.uid = i.name /\ d.version = i.version
         /\ d.parent = Folder(i.kind, i.name)
    BY <2>7
  <2>11. d.foreign <=> i.manager = "other"
    BY <2>7
  <2>12. IsOf(d, p)
    BY <2>4, <2>5, <2>9, <2>10, <2>11 DEF IsOf
  <2> QED
    BY <2>2, <2>3, <2>4, <2>6, <2>12
<1>3. /\ \A f \in DOMAIN pushTree : \E p \in DOMAIN files : pushTree[f] = Decoded(files[p])
      /\ \A p \in DOMAIN files : \E f \in DOMAIN pushTree : pushTree[f] = Decoded(files[p])
      /\ \A f, g \in DOMAIN pushTree : pushTree[f] = pushTree[g] => f = g
    BY <1>1 DEF BackupIInv, FollowInv
<1>4. /\ \A f \in DOMAIN pushTree : \E p \in DOMAIN files : IsOf(pushTree[f], p)
      /\ \A p \in DOMAIN files : \E f \in DOMAIN pushTree : IsOf(pushTree[f], p)
  <2>1. ASSUME NEW f \in DOMAIN pushTree PROVE \E p \in DOMAIN files : IsOf(pushTree[f], p)
    <3>1. PICK p \in DOMAIN files : pushTree[f] = Decoded(files[p])
      BY <1>3
    <3>2. PICK d : d = Decoded(files[p])
      OBVIOUS
    <3>3. IsOf(d, p) /\ pushTree[f] = d
      BY <1>2, <3>1, <3>2
    <3> QED
      BY <3>3
  <2>2. ASSUME NEW p \in DOMAIN files PROVE \E f \in DOMAIN pushTree : IsOf(pushTree[f], p)
    <3>1. PICK f \in DOMAIN pushTree : pushTree[f] = Decoded(files[p])
      BY <1>3
    <3>2. PICK d : d = Decoded(files[p])
      OBVIOUS
    <3>3. IsOf(d, p) /\ pushTree[f] = d
      BY <1>2, <3>1, <3>2
    <3> QED
      BY <3>3
  <2> QED
    BY <2>1, <2>2
<1>5. ASSUME NEW f \in DOMAIN pushTree, NEW g \in DOMAIN pushTree,
             <<pushTree[f].kind, pushTree[f].uid>> = <<pushTree[g].kind, pushTree[g].uid>>
      PROVE  f = g
  <2>1. PICK p \in DOMAIN files : pushTree[f] = Decoded(files[p])
    BY <1>3
  <2>2. PICK q \in DOMAIN files : pushTree[g] = Decoded(files[q])
    BY <1>3
  <2>3. PICK d, e : d = Decoded(files[p]) /\ e = Decoded(files[q])
    OBVIOUS
  <2>4. IsOf(d, p) /\ IsOf(e, q)
    BY <1>2, <2>3
  <2>5. p[1] = q[1] /\ p[2] = q[2]
    BY <1>5, <2>1, <2>2, <2>3, <2>4 DEF IsOf
  <2>6. p = <<files[p].kind, files[p].name>> /\ q = <<files[q].kind, files[q].name>>
    BY <1>2 DEF Path
  <2>7. p = <<p[1], p[2]>> /\ q = <<q[1], q[2]>>
    BY <2>6
  <2>8. p = q
    BY <2>5, <2>7
  <2> QED
    BY <1>3, <2>1, <2>2, <2>8
<1> QED
    BY <1>2, <1>4, <1>5

LEMMA BackupIsPushable ==
    ASSUME BackupIInv, BackupPushed
    PROVE  Push!Pushable
<1>1. /\ \A p \in DOMAIN files : Saved(files[p]) /\ Path(files[p]) = p
      /\ \A f \in DOMAIN pushTree : \E p \in DOMAIN files : IsOf(pushTree[f], p)
      /\ \A p \in DOMAIN files : \E f \in DOMAIN pushTree : IsOf(pushTree[f], p)
      /\ \A f, g \in DOMAIN pushTree :
            <<pushTree[f].kind, pushTree[f].uid>> = <<pushTree[g].kind, pushTree[g].uid>> => f = g
    BY BackupTree
<1>2. request.supported = SupportedTypes
    BY DEF BackupIInv, FollowInv, Follows, BackupPushed
<1>3. \A p \in DOMAIN files : files[p].kind = p[1] /\ files[p].name = p[2]
    BY <1>1 DEF Path
<1>4. ToSet(Index.resources) = Usable(disc)
  <2>1. command # NoPush
    BY DEF BackupPushed, NoPush
  <2>2. IsCase([disc |-> disc, files |-> tree, command |-> command])
    BY <2>1 DEF BackupIInv, PullDeleteIInv, CaseInv
  <2>3. disc.groups \in Seq(Groups) /\ disc.resources \in Seq(ResourceTypes)
    BY <2>2 DEF IsCase
  <2> QED
    BY <2>3, IndexHas
<1>5. ASSUME NEW f \in DOMAIN pushTree
      PROVE  /\ Push!R!Object(pushTree[f])
             /\ <<pushTree[f].kind, pushTree[f].version>> \in request.supported
             /\ \/ pushTree[f].kind # "Folder" \/ pushTree[f].parent = NoParent
                \/ \E g \in DOMAIN pushTree : /\ pushTree[g].kind = "Folder"
                                              /\ pushTree[g].uid = pushTree[f].parent
                                              /\ Push!Goes(g)
  <2>1. PICK p \in DOMAIN files : IsOf(pushTree[f], p)
    BY <1>1
  <2>2. <<pushTree[f].kind, pushTree[f].version>> \in request.supported
    <3>1. PICK i : i = files[p]
      OBVIOUS
    <3>2. Provided(i.group, i.version, i.kind)
      BY <1>1, <3>1 DEF Saved, Copied
    <3>3. PICK r \in ToSet(Index.resources) : r.version = i.version /\ r.kind = i.kind
      BY <1>4, <3>2 DEF Provided
    <3>4. <<r.kind, r.version>> \in SupportedTypes
      BY <3>3 DEF SupportedTypes
    <3> QED
      BY <1>2, <1>3, <2>1, <3>1, <3>3, <3>4 DEF IsOf
  <2>3. ASSUME pushTree[f].kind = "Folder", pushTree[f].parent # NoParent
        PROVE  \E g \in DOMAIN pushTree : /\ pushTree[g].kind = "Folder"
                                          /\ pushTree[g].uid = pushTree[f].parent
                                          /\ Push!Goes(g)
    <3>1. PICK up : up = <<"Folder", Folder(p[1], p[2])>>
      OBVIOUS
    <3>2. up \in DOMAIN files /\ (files[up].manager = "other" => request.includeManaged)
      BY <2>1, <2>3, <3>1 DEF IsOf, BackupPushed, FoldersKnown
    <3>3. PICK g \in DOMAIN pushTree : IsOf(pushTree[g], up)
      BY <1>1, <3>2
    <3>4. up[1] = "Folder" /\ up[2] = Folder(p[1], p[2])
      BY <3>1
    <3> QED
      BY <2>1, <3>2, <3>3, <3>4 DEF IsOf, Push!Goes
  <2> QED
    BY <2>1, <2>2, <2>3 DEF IsOf
<1>6. Push!Acyclic(Push!P!Folders)
  <2>1. ASSUME NEW ns \in (SUBSET Push!P!Folders) \ {{}}
        PROVE  \E r \in ns : Push!P!ParentsIn(r, ns) = {}
    <3> DEFINE names == {Push!P!Uid(r) : r \in ns}
               all == {o[3] : o \in {q \in DOMAIN remote : q[2] = "Folder"}}
    <3>1. ASSUME NEW r \in ns
          PROVE  Push!P!Uid(r) \in all /\ Push!P!Parent(r) = Folder("Folder", Push!P!Uid(r))
      <4>1. r \in DOMAIN read /\ r[1] = "Folder"
        BY DEF Push!P!Folders, Push!P!Refs, Push!P!IsFolder
      <4>2. read[r] \in Push!Objects /\ Push!R!Ref(read[r]) = r
        BY <4>1 DEF BackupIInv, PushTypes, TreeTypes
      <4>3. PICK f \in DOMAIN pushTree : read[r] = pushTree[f]
        BY <4>2 DEF Push!Objects, Push!Files
      <4>4. PICK p \in DOMAIN files : IsOf(pushTree[f], p)
        BY <1>1
      <4>5. p[1] = "Folder" /\ p[2] = r[3] /\ read[r].parent = Folder("Folder", r[3])
        BY <4>1, <4>2, <4>3, <4>4 DEF IsOf, Push!R!Ref
      <4>6. PICK i : i = files[p]
        OBVIOUS
      <4>7. PICK o : o = Object(i)
        OBVIOUS
      <4>8. o \in DOMAIN remote
        BY <1>1, <4>6, <4>7 DEF Saved, Copied
      <4>9. o[2] = "Folder" /\ o[3] = r[3]
        BY <1>3, <4>5, <4>6, <4>7 DEF Object
      <4> QED
        BY <4>5, <4>8, <4>9 DEF Push!P!Uid, Push!P!Parent
    <3>2. PICK ms : ms = names
      OBVIOUS
    <3>3. ms \in (SUBSET all) \ {{}}
      BY <3>1, <3>2
    <3>4. PICK n \in ms : Folder("Folder", n) \notin ms
      <4> HIDE DEF names
      <4> QED
        BY <3>3 DEF BackupIInv, SoundInv, BackupPushed
    <3>5. PICK r \in ns : n = Push!P!Uid(r)
      BY <3>2
    <3>6. Push!P!ParentsIn(r, ns) = {}
      BY <3>1, <3>2, <3>4, <3>5 DEF Push!P!ParentsIn
    <3> QED
      BY <3>6
  <2> QED
    BY <2>1 DEF Push!Acyclic
<1> QED
    BY <1>1, <1>5, <1>6 DEF Push!Pushable, Push!Files

(* With onError at fail or abort, what a pull was asked for is in its files.*)
LEMMA BackupIsWhole ==
    ASSUME BackupIInv, BackupPushed, ExitZeroIsComplete,
           NEW o \in DOMAIN remote, Exists(o), Wanted(o),
           remote[o].manager = "other" => command.includeManaged
    PROVE  <<o[2], o[3]>> \in DOMAIN files /\ Object(files[<<o[2], o[3]>>]) = o
<1>1. Follows
    BY DEF BackupPushed, Follows
<1>2. exit = "0" /\ Backup /\ faults = 0
    BY <1>1 DEF BackupIInv, FollowInv, Backup, BackupPushed
<1>3. touched = {} /\ lost = {} /\ FailOnErrors
    BY <1>2 DEF BackupIInv, CopyInv, SoundInv, Backup
<1>4. command.name = "pull" /\ ~command.path
  <2>1. command # NoPush /\ command.name = "pull"
    BY BackupsPull DEF BackupPushed, NoPush, BackupIInv, PullDeleteIInv
  <2>2. IsCase([disc |-> disc, files |-> tree, command |-> command])
    BY <2>1 DEF BackupIInv, PullDeleteIInv, CaseInv
  <2>3. command.path => command.name = "delete"
    BY <2>2 DEF IsCase
  <2> QED
    BY <2>1, <2>3
<1>5. PICK p : p = <<o[2], o[3]>>
    OBVIOUS
<1>6. p \in DOMAIN files
    BY <1>2, <1>3, <1>4, <1>5 DEF ExitZeroIsComplete, Untouched
<1>7. PICK i : i = files[p]
    OBVIOUS
<1>8. Saved(i) /\ Path(i) = p
    BY <1>6, <1>7, BackupTree
<1>9. PICK q : q = Object(i)
    OBVIOUS
<1>10. q \in DOMAIN remote /\ q[2] = o[2] /\ q[3] = o[3]
  <2>1. i.kind = o[2] /\ i.name = o[3]
    BY <1>5, <1>8 DEF Path
  <2>2. q[2] = i.kind /\ q[3] = i.name
    BY <1>9 DEF Object
  <2>3. q \in DOMAIN remote
    BY <1>8, <1>9 DEF Saved, Copied
  <2> QED
    BY <2>1, <2>2, <2>3
<1>11. q = o
    BY <1>10 DEF BackupIInv, SoundInv, BackupPushed
<1> QED
    BY <1>5, <1>6, <1>7, <1>9, <1>11

(* A push of what a pull has written, without faults and other users, back  *)
(* to the Grafana it came from or to one that has lost all of it, restores  *)
(* exactly what both were asked for, in the versions it is stored in.       *)
THEOREM BackupsRoundTrip ==
    ASSUME CasesAreListed, BackupsAreSound
    PROVE  CommandsSpec => []RoundTrip
<1>1. BackupIInv /\ ExitZeroIsComplete /\ PushReportIsTrue => RoundTrip
  <2> SUFFICES ASSUME BackupIInv, ExitZeroIsComplete, PushReportIsTrue, BackupPushed
               PROVE  /\ result = "nil" /\ pushFailed = 0
                      /\ \A o \in DOMAIN remote :
                            IF /\ Exists(o) /\ Wanted(o)
                               /\ remote[o].manager = "other" =>
                                     command.includeManaged /\ request.includeManaged
                            THEN Restored(o) \in {<<o[2], v, o[3]>> :
                                     v \in IF remote[o].stored = "" THEN {f.version : f \in ToSet(filters)}
                                           ELSE {remote[o].stored}}
                            ELSE Restored(o) = Push!P!Others
    BY DEF RoundTrip, BackupPushed
  <2>1. /\ result = "nil" /\ pushFailed = 0
        /\ \A f \in DOMAIN pushTree : Push!Goes(f) =>
              author[<<pushTree[f].kind, pushTree[f].uid>>] = Push!R!Ref(pushTree[f])
        /\ \A k \in DOMAIN author :
              \/ author[k] = Push!P!Others
              \/ \E f \in DOMAIN pushTree :
                    Push!Goes(f) /\ k = <<pushTree[f].kind, pushTree[f].uid>>
    BY BackupIsPushable DEF PushReportIsTrue, Push!CleanPushSucceeds, BackupPushed, Push!Files
  <2>2. /\ \A p \in DOMAIN files : Saved(files[p]) /\ Path(files[p]) = p
        /\ \A f \in DOMAIN pushTree : \E p \in DOMAIN files : IsOf(pushTree[f], p)
        /\ \A p \in DOMAIN files : \E f \in DOMAIN pushTree : IsOf(pushTree[f], p)
    BY BackupTree
  <2>3. ASSUME NEW o \in DOMAIN remote, Exists(o), Wanted(o),
               remote[o].manager = "other" => command.includeManaged /\ request.includeManaged
        PROVE  Restored(o) \in {<<o[2], v, o[3]>> :
                   v \in IF remote[o].stored = "" THEN {f.version : f \in ToSet(filters)}
                         ELSE {remote[o].stored}}
    <3>1. PICK p : p = <<o[2], o[3]>>
      OBVIOUS
    <3>2. p \in DOMAIN files /\ Object(files[p]) = o
      BY <2>3, <3>1, BackupIsWhole
    <3>3. PICK i : i = files[p]
      OBVIOUS
    <3>4. PICK f \in DOMAIN pushTree : IsOf(pushTree[f], p)
      BY <2>2, <3>2
    <3>5. /\ i.version \in IF remote[o].stored = "" THEN {g.version : g \in ToSet(filters)}
                           ELSE {remote[o].stored}
          /\ (i.manager = "other" <=> remote[o].manager = "other")
      BY <2>2, <3>2, <3>3 DEF Saved, Copied
    <3>6. /\ pushTree[f].kind = o[2] /\ pushTree[f].uid = o[3] /\ pushTree[f].version = i.version
          /\ (pushTree[f].foreign <=> i.manager = "other")
      BY <3>1, <3>3, <3>4 DEF IsOf
    <3>7. Push!Goes(f)
      BY <2>3, <3>5, <3>6 DEF Push!Goes
    <3>8. author[<<o[2], o[3]>>] = <<o[2], i.version, o[3]>>
      BY <2>1, <3>6, <3>7 DEF Push!R!Ref
    <3> QED
      BY <3>5, <3>8 DEF Restored
  <2>4. ASSUME NEW o \in DOMAIN remote, Restored(o) # Push!P!Others
        PROVE  /\ Exists(o) /\ Wanted(o)
               /\ remote[o].manager = "other" => command.includeManaged /\ request.includeManaged
    <3>1. <<o[2], o[3]>> \in DOMAIN author
      BY DEF BackupIInv, FollowInv, Follows, BackupPushed
    <3>2. PICK f \in DOMAIN pushTree : Push!Goes(f) /\ <<o[2], o[3]>> = <<pushTree[f].kind, pushTree[f].uid>>
      BY <2>1, <2>4, <3>1 DEF Restored
    <3>3. PICK p \in DOMAIN files : IsOf(pushTree[f], p)
      BY <2>2
    <3>4. PICK i : i = files[p]
      OBVIOUS
    <3>5. Saved(i) /\ Path(i) = p
      BY <2>2, <3>4
    <3>6. PICK q : q = Object(i)
      OBVIOUS
    <3>7. i.kind = p[1] /\ i.name = p[2]
      BY <3>5 DEF Path
    <3>8. q \in DOMAIN remote /\ q[2] = o[2] /\ q[3] = o[3]
      BY <3>2, <3>3, <3>5, <3>6, <3>7 DEF Saved, Copied, Object, IsOf
    <3>9. q = o
      BY <3>8 DEF BackupIInv, SoundInv, BackupPushed
    <3>10. Copied(i) /\ (i.manager = "other" => command.includeManaged)
      BY <3>5 DEF Saved
    <3>11. Exists(o) /\ Wanted(o) /\ (i.manager = "other" <=> remote[o].manager = "other")
      BY <3>6, <3>9, <3>10 DEF Copied
    <3>12. i.manager = "other" => request.includeManaged
      BY <3>2, <3>3, <3>4 DEF IsOf, Push!Goes
    <3> QED
      BY <3>10, <3>11, <3>12
  <2> QED
    BY <2>1, <2>3, <2>4
<1>2. CopyInv /\ SoundInv /\ FollowInv /\ PullDeleteIInv /\ PushTypes => BackupIInv
    BY DEF BackupIInv
<1> QED
    BY <1>1, <1>2, CopyInvariant, FollowInvariant, PullDeleteInvariant, TypesInvariant,
       ExitZeroMeansDone, PushReportsHold, PTL
=============================================================================
