------------------------- MODULE AlertCommandsProofs -------------------------
(***************************************************************************)
(* Theorems about AlertCommands: of pushes, rule operations and queries    *)
(* against one Grafana.                                                    *)
(***************************************************************************)
EXTENDS AlertCommands, TLAPS, FiniteSetTheorems

-----------------------------------------------------------------------------
(* Induction, for sets of numbers                                          *)

LEMMA Minimal ==
    ASSUME NEW R, NEW S, S \subseteq Nat, S # {},
           \A x, y \in Nat : <<x, y>> \in R <=> x < y, IsWellFoundedOn(R, Nat)
    PROVE  \E n \in S : \A m \in S : n <= m
<1>1. \E x \in S : \A y \in S : ~ (<<y, x>> \in R)
    BY ONLY WFMin, IsWellFoundedOn(R, Nat), S \subseteq Nat, S # {}
<1>2. PICK x \in S : \A y \in S : ~ (<<y, x>> \in R)
    BY <1>1
<1>3. ASSUME NEW m \in S PROVE x <= m
  <2>1. x \in Nat /\ m \in Nat
      OBVIOUS
  <2>2. ~ (m < x)
      BY <1>2, <2>1
  <2> QED BY <2>1, <2>2
<1> QED BY <1>3

\* A set of numbers that is not empty has a least element.
LEMMA Least ==
    ASSUME NEW S, S \subseteq Nat, S # {}
    PROVE  \E n \in S : \A m \in S : n <= m
<1>1. IsWellFoundedOn(OpToRel(<, Nat), Nat)
    BY NatLessThanWellFounded
<1>2. \A x, y \in Nat : <<x, y>> \in OpToRel(<, Nat) <=> x < y
    BY DEF OpToRel
<1> QED BY <1>1, <1>2, Minimal

LEMMA Induction ==
    ASSUME NEW S, 0 \in S, \A n \in Nat : n \in S => n + 1 \in S
    PROVE  Nat \subseteq S
<1> DEFINE T == Nat \ S
<1>1. CASE T = {}
    BY <1>1
<1>2. CASE T # {}
  <2>1. PICK n \in T : \A m \in T : n <= m
      BY <1>2, Least
  <2>2. n # 0 /\ n \in Nat
      OBVIOUS
  <2>3. n - 1 \in Nat /\ n - 1 + 1 = n
      BY <2>2
  <2>4. n - 1 \in S
      BY <2>1, <2>3
  <2> QED BY <2>1, <2>3, <2>4
<1> QED BY <1>1, <1>2

-----------------------------------------------------------------------------
(* The elements of a sequence at some of its positions                     *)

\* What Those makes: after the first n positions.
Growing(f, n, seq, kept) ==
    f = [i \in 0..n |->
            IF i = 0 THEN <<>>
            ELSE IF i \in kept THEN Append(f[i - 1], seq[i]) ELSE f[i - 1]]

LEMMA Grows ==
    ASSUME NEW seq, NEW kept, NEW n \in Nat
    PROVE  \E f : Growing(f, n, seq, kept)
<1> DEFINE S == {m \in Nat : \E f : Growing(f, m, seq, kept)}
<1>1. 0 \in S
  <2> DEFINE f == [i \in 0..0 |-> <<>>]
  <2>1. Growing(f, 0, seq, kept)
      BY DEF Growing
  <2> QED BY <2>1
<1>2. ASSUME NEW m \in Nat, m \in S PROVE m + 1 \in S
  <2>1. PICK f : Growing(f, m, seq, kept)
      BY <1>2
  <2> DEFINE g == [i \in 0..(m + 1) |->
                      IF i = m + 1
                      THEN IF m + 1 \in kept THEN Append(f[m], seq[m + 1]) ELSE f[m]
                      ELSE f[i]]
  <2>2. \A i \in 0..(m + 1) : i = m + 1 \/ i \in 0..m
      OBVIOUS
  <2>3. Growing(g, m + 1, seq, kept)
    <3> DEFINE h == [i \in 0..(m + 1) |->
                        IF i = 0 THEN <<>>
                        ELSE IF i \in kept THEN Append(g[i - 1], seq[i]) ELSE g[i - 1]]
    <3>1. ASSUME NEW i \in 0..(m + 1) PROVE g[i] = h[i]
      <4>1. CASE i = m + 1
        <5>1. i # 0 /\ i - 1 = m /\ m \in 0..(m + 1) /\ m # m + 1
            BY <4>1
        <5> QED BY <4>1, <5>1
      <4>2. CASE i \in 0..m /\ i = 0
          BY <2>1, <4>2 DEF Growing
      <4>3. CASE i \in 0..m /\ i # 0
        <5>1. i - 1 \in 0..m /\ i - 1 \in 0..(m + 1) /\ i - 1 # m + 1 /\ i # m + 1
            BY <4>3
        <5>2. g[i - 1] = f[i - 1] /\ g[i] = f[i]
            BY <5>1
        <5>3. f[i] = IF i \in kept THEN Append(f[i - 1], seq[i]) ELSE f[i - 1]
            BY <2>1, <4>3 DEF Growing
        <5> QED BY <4>3, <5>2, <5>3
      <4> QED BY <2>2, <4>1, <4>2, <4>3
    <3>2. g = h
        BY <3>1
    <3> HIDE DEF g
    <3> QED BY <3>2 DEF Growing
  <2> QED BY <2>3
<1> HIDE DEF S
<1>3. Nat \subseteq S
    BY <1>1, <1>2, Induction
<1> QED BY <1>3 DEF S

\* Those takes one position after the other.
LEMMA ThoseGrows ==
    ASSUME NEW R, NEW seq \in Seq(R), NEW kept
    PROVE  \E f : /\ f[0] = <<>> /\ f[Len(seq)] = Those(seq, kept)
                  /\ \A n \in Nat : n + 1 <= Len(seq) =>
                        f[n + 1] = IF n + 1 \in kept THEN Append(f[n], seq[n + 1]) ELSE f[n]
<1> DEFINE f == CHOOSE f : Growing(f, Len(seq), seq, kept)
<1>0. Len(seq) \in Nat
    OBVIOUS
<1>1. Growing(f, Len(seq), seq, kept)
    BY <1>0, Grows
<1>2. Those(seq, kept) = f[Len(seq)]
    BY DEF Those, Growing
<1> HIDE DEF f
<1>3. f[0] = <<>>
    BY <1>0, <1>1 DEF Growing
<1>4. ASSUME NEW n \in Nat, n + 1 <= Len(seq)
      PROVE  f[n + 1] = IF n + 1 \in kept THEN Append(f[n], seq[n + 1]) ELSE f[n]
  <2>1. PICK i \in 0..Len(seq) : i = n + 1
      BY <1>0, <1>4
  <2>2. i # 0 /\ i - 1 = n
      BY <2>1
  <2>3. f[i] = IF i \in kept THEN Append(f[i - 1], seq[i]) ELSE f[i - 1]
      BY <1>1, <2>2 DEF Growing
  <2> QED BY <2>1, <2>2, <2>3
<1> QED BY <1>2, <1>3, <1>4

\* It takes the positions kept, each once and in their order.
Takes(l, n, R, seq, kept) ==
    \E m \in Nat : \E at \in [1..m -> 1..n] :
        /\ \A k \in 1..m : at[k] \in kept
        /\ \A j, k \in 1..m : j < k => at[j] < at[k]
        /\ \A i \in 1..n : i \in kept => \E k \in 1..m : at[k] = i
        /\ l \in Seq(R) /\ Len(l) = m /\ \A k \in 1..m : l[k] = seq[at[k]]

LEMMA TakesOn ==
    ASSUME NEW R, NEW seq \in Seq(R), NEW kept, NEW n \in Nat, n + 1 <= Len(seq), NEW l,
           Takes(l, n, R, seq, kept),
           NEW e, e = IF n + 1 \in kept THEN Append(l, seq[n + 1]) ELSE l
    PROVE  Takes(e, n + 1, R, seq, kept)
<1>1. PICK m \in Nat : \E at \in [1..m -> 1..n] :
        /\ \A k \in 1..m : at[k] \in kept
        /\ \A j, k \in 1..m : j < k => at[j] < at[k]
        /\ \A i \in 1..n : i \in kept => \E k \in 1..m : at[k] = i
        /\ l \in Seq(R) /\ Len(l) = m /\ \A k \in 1..m : l[k] = seq[at[k]]
    BY DEF Takes
<1>2. PICK at \in [1..m -> 1..n] :
        /\ \A k \in 1..m : at[k] \in kept
        /\ \A j, k \in 1..m : j < k => at[j] < at[k]
        /\ \A i \in 1..n : i \in kept => \E k \in 1..m : at[k] = i
        /\ l \in Seq(R) /\ Len(l) = m /\ \A k \in 1..m : l[k] = seq[at[k]]
    BY <1>1
<1>3. CASE n + 1 \notin kept
  <2>1. at \in [1..m -> 1..(n + 1)]
      OBVIOUS
  <2>2. e = l
      BY <1>3
  <2>3. \A i \in 1..(n + 1) : i \in kept => i \in 1..n
      BY <1>3
  <2>4. \A i \in 1..(n + 1) : i \in kept => \E k \in 1..m : at[k] = i
      BY <1>2, <2>3
  <2>5. /\ \A k \in 1..m : at[k] \in kept
        /\ \A j, k \in 1..m : j < k => at[j] < at[k]
        /\ l \in Seq(R) /\ Len(l) = m /\ \A k \in 1..m : l[k] = seq[at[k]]
      BY <1>2
  <2>6. Takes(l, n + 1, R, seq, kept)
      BY <2>1, <2>4, <2>5 DEF Takes
  <2> QED BY <2>2, <2>6
<1>4. CASE n + 1 \in kept
  <2> DEFINE on == [k \in 1..(m + 1) |-> IF k = m + 1 THEN n + 1 ELSE at[k]]
  <2>0. \A k \in 1..(m + 1) : k = m + 1 \/ k \in 1..m
      OBVIOUS
  <2>1. \A k \in 1..m : k \in 1..(m + 1) /\ k # m + 1 /\ at[k] \in 1..n /\ at[k] \in 1..(n + 1)
      OBVIOUS
  <2>2. m + 1 \in 1..(m + 1) /\ n + 1 \in 1..(n + 1)
      OBVIOUS
  <2>3. on[m + 1] = n + 1 /\ \A k \in 1..m : on[k] = at[k]
      BY <2>1, <2>2
  <2>4. on \in [1..(m + 1) -> 1..(n + 1)]
      BY <2>0, <2>1, <2>2
  <2> HIDE DEF on
  <2>5. \A k \in 1..(m + 1) : on[k] \in kept
      BY <1>2, <1>4, <2>0, <2>3
  <2>6. ASSUME NEW j \in 1..(m + 1), NEW k \in 1..(m + 1), j < k PROVE on[j] < on[k]
    <3>1. j \in 1..m
        BY <2>6
    <3>2. CASE k = m + 1
        BY <2>1, <2>3, <3>1, <3>2
    <3>3. CASE k \in 1..m
        BY <1>2, <2>3, <2>6, <3>1, <3>3
    <3> QED BY <2>0, <3>2, <3>3
  <2>7. ASSUME NEW i \in 1..(n + 1), i \in kept PROVE \E k \in 1..(m + 1) : on[k] = i
    <3>1. CASE i = n + 1
        BY <2>2, <2>3, <3>1
    <3>2. CASE i \in 1..n
        BY <1>2, <2>1, <2>3, <2>7, <3>2
    <3> QED BY <3>1, <3>2
  <2>8. e = Append(l, seq[n + 1]) /\ seq[n + 1] \in R
      BY <1>4
  <2>9. e \in Seq(R) /\ Len(e) = m + 1 /\ e[m + 1] = seq[n + 1] /\ \A k \in 1..m : e[k] = l[k]
      BY <1>2, <2>8
  <2>10. \A k \in 1..(m + 1) : e[k] = seq[on[k]]
      BY <1>2, <2>0, <2>3, <2>9
  <2>11. m + 1 \in Nat
      OBVIOUS
  <2> QED BY <2>4, <2>5, <2>6, <2>7, <2>9, <2>10, <2>11 DEF Takes
<1> QED BY <1>3, <1>4

LEMMA ThoseTakes ==
    ASSUME NEW R, NEW seq \in Seq(R), NEW kept
    PROVE  Takes(Those(seq, kept), Len(seq), R, seq, kept)
<1>1. PICK f : /\ f[0] = <<>> /\ f[Len(seq)] = Those(seq, kept)
               /\ \A n \in Nat : n + 1 <= Len(seq) =>
                     f[n + 1] = IF n + 1 \in kept THEN Append(f[n], seq[n + 1]) ELSE f[n]
    BY ThoseGrows
<1> DEFINE S == {n \in Nat : n <= Len(seq) => Takes(f[n], n, R, seq, kept)}
<1>2. 0 \in S
  <2>1. [k \in 1..0 |-> 0] \in [1..0 -> 1..0]
      OBVIOUS
  <2>2. f[0] \in Seq(R) /\ Len(f[0]) = 0
      BY <1>1
  <2>3. Takes(f[0], 0, R, seq, kept)
      BY <2>1, <2>2 DEF Takes
  <2> QED BY <2>3
<1>3. ASSUME NEW n \in Nat, n \in S PROVE n + 1 \in S
  <2>1. SUFFICES ASSUME n + 1 <= Len(seq) PROVE Takes(f[n + 1], n + 1, R, seq, kept)
      OBVIOUS
  <2>2. n + 1 \in 1..Len(seq) /\ n + 1 - 1 = n
      BY <2>1
  <2>3. f[n + 1] = IF n + 1 \in kept THEN Append(f[n], seq[n + 1]) ELSE f[n]
      BY <1>1, <2>1
  <2>4. Takes(f[n], n, R, seq, kept)
      BY <1>3, <2>1
  <2> QED BY <2>1, <2>3, <2>4, TakesOn
<1> HIDE DEF S
<1>4. Nat \subseteq S
    BY <1>2, <1>3, Induction
<1>5. Len(seq) \in Nat /\ Len(seq) <= Len(seq)
    OBVIOUS
<1> QED BY <1>1, <1>4, <1>5 DEF S

\* Those of all positions are the sequence.
LEMMA ThoseAll ==
    ASSUME NEW R, NEW seq \in Seq(R), NEW kept, \A i \in DOMAIN seq : i \in kept
    PROVE  Those(seq, kept) = seq
<1>1. PICK f : /\ f[0] = <<>> /\ f[Len(seq)] = Those(seq, kept)
               /\ \A n \in Nat : n + 1 <= Len(seq) =>
                     f[n + 1] = IF n + 1 \in kept THEN Append(f[n], seq[n + 1]) ELSE f[n]
    BY ThoseGrows
<1> DEFINE S == {n \in Nat : n <= Len(seq) =>
                    f[n] \in Seq(R) /\ Len(f[n]) = n /\ \A k \in 1..n : f[n][k] = seq[k]}
<1>2. 0 \in S
  <2>1. f[0] \in Seq(R) /\ Len(f[0]) = 0
      BY <1>1
  <2> QED BY <2>1
<1>3. ASSUME NEW n \in Nat, n \in S PROVE n + 1 \in S
  <2>1. SUFFICES ASSUME n + 1 <= Len(seq)
                 PROVE  /\ f[n + 1] \in Seq(R) /\ Len(f[n + 1]) = n + 1
                        /\ \A k \in 1..(n + 1) : f[n + 1][k] = seq[k]
      OBVIOUS
  <2>2. n + 1 \in 1..Len(seq) /\ n + 1 - 1 = n /\ seq[n + 1] \in R /\ n + 1 \in kept
      BY <2>1
  <2>3. f[n + 1] = Append(f[n], seq[n + 1])
      BY <1>1, <2>1, <2>2
  <2>4. f[n] \in Seq(R) /\ Len(f[n]) = n /\ \A k \in 1..n : f[n][k] = seq[k]
      BY <1>3, <2>1
  <2> QED BY <2>2, <2>3, <2>4
<1> HIDE DEF S
<1>4. Nat \subseteq S
    BY <1>2, <1>3, Induction
<1>5. LET l == Those(seq, kept)
      IN  l \in Seq(R) /\ Len(l) = Len(seq) /\ \A k \in 1..Len(seq) : l[k] = seq[k]
    BY <1>1, <1>4 DEF S
<1> QED BY <1>5

\* What else is used of them.
LEMMA ThoseAre ==
    ASSUME NEW R, NEW seq \in Seq(R), NEW kept
    PROVE  /\ Those(seq, kept) \in Seq(R)
           /\ \A k \in DOMAIN Those(seq, kept) : \E i \in DOMAIN seq :
                 i \in kept /\ Those(seq, kept)[k] = seq[i]
           /\ (\A i \in DOMAIN seq : i \notin kept) => Those(seq, kept) = <<>>
<1> DEFINE l == Those(seq, kept)
<1>1. Takes(l, Len(seq), R, seq, kept)
    BY ThoseTakes
<1> HIDE DEF l
<1>2. PICK m \in Nat : \E at \in [1..m -> 1..Len(seq)] :
        /\ \A k \in 1..m : at[k] \in kept
        /\ \A j, k \in 1..m : j < k => at[j] < at[k]
        /\ \A i \in 1..Len(seq) : i \in kept => \E k \in 1..m : at[k] = i
        /\ l \in Seq(R) /\ Len(l) = m /\ \A k \in 1..m : l[k] = seq[at[k]]
    BY <1>1 DEF Takes
<1>3. PICK at \in [1..m -> 1..Len(seq)] :
        /\ \A k \in 1..m : at[k] \in kept
        /\ \A j, k \in 1..m : j < k => at[j] < at[k]
        /\ \A i \in 1..Len(seq) : i \in kept => \E k \in 1..m : at[k] = i
        /\ l \in Seq(R) /\ Len(l) = m /\ \A k \in 1..m : l[k] = seq[at[k]]
    BY <1>2
<1>4. DOMAIN l = 1..m /\ DOMAIN seq = 1..Len(seq)
    BY <1>3
<1>5. (\A i \in DOMAIN seq : i \notin kept) => m = 0
  <2> SUFFICES ASSUME \A i \in DOMAIN seq : i \notin kept, m # 0 PROVE FALSE
      OBVIOUS
  <2>1. 1 \in 1..m
      OBVIOUS
  <2> QED BY <1>3, <1>4, <2>1
<1>6. l \in Seq(R) /\ (Len(l) = 0 => l = <<>>)
    BY <1>3
<1>7. \A k \in DOMAIN l : \E i \in DOMAIN seq : i \in kept /\ l[k] = seq[i]
    BY <1>3, <1>4
<1> QED BY <1>3, <1>5, <1>6, <1>7 DEF l

LEMMA ThoseHave ==
    ASSUME NEW R, NEW seq \in Seq(R), NEW kept, NEW i \in DOMAIN seq, i \in kept
    PROVE  \E k \in DOMAIN Those(seq, kept) : Those(seq, kept)[k] = seq[i]
<1> DEFINE l == Those(seq, kept)
<1>1. Takes(l, Len(seq), R, seq, kept)
    BY ThoseTakes
<1> HIDE DEF l
<1>2. PICK m \in Nat : \E at \in [1..m -> 1..Len(seq)] :
        /\ \A k \in 1..m : at[k] \in kept
        /\ \A j, k \in 1..m : j < k => at[j] < at[k]
        /\ \A j \in 1..Len(seq) : j \in kept => \E k \in 1..m : at[k] = j
        /\ l \in Seq(R) /\ Len(l) = m /\ \A k \in 1..m : l[k] = seq[at[k]]
    BY <1>1 DEF Takes
<1>3. PICK at \in [1..m -> 1..Len(seq)] :
        /\ \A j \in 1..Len(seq) : j \in kept => \E k \in 1..m : at[k] = j
        /\ l \in Seq(R) /\ Len(l) = m /\ \A k \in 1..m : l[k] = seq[at[k]]
    BY <1>2
<1>4. DOMAIN l = 1..m /\ DOMAIN seq = 1..Len(seq)
    BY <1>3
<1>5. PICK k \in 1..m : at[k] = i
    BY <1>3, <1>4
<1>6. \E n \in DOMAIN l : l[n] = seq[i]
    BY <1>3, <1>4, <1>5
<1> QED BY <1>6 DEF l

-----------------------------------------------------------------------------
(* What Grafana makes of its rules                                         *)

\* A group without some of its rules.
LEMMA WithoutIs ==
    ASSUME NEW group \in GrafanaGroup, NEW uids
    PROVE  /\ Without(group, uids) \in GrafanaGroup
           /\ Without(group, uids).rules = <<>> => Without(group, uids) = NoGroup
           /\ \A k \in DOMAIN Without(group, uids).rules : \E i \in DOMAIN group.rules :
                 group.rules[i].uid \notin uids /\ Without(group, uids).rules[k] = group.rules[i]
           /\ \A i \in DOMAIN group.rules : group.rules[i].uid \notin uids =>
                 \E k \in DOMAIN Without(group, uids).rules :
                     Without(group, uids).rules[k] = group.rules[i]
<1> DEFINE kept == {i \in DOMAIN group.rules : group.rules[i].uid \notin uids}
           left == Those(group.rules, kept)
<1>1. group.rules \in Seq(GrafanaRule) /\ group.interval \in Nat
    BY DEF GrafanaGroup
<1>2. /\ left \in Seq(GrafanaRule)
      /\ \A k \in DOMAIN left : \E i \in DOMAIN group.rules : i \in kept /\ left[k] = group.rules[i]
      /\ \A i \in DOMAIN group.rules : i \in kept => \E k \in DOMAIN left : left[k] = group.rules[i]
  <2> HIDE DEF kept
  <2>1. left \in Seq(GrafanaRule)
      BY <1>1, ThoseAre
  <2>2. \A k \in DOMAIN left : \E i \in DOMAIN group.rules : i \in kept /\ left[k] = group.rules[i]
      BY <1>1, ThoseAre
  <2>3. ASSUME NEW i \in DOMAIN group.rules, i \in kept PROVE \E k \in DOMAIN left : left[k] = group.rules[i]
      BY <1>1, <2>3, ThoseHave
  <2> QED BY <2>1, <2>2, <2>3
<1>3. Without(group, uids) = IF left = <<>> THEN NoGroup ELSE [group EXCEPT !.rules = left]
    BY DEF Without
<1> HIDE DEF left
<1>4. CASE left = <<>>
  <2>1. \A i \in DOMAIN group.rules : i \notin kept
      BY <1>2, <1>4
  <2>2. NoGroup \in GrafanaGroup /\ NoGroup.rules = <<>>
      BY DEF NoGroup, GrafanaGroup
  <2> QED BY <1>3, <1>4, <2>1, <2>2
<1>5. CASE left # <<>>
  <2> DEFINE w == [group EXCEPT !.rules = left]
  <2>1. Without(group, uids) = w
      BY <1>3, <1>5
  <2>2. w \in GrafanaGroup /\ w.rules = left
      BY <1>1, <1>2 DEF GrafanaGroup
  <2> HIDE DEF w
  <2> QED BY <1>2, <1>5, <2>1, <2>2
<1> QED BY <1>4, <1>5

\* One that holds none of them is as it was.
LEMMA WithoutNone ==
    ASSUME NEW group \in GrafanaGroup, NEW uids, group.rules = <<>> => group = NoGroup,
           \A i \in DOMAIN group.rules : group.rules[i].uid \notin uids
    PROVE  Without(group, uids) = group
<1> DEFINE kept == {i \in DOMAIN group.rules : group.rules[i].uid \notin uids}
           left == Those(group.rules, kept)
<1>1. group.rules \in Seq(GrafanaRule)
    BY DEF GrafanaGroup
<1>2. left = group.rules
    BY <1>1, ThoseAll
<1>3. Without(group, uids) = IF left = <<>> THEN NoGroup ELSE [group EXCEPT !.rules = left]
    BY DEF Without
<1> HIDE DEF left
<1>4. [group EXCEPT !.rules = group.rules] = group
    BY DEF GrafanaGroup
<1> QED BY <1>2, <1>3, <1>4

\* No rule appears twice in it.
LEMMA WithoutApart ==
    ASSUME NEW group \in GrafanaGroup, NEW uids,
           \A i, j \in DOMAIN group.rules : group.rules[i].uid = group.rules[j].uid => i = j
    PROVE  LET rules_ == Without(group, uids).rules
           IN  \A k, l \in DOMAIN rules_ : rules_[k].uid = rules_[l].uid => k = l
<1> DEFINE kept == {i \in DOMAIN group.rules : group.rules[i].uid \notin uids}
           left == Those(group.rules, kept)
<1>1. group.rules \in Seq(GrafanaRule) /\ group.interval \in Nat
    BY DEF GrafanaGroup
<1>2. Takes(left, Len(group.rules), GrafanaRule, group.rules, kept)
    BY <1>1, ThoseTakes
<1>3. Without(group, uids) = IF left = <<>> THEN NoGroup ELSE [group EXCEPT !.rules = left]
    BY DEF Without
<1> HIDE DEF left
<1>4. \A k, l \in DOMAIN left : left[k].uid = left[l].uid => k = l
  <2>1. PICK m \in Nat : \E at \in [1..m -> 1..Len(group.rules)] :
          /\ \A k \in 1..m : at[k] \in kept
          /\ \A j, k \in 1..m : j < k => at[j] < at[k]
          /\ \A i \in 1..Len(group.rules) : i \in kept => \E k \in 1..m : at[k] = i
          /\ left \in Seq(GrafanaRule) /\ Len(left) = m
          /\ \A k \in 1..m : left[k] = group.rules[at[k]]
      BY <1>2 DEF Takes
  <2>2. PICK at \in [1..m -> 1..Len(group.rules)] :
          /\ \A j, k \in 1..m : j < k => at[j] < at[k]
          /\ left \in Seq(GrafanaRule) /\ Len(left) = m
          /\ \A k \in 1..m : left[k] = group.rules[at[k]]
      BY <2>1
  <2>3. SUFFICES ASSUME NEW k \in 1..m, NEW l \in 1..m, left[k].uid = left[l].uid PROVE k = l
      BY <2>2
  <2>4. at[k] = at[l]
    <3>1. at[k] \in DOMAIN group.rules /\ at[l] \in DOMAIN group.rules
        BY <1>1
    <3>2. left[k] = group.rules[at[k]] /\ left[l] = group.rules[at[l]]
        BY <2>2
    <3> QED BY <2>3, <3>1, <3>2
  <2>5. ~(k < l) /\ ~(l < k)
      BY <2>2, <2>4
  <2> QED BY <2>5
<1>5. CASE left = <<>>
    BY <1>3, <1>5 DEF NoGroup
<1>6. CASE left # <<>>
  <2>1. Without(group, uids).rules = left
      BY <1>1, <1>3, <1>6 DEF GrafanaGroup
  <2> QED BY <1>4, <2>1
<1> QED BY <1>5, <1>6

LEMMA WithoutHeld ==
    ASSUME NEW bundle, NEW g, NEW group, HeldIn(bundle, g, group), NEW uids
    PROVE  HeldIn(bundle, g, Without(group, uids))
<1>1. group \in GrafanaGroup
    BY DEF HeldIn
<1> DEFINE w == Without(group, uids)
<1>2. w \in GrafanaGroup /\ (w.rules = <<>> => w = NoGroup)
    BY <1>1, WithoutIs
<1>3. \A k, l \in DOMAIN w.rules : w.rules[k].uid = w.rules[l].uid => k = l
    BY <1>1, WithoutApart DEF HeldIn
<1>4. \A k \in DOMAIN w.rules : MayHold(bundle, g, w.rules[k].uid)
    BY <1>1, WithoutIs DEF HeldIn
<1> HIDE DEF w
<1>5. HeldIn(bundle, g, w)
    BY <1>2, <1>3, <1>4 DEF HeldIn
<1> QED BY <1>5 DEF w

\* What a group may be replaced with.
Fits(bundle, g, group) ==
    /\ group.interval \in Nat /\ group.rules \in Seq(BundleRule)
    /\ \A i, j \in DOMAIN group.rules :
          Stored(group.rules[i], "omit").uid = Stored(group.rules[j], "omit").uid => i = j
    /\ \A i \in DOMAIN group.rules :
          /\ MayHold(bundle, g, Stored(group.rules[i], "omit").uid)
          /\ group.rules[i].uid = NoUid =>
                \A h : MayHold(bundle, h, group.rules[i].title) => h = g

LEMMA StoredIs ==
    ASSUME NEW r \in BundleRule, NEW header
    PROVE  /\ Stored(r, header) \in GrafanaRule
           /\ Stored(r, header).uid = Stored(r, "omit").uid
           /\ Stored(r, header).uid = IF r.uid = NoUid THEN r.title ELSE r.uid
           /\ Stored(r, header).title = r.title /\ Stored(r, header).val = r.val
           /\ Stored(r, header).paused = r.paused /\ Stored(r, header).prov = Stamp(header)
<1>1. /\ Stored(r, header).uid = IF r.uid = NoUid THEN r.title ELSE r.uid
      /\ Stored(r, header).title = r.title /\ Stored(r, header).val = r.val
      /\ Stored(r, header).paused = r.paused /\ Stored(r, header).prov = Stamp(header)
    BY DEF Stored
<1>2. Stored(r, "omit").uid = IF r.uid = NoUid THEN r.title ELSE r.uid
    BY DEF Stored
<1>3. /\ r.uid \in Texts /\ r.title \in Texts \ {NoUid} /\ r.val \in Nat /\ r.paused \in BOOLEAN
  <2>1. r.uid \in Texts
      BY DEF BundleRule
  <2>2. r.title \in Texts \ {NoUid}
      BY DEF BundleRule
  <2>3. r.val \in Nat
      BY DEF BundleRule
  <2>4. r.paused \in BOOLEAN
      BY DEF BundleRule
  <2> QED BY <2>1, <2>2, <2>3, <2>4
<1>5. Stamp(header) \in Texts
    BY TextsAssumption DEF Stamp
<1>4. Stored(r, header) \in GrafanaRule
    BY <1>3, <1>5 DEF Stored, GrafanaRule
<1> QED BY <1>1, <1>2, <1>4

\* The group that a PUT leaves.
LEMMA PutIs ==
    ASSUME NEW gs, NEW g \in DOMAIN gs, NEW group, NEW header, group.interval \in Nat,
           group.rules \in Seq(BundleRule)
    PROVE  LET put == PutGroup(gs, g, group, header)
           IN  /\ DOMAIN put = DOMAIN gs
               /\ put[g] \in GrafanaGroup
               /\ put[g].rules = <<>> => put[g] = NoGroup
               /\ group.rules # <<>> => put[g].interval = group.interval
               /\ DOMAIN put[g].rules = DOMAIN group.rules
               /\ \A i \in DOMAIN group.rules : put[g].rules[i] = Stored(group.rules[i], header)
               /\ \A h \in DOMAIN gs \ {g} : put[h] = Without(gs[h], Uids(group.rules))
<1> DEFINE put == PutGroup(gs, g, group, header)
           stored == [i \in DOMAIN group.rules |-> Stored(group.rules[i], header)]
<1>1. DOMAIN put = DOMAIN gs /\ \A h \in DOMAIN gs \ {g} : put[h] = Without(gs[h], Uids(group.rules))
    BY DEF PutGroup
<1>2. put[g] = IF group.rules = <<>> THEN NoGroup
               ELSE [interval |-> group.interval, rules |-> stored]
    BY DEF PutGroup
<1> HIDE DEF put
<1>3. CASE group.rules = <<>>
  <2>1. NoGroup \in GrafanaGroup /\ NoGroup.rules = <<>>
      BY DEF NoGroup, GrafanaGroup
  <2> QED BY <1>1, <1>2, <1>3, <2>1 DEF put
<1>4. CASE group.rules # <<>>
  <2>1. \A i \in DOMAIN group.rules : Stored(group.rules[i], header) \in GrafanaRule
      BY StoredIs
  <2>2. DOMAIN group.rules = 1..Len(group.rules) /\ Len(group.rules) \in Nat
      OBVIOUS
  <2>3. stored \in [1..Len(group.rules) -> GrafanaRule]
      BY <2>1, <2>2
  <2>4. stored \in Seq(GrafanaRule) /\ Len(stored) = Len(group.rules)
      BY <2>2, <2>3
  <2>5. stored # <<>>
      BY <1>4, <2>4
  <2>6. DOMAIN stored = DOMAIN group.rules
        /\ \A i \in DOMAIN group.rules : stored[i] = Stored(group.rules[i], header)
      OBVIOUS
  <2> HIDE DEF stored
  <2>7. put[g] \in GrafanaGroup /\ put[g].rules = stored /\ put[g].interval = group.interval
      BY <1>2, <1>4, <2>4 DEF GrafanaGroup
  <2> QED BY <1>1, <2>5, <2>6, <2>7 DEF put
<1> QED BY <1>3, <1>4

LEMMA DeleteKeeps ==
    ASSUME NEW gs, NEW bundle, IsGrafana(gs, bundle), NEW uid
    PROVE  /\ IsGrafana(DeleteRule(gs, uid), bundle)
           /\ DOMAIN DeleteRule(gs, uid) = DOMAIN gs
           /\ \A g \in DOMAIN gs : \A i \in DOMAIN DeleteRule(gs, uid)[g].rules :
                 DeleteRule(gs, uid)[g].rules[i].uid # uid
<1> DEFINE left == DeleteRule(gs, uid)
<1>1. DOMAIN left = DOMAIN gs /\ \A g \in DOMAIN gs : left[g] = Without(gs[g], {uid})
    BY DEF DeleteRule
<1> HIDE DEF left
<1>2. \A g \in DOMAIN gs : gs[g] \in GrafanaGroup /\ HeldIn(bundle, g, gs[g])
    BY DEF IsGrafana, HeldIn
<1>3. \A g \in DOMAIN left : HeldIn(bundle, g, left[g])
    BY <1>1, <1>2, WithoutHeld
<1>4. \A g \in DOMAIN gs : \A k \in DOMAIN left[g].rules : \E i \in DOMAIN gs[g].rules :
         gs[g].rules[i].uid # uid /\ left[g].rules[k] = gs[g].rules[i]
  <2> TAKE g \in DOMAIN gs
  <2>1. gs[g] \in GrafanaGroup /\ left[g] = Without(gs[g], {uid})
      BY <1>1, <1>2
  <2>2. \A k \in DOMAIN left[g].rules : \E i \in DOMAIN gs[g].rules :
           gs[g].rules[i].uid \notin {uid} /\ left[g].rules[k] = gs[g].rules[i]
      BY <2>1, WithoutIs
  <2> QED BY <2>2
<1>5. RulesApart(left)
  <2> SUFFICES ASSUME NEW g \in DOMAIN left, NEW h \in DOMAIN left,
                      NEW r \in RuleSet(left[g].rules), NEW q \in RuleSet(left[h].rules),
                      r.uid = q.uid
               PROVE  g = h
      BY DEF RulesApart
  <2>1. r \in RuleSet(gs[g].rules) /\ q \in RuleSet(gs[h].rules)
      BY <1>1, <1>4 DEF RuleSet
  <2> QED BY <1>1, <2>1 DEF IsGrafana, RulesApart
<1> QED BY <1>1, <1>3, <1>4, <1>5 DEF IsGrafana, left

\* The uids of a group that is written.
LEMMA UidsAre ==
    ASSUME NEW rules_ \in Seq(BundleRule), NEW i \in DOMAIN rules_
    PROVE  rules_[i].uid # NoUid => rules_[i].uid \in Uids(rules_)
BY DEF Uids, RuleSet

LEMMA PutHeld ==
    ASSUME NEW gs, NEW bundle, IsGrafana(gs, bundle), NEW g \in DOMAIN gs, NEW group,
           Fits(bundle, g, group), NEW header
    PROVE  HeldIn(bundle, g, PutGroup(gs, g, group, header)[g])
<1> DEFINE put == PutGroup(gs, g, group, header)
<1>1. /\ put[g] \in GrafanaGroup
      /\ put[g].rules = <<>> => put[g] = NoGroup
      /\ DOMAIN put[g].rules = DOMAIN group.rules
      /\ \A i \in DOMAIN group.rules : put[g].rules[i] = Stored(group.rules[i], header)
    BY PutIs DEF Fits
<1> HIDE DEF put
<1>2. \A i \in DOMAIN group.rules : put[g].rules[i].uid = Stored(group.rules[i], "omit").uid
    BY <1>1, StoredIs DEF Fits
<1>3. HeldIn(bundle, g, put[g])
    BY <1>1, <1>2 DEF HeldIn, Fits
<1> QED BY <1>3 DEF put

LEMMA PutKeeps ==
    ASSUME NEW gs, NEW bundle, IsGrafana(gs, bundle), NEW g \in DOMAIN gs, NEW group,
           Fits(bundle, g, group), NEW header
    PROVE  IsGrafana(PutGroup(gs, g, group, header), bundle)
<1> DEFINE put == PutGroup(gs, g, group, header)
<1>0. group.interval \in Nat /\ group.rules \in Seq(BundleRule)
    BY DEF Fits
<1>1. /\ DOMAIN put = DOMAIN gs
      /\ DOMAIN put[g].rules = DOMAIN group.rules
      /\ \A i \in DOMAIN group.rules : put[g].rules[i] = Stored(group.rules[i], header)
      /\ \A h \in DOMAIN gs \ {g} : put[h] = Without(gs[h], Uids(group.rules))
    BY <1>0, PutIs
<1>2. HeldIn(bundle, g, put[g])
    BY PutHeld
<1> HIDE DEF put
<1>3. \A h \in DOMAIN gs : gs[h] \in GrafanaGroup /\ HeldIn(bundle, h, gs[h])
    BY DEF IsGrafana, HeldIn
<1>4. \A h \in DOMAIN gs \ {g} : HeldIn(bundle, h, put[h])
    BY <1>1, <1>3, WithoutHeld
<1>5. \A h \in DOMAIN gs \ {g} : \A k \in DOMAIN put[h].rules : \E i \in DOMAIN gs[h].rules :
         gs[h].rules[i].uid \notin Uids(group.rules) /\ put[h].rules[k] = gs[h].rules[i]
    BY <1>1, <1>3, WithoutIs
<1>6. \A h \in DOMAIN gs \ {g} : \A i \in DOMAIN group.rules, k \in DOMAIN put[h].rules :
         put[g].rules[i].uid # put[h].rules[k].uid
  <2> TAKE h \in DOMAIN gs \ {g}
  <2> TAKE i \in DOMAIN group.rules, k \in DOMAIN put[h].rules
  <2>1. group.rules[i] \in BundleRule
      BY <1>0
  <2>2. put[g].rules[i].uid = IF group.rules[i].uid = NoUid THEN group.rules[i].title
                              ELSE group.rules[i].uid
      BY <1>1, <2>1, StoredIs
  <2>3. put[h].rules[k].uid \notin Uids(group.rules) /\ MayHold(bundle, h, put[h].rules[k].uid)
      BY <1>4, <1>5 DEF HeldIn
  <2>4. CASE group.rules[i].uid = NoUid
      BY <2>2, <2>3, <2>4 DEF Fits
  <2>5. CASE group.rules[i].uid # NoUid
      BY <1>0, <2>2, <2>3, <2>5, UidsAre
  <2> QED BY <2>4, <2>5
<1>7. RulesApart(put)
  <2> SUFFICES ASSUME NEW h \in DOMAIN put, NEW e \in DOMAIN put,
                      NEW r \in RuleSet(put[h].rules), NEW q \in RuleSet(put[e].rules),
                      r.uid = q.uid
               PROVE  h = e
      BY DEF RulesApart
  <2>1. CASE h = g /\ e = g
      BY <2>1
  <2>2. CASE h = g /\ e # g
      BY <1>1, <1>6, <2>2 DEF RuleSet
  <2>3. CASE h # g /\ e = g
      BY <1>1, <1>6, <2>3 DEF RuleSet
  <2>4. CASE h # g /\ e # g
    <3>1. r \in RuleSet(gs[h].rules) /\ q \in RuleSet(gs[e].rules)
        BY <1>1, <1>5, <2>4 DEF RuleSet
    <3> QED BY <1>1, <3>1 DEF IsGrafana, RulesApart
  <2> QED BY <2>1, <2>2, <2>3, <2>4
<1>8. IsGrafana(put, bundle)
    BY <1>1, <1>2, <1>4, <1>7 DEF IsGrafana
<1> QED BY <1>8 DEF put

\* A group of the bundle may be written.
LEMMA BundleFits ==
    ASSUME NEW bundle, NEW ids, IsBundle(bundle, ids), NEW n \in DOMAIN bundle.groups
    PROVE  Fits(bundle, bundle.groups[n].id, bundle.groups[n])
<1> DEFINE group == bundle.groups[n]
<1> DEFINE BundleGroup == [id : ids, interval : Nat, hasOrg : BOOLEAN, rules : Seq(BundleRule)]
<1>0. bundle.groups \in Seq(BundleGroup)
    BY DEF IsBundle
<1>1. ASSUME NEW k \in DOMAIN bundle.groups
      PROVE  bundle.groups[k].interval \in Nat /\ bundle.groups[k].rules \in Seq(BundleRule)
  <2>1. bundle.groups[k] \in BundleGroup
    <3> HIDE DEF BundleGroup
    <3> QED BY <1>0
  <2> QED BY <2>1
<1>2. \A k \in DOMAIN bundle.groups : \A i \in DOMAIN group.rules, j \in DOMAIN bundle.groups[k].rules :
         Stored(group.rules[i], "omit").uid = Stored(bundle.groups[k].rules[j], "omit").uid
         => n = k /\ i = j
    BY DEF IsBundle
<1>3. \A k \in DOMAIN bundle.groups : \A i \in DOMAIN bundle.groups[k].rules :
         bundle.groups[k].rules[i] \in BundleRule
    BY <1>1
<1>4. ASSUME NEW i \in DOMAIN group.rules
      PROVE  MayHold(bundle, group.id, Stored(group.rules[i], "omit").uid)
  <2> SUFFICES ASSUME NEW k \in DOMAIN bundle.groups, NEW j \in DOMAIN bundle.groups[k].rules,
                      bundle.groups[k].rules[j].uid = NoUid,
                      bundle.groups[k].rules[j].title = Stored(group.rules[i], "omit").uid
               PROVE  bundle.groups[k].id = group.id
      BY DEF MayHold, Elements, RuleSet
  <2>1. Stored(bundle.groups[k].rules[j], "omit").uid = bundle.groups[k].rules[j].title
      BY <1>3, StoredIs
  <2>2. n = k
      BY <1>2, <2>1
  <2> QED BY <2>2
<1>5. ASSUME NEW i \in DOMAIN group.rules, group.rules[i].uid = NoUid,
             NEW h, MayHold(bundle, h, group.rules[i].title)
      PROVE  h = group.id
    BY <1>5 DEF MayHold, Elements, RuleSet
<1>6. \A i, j \in DOMAIN group.rules :
         Stored(group.rules[i], "omit").uid = Stored(group.rules[j], "omit").uid => i = j
    BY <1>2
<1> HIDE DEF group
<1>7. Fits(bundle, group.id, group)
    BY <1>1, <1>4, <1>5, <1>6 DEF Fits, group
<1> QED BY <1>7 DEF group

\* And a group that Grafana held, in which rules are other than they were.
LEMMA HeldFits ==
    ASSUME NEW bundle, NEW g, NEW held, HeldIn(bundle, g, held), NEW group,
           group.interval \in Nat, group.rules \in Seq(BundleRule),
           DOMAIN group.rules = DOMAIN held.rules,
           \A i \in DOMAIN held.rules : group.rules[i].uid = held.rules[i].uid
    PROVE  Fits(bundle, g, group) /\ \A uid : uid \in Uids(group.rules) =>
              \E i \in DOMAIN held.rules : held.rules[i].uid = uid
<1>1. ASSUME NEW i \in DOMAIN held.rules PROVE held.rules[i].uid # NoUid
  <2>1. held.rules \in Seq(GrafanaRule)
      BY DEF HeldIn, GrafanaGroup
  <2>2. held.rules[i] \in GrafanaRule
      BY <2>1
  <2> QED BY <2>2 DEF GrafanaRule
<1>2. \A i \in DOMAIN group.rules : group.rules[i] \in BundleRule
    OBVIOUS
<1>3. \A i \in DOMAIN group.rules : Stored(group.rules[i], "omit").uid = held.rules[i].uid
    BY <1>1, <1>2, StoredIs
<1>4. Fits(bundle, g, group)
    BY <1>1, <1>3 DEF Fits, HeldIn
<1>5. \A uid : uid \in Uids(group.rules) => \E i \in DOMAIN held.rules : held.rules[i].uid = uid
    BY DEF Uids, RuleSet
<1> QED BY <1>4, <1>5

\* Others edit a rule.
LEMMA EditIs ==
    ASSUME NEW gs, NEW bundle, IsGrafana(gs, bundle), NEW g \in DOMAIN gs,
           NEW i \in DOMAIN gs[g].rules, NEW e, e = [gs EXCEPT ![g].rules[i].val = 9]
    PROVE  /\ IsGrafana(e, bundle) /\ DOMAIN e = DOMAIN gs
           /\ \A h \in DOMAIN gs : \A k \in DOMAIN e[h].rules :
                 /\ k \in DOMAIN gs[h].rules /\ e[h].rules[k].uid = gs[h].rules[k].uid
                 /\ e[h].rules[k].prov = gs[h].rules[k].prov
<1>1. gs[g] \in GrafanaGroup /\ gs[g].rules \in Seq(GrafanaRule) /\ gs[g].rules[i] \in GrafanaRule
    BY DEF IsGrafana, HeldIn, GrafanaGroup
<1> DEFINE rule == [gs[g].rules[i] EXCEPT !.val = 9]
           edited == [gs[g].rules EXCEPT ![i] = rule]
           group == [gs[g] EXCEPT !.rules = edited]
<1>2. rule \in GrafanaRule /\ rule.uid = gs[g].rules[i].uid /\ rule.prov = gs[g].rules[i].prov
    BY <1>1 DEF GrafanaRule
<1>3. e = [gs EXCEPT ![g] = group]
    OBVIOUS
<1> HIDE DEF rule
<1>4. /\ edited \in Seq(GrafanaRule) /\ DOMAIN edited = DOMAIN gs[g].rules
      /\ \A k \in DOMAIN gs[g].rules :
            edited[k].uid = gs[g].rules[k].uid /\ edited[k].prov = gs[g].rules[k].prov
    BY <1>1, <1>2
<1> HIDE DEF edited
<1>5. group \in GrafanaGroup /\ group.rules = edited
    BY <1>1, <1>4 DEF GrafanaGroup
<1> HIDE DEF group
<1>6. DOMAIN e = DOMAIN gs /\ e[g] = group /\ \A h \in DOMAIN gs \ {g} : e[h] = gs[h]
    BY <1>3
<1>7. HeldIn(bundle, g, gs[g])
    BY DEF IsGrafana
<1>8. edited # <<>>
    BY <1>4
<1>9. HeldIn(bundle, g, e[g])
  <2>1. \A i_, j \in DOMAIN edited : edited[i_].uid = edited[j].uid => i_ = j
      BY <1>4, <1>7 DEF HeldIn
  <2>2. \A k \in DOMAIN edited : MayHold(bundle, g, edited[k].uid)
      BY <1>4, <1>7 DEF HeldIn
  <2>3. HeldIn(bundle, g, group)
      BY <1>5, <1>8, <2>1, <2>2 DEF HeldIn
  <2> QED BY <1>6, <2>3
<1>10. \A h \in DOMAIN e : HeldIn(bundle, h, e[h])
    BY <1>6, <1>9 DEF IsGrafana
<1>11. \A h \in DOMAIN gs : \A k \in DOMAIN e[h].rules :
          /\ k \in DOMAIN gs[h].rules /\ e[h].rules[k].uid = gs[h].rules[k].uid
          /\ e[h].rules[k].prov = gs[h].rules[k].prov
    BY <1>4, <1>5, <1>6
<1>12. RulesApart(e)
  <2> SUFFICES ASSUME NEW h \in DOMAIN e, NEW k \in DOMAIN e,
                      NEW r \in RuleSet(e[h].rules), NEW q \in RuleSet(e[k].rules),
                      r.uid = q.uid
               PROVE  h = k
      BY DEF RulesApart
  <2> PICK a \in DOMAIN e[h].rules : r = e[h].rules[a]
      BY DEF RuleSet
  <2> PICK b \in DOMAIN e[k].rules : q = e[k].rules[b]
      BY DEF RuleSet
  <2> h \in DOMAIN gs /\ k \in DOMAIN gs
      BY <1>6
  <2>1. gs[h].rules[a] \in RuleSet(gs[h].rules) /\ gs[k].rules[b] \in RuleSet(gs[k].rules)
        /\ gs[h].rules[a].uid = gs[k].rules[b].uid
      BY <1>11 DEF RuleSet
  <2> QED BY <2>1 DEF IsGrafana, RulesApart
<1> QED BY <1>6, <1>10, <1>11, <1>12 DEF IsGrafana

LEMMA EditKeeps ==
    ASSUME NEW gs, NEW bundle, IsGrafana(gs, bundle), NEW g \in DOMAIN gs,
           NEW i \in DOMAIN gs[g].rules, NEW e, e = [gs EXCEPT ![g].rules[i].val = 9]
    PROVE  IsGrafana(e, bundle) /\ DOMAIN e = DOMAIN gs
BY EditIs

-----------------------------------------------------------------------------
(* The same operators, in the three commands                               *)

LEMMA SameThose ==
    \A seq, kept : O!Those(seq, kept) = Those(seq, kept)
BY DEF O!Those, Those

LEMMA SameRules ==
    /\ \A rules_ : O!RuleSet(rules_) = RuleSet(rules_) /\ Q!RuleSet(rules_) = RuleSet(rules_)
    /\ \A rules_ : O!Uids(rules_) = Uids(rules_)
    /\ \A rules_, uid : O!RuleWith(rules_, uid) = RuleWith(rules_, uid)
    /\ \A seq : O!Elements(seq) = Elements(seq)
BY DEF O!RuleSet, RuleSet, Q!RuleSet, O!Uids, Uids, O!NoUid, NoUid, O!RuleWith, RuleWith,
       O!Elements, Elements

LEMMA SameWithout ==
    \A group, uids : O!Without(group, uids) = Without(group, uids)
BY SameThose DEF O!Without, Without, O!NoGroup, NoGroup

LEMMA SamePut ==
    /\ \A gs, uid : O!DeleteRule(gs, uid) = DeleteRule(gs, uid)
    /\ \A gs, g, group, header : O!PutGroup(gs, g, group, header) = PutGroup(gs, g, group, header)
<1>1. \A gs, uid : O!DeleteRule(gs, uid) = DeleteRule(gs, uid)
    BY SameWithout DEF O!DeleteRule, DeleteRule
<1>2. \A r, header : O!Stored(r, header) = Stored(r, header)
    BY DEF O!Stored, Stored, O!NoUid, NoUid, O!Stamp, Stamp
<1>3. \A gs, g, group, header : O!PutGroup(gs, g, group, header) = PutGroup(gs, g, group, header)
    BY <1>2, SameWithout, SameRules DEF O!PutGroup, PutGroup, O!NoGroup, NoGroup
<1> QED BY <1>1, <1>3

LEMMA SameHeader ==
    \A rules_ : O!GroupProvenanceHeader(rules_) = GroupProvenanceHeader(rules_)
<1> TAKE rules_
<1>1. \A prov : O!ProvenanceHeader(prov) = ProvenanceHeader(prov)
    BY DEF O!ProvenanceHeader, ProvenanceHeader
<1> DEFINE provs == {r.prov : r \in RuleSet(rules_)}
<1>2. {r.prov : r \in O!RuleSet(rules_)} = provs
    BY SameRules
<1>3. GroupProvenanceHeader(rules_) =
         CASE provs = {} -> "true"
           [] Cardinality(provs) = 1 -> ProvenanceHeader(CHOOSE p \in provs : TRUE)
           [] OTHER -> "refused"
    BY DEF GroupProvenanceHeader
<1>4. O!GroupProvenanceHeader(rules_) =
         CASE provs = {} -> "true"
           [] Cardinality(provs) = 1 -> O!ProvenanceHeader(CHOOSE p \in provs : TRUE)
           [] OTHER -> "refused"
  <2> DEFINE others == {r.prov : r \in O!RuleSet(rules_)}
  <2>1. O!GroupProvenanceHeader(rules_) =
           CASE others = {} -> "true"
             [] Cardinality(others) = 1 -> O!ProvenanceHeader(CHOOSE p \in others : TRUE)
             [] OTHER -> "refused"
      BY DEF O!GroupProvenanceHeader
  <2>2. others = provs
      BY <1>2
  <2> HIDE DEF others, provs
  <2> QED BY <2>1, <2>2
<1> HIDE DEF provs
<1> QED BY <1>1, <1>3, <1>4

-----------------------------------------------------------------------------
(* What a step leaves alone                                                *)

LEMMA RequestStays ==
    ASSUME O!Next
    PROVE  UNCHANGED request
BY DEF O!Next, O!Resolve, O!Resolved, O!DeleteNamedRule, O!FetchBatch, O!PutBatch, O!Finish

LEMMA Frames ==
    ASSUME [AlertNext]_vars
    PROVE  /\ UNCHANGED inputVars /\ UNCHANGED <<request, query>>
           /\ PushStep \/ UNCHANGED <<pushVars, points, tree>>
           /\ OpStep \/ UNCHANGED opVars
           /\ QueryStep \/ UNCHANGED queryVars
<1>1. CASE PushStep
    BY <1>1 DEF PushStep, opVars, queryVars
<1>2. CASE OpStep
    BY <1>2, RequestStays DEF OpStep, queryVars
<1>3. CASE QueryStep
  <2>1. UNCHANGED query
      BY <1>3 DEF QueryStep, Q!Next, Q!AskDefinitions, Q!AskStates
  <2> QED BY <1>3, <2>1 DEF QueryStep, grafanaVars, opVars
<1>4. CASE Edit
    BY <1>4 DEF Edit, opVars, queryVars
<1>5. CASE Evaluate
    BY <1>5 DEF Evaluate, grafanaVars, opVars, queryVars
<1>6. CASE SessionDies
    BY <1>6 DEF SessionDies, opVars, queryVars
<1>7. CASE UNCHANGED vars
    BY <1>7 DEF vars, grafanaVars, opVars, queryVars
<1> QED BY <1>1, <1>2, <1>3, <1>4, <1>5, <1>6, <1>7 DEF AlertNext

\* The rule groups change by a write of the push or of the operation, or by an edit.
LEMMA GroupSteps ==
    ASSUME [AlertNext]_vars
    PROVE  \/ UNCHANGED groups
           \/ PushStep /\ PushRuleGroup
           \/ OpStep /\ (O!DeleteNamedRule \/ O!PutBatch)
           \/ Edit
<1>1. CASE PushStep
  <2>1. CASE Fetch
      BY <2>1 DEF Fetch, grafanaVars
  <2>2. CASE Apply
    <3>1. CASE PushContactPoint
        BY <3>1 DEF PushContactPoint
    <3>2. CASE PushPolicyTree
        BY <3>2 DEF PushPolicyTree
    <3>3. CASE CheckFolders \/ RecordBlocked \/ Finish
        BY <3>3 DEF CheckFolders, RecordBlocked, Finish, grafanaVars
    <3>4. CASE \/ NextPhase("points", "ContactPoint", "tree")
               \/ NextPhase("tree", "PolicyTree", IF TodoOf("RuleGroup") = {} THEN "groups" ELSE "folders")
        BY <3>4 DEF NextPhase, grafanaVars
    <3> QED BY <1>1, <2>2, <3>1, <3>2, <3>3, <3>4 DEF Apply
  <2> QED BY <1>1, <2>1, <2>2 DEF PushStep, Next
<1>2. CASE OpStep
  <2>1. O!Resolve \/ O!Resolved \/ O!FetchBatch \/ O!Finish => UNCHANGED groups
      BY DEF O!Resolve, O!Resolved, O!FetchBatch, O!Finish
  <2> QED BY <1>2, <2>1 DEF OpStep, O!Next
<1>3. CASE QueryStep \/ Evaluate \/ SessionDies
    BY <1>3 DEF QueryStep, Evaluate, SessionDies, grafanaVars
<1>4. CASE UNCHANGED vars
    BY <1>4 DEF vars, grafanaVars
<1> QED BY <1>1, <1>2, <1>3, <1>4 DEF AlertNext

\* What recording a change does.
Recorded(c, err) ==
    /\ todo' = todo \ {c}
    /\ applied' = IF err = "nil" THEN applied \cup {c} ELSE applied
    /\ failed' = IF err = "nil" THEN failed ELSE failed \cup {[change |-> c, err |-> err]}
    /\ phase' \in {phase, "done"} /\ returned' \in {returned, "error", "401"}
    /\ err = "nil" => phase' = phase /\ returned' = returned
    /\ err = "401" => returned' = "401"
    /\ phase' = "done" /\ phase # "done" => returned' # "nil"
    /\ phase' # "done" => returned' = returned \/ (phase = "groups" /\ returned' = "401")
    /\ StopOnError /\ err # "nil" => phase' = "done" /\ returned' # "nil"
    /\ ~StopOnError /\ err # "401" => returned' = returned

LEMMA RecordIs ==
    ASSUME NEW c, NEW err, RecordIn(c, err) \/ Record(c, err)
    PROVE  Recorded(c, err)
<1>1. CASE Record(c, err)
    BY <1>1 DEF Record, Return, Recorded
<1>2. CASE RecordOutcome(c, err) /\ phase = "groups" /\ ~StopOnError
    BY <1>2 DEF RecordOutcome, Recorded
<1> QED BY <1>1, <1>2 DEF RecordIn

\* A write ends in one of these.
WriteErrors == {"nil", "refused", "rejected", "error", "401"}

WriteUnchanged == UNCHANGED <<refs, remote, plan, blocked, folders, session>>

FoundUid(point) == (CHOOSE p \in Matches(point, remote.points) : TRUE).uid

PointWritten(c, err) ==
    /\ phase = "points" /\ c \in TodoOf("ContactPoint") /\ c.id = PointID(NextPoint)
    /\ err \in WriteErrors /\ Recorded(c, err)
    /\ WriteUnchanged /\ UNCHANGED <<groups, tree>>
    /\ \/ points' = points /\ (err = "nil" => options.dryRun)
       \/ /\ PointHeader(NextPoint) # "refused"
          /\ Matches(NextPoint, remote.points) = {}
          /\ points' = PostPoint(points, NextPoint, PointHeader(NextPoint))
       \/ /\ Matches(NextPoint, remote.points) # {}
          /\ MayPutPoint(points, FoundUid(NextPoint), PointHeader(NextPoint))
          /\ points' = PutPoint(points, FoundUid(NextPoint), NextPoint, PointHeader(NextPoint))

TreeWritten(c, err) ==
    /\ phase = "tree" /\ c \in TodoOf("PolicyTree")
    /\ err \in WriteErrors /\ Recorded(c, err)
    /\ WriteUnchanged /\ UNCHANGED <<groups, points>>
    /\ \/ tree' = tree /\ (err = "nil" => options.dryRun)
       \/ tree' = PutTree(local.tree, ProvenanceHeader(remote.tree.prov))
    /\ err = "rejected" =>
          /\ ~options.dryRun /\ ProvenanceHeader(remote.tree.prov) # "refused"
          /\ ~MayPutTree(tree, points, local.tree, ProvenanceHeader(remote.tree.prov))

GroupBlocked(c) ==
    /\ phase = "blocked" /\ c \in TodoOf("RuleGroup") /\ InBlocked(c)
    /\ Recorded(c, "folder") /\ WriteUnchanged /\ UNCHANGED <<groups, points, tree>>

GroupWritten(g, c, err) ==
    /\ phase = "groups" /\ g \in NextGroups /\ c \in TodoOf("RuleGroup") /\ c.id = g.id
    /\ err \in WriteErrors /\ Recorded(c, err)
    /\ WriteUnchanged /\ UNCHANGED <<points, tree>>
    /\ \/ groups' = groups /\ (err = "nil" => options.dryRun)
       \/ GroupHeader(g) # "refused" /\ groups' = PutGroup(groups, g.id, g, GroupHeader(g))
    /\ err = "rejected" =>
          /\ ~options.dryRun /\ GroupHeader(g) # "refused"
          /\ ~MayPutGroup(groups, folders, g.id, g, GroupHeader(g))

\* The steps between writes.
Between ==
    /\ UNCHANGED <<todo, plan, applied, failed, remote, refs, grafanaVars>>
    /\ \/ /\ UNCHANGED <<blocked, returned>>
          /\ \/ phase = "points" /\ TodoOf("ContactPoint") = {} /\ phase' = "tree"
             \/ phase = "tree" /\ TodoOf("PolicyTree") = {} /\ phase' \in {"folders", "groups"}
                /\ (phase' = "groups" => TodoOf("RuleGroup") = {})
             \/ phase = "blocked" /\ {c \in TodoOf("RuleGroup") : InBlocked(c)} = {}
                /\ phase' = "groups"
             \/ phase = "groups" /\ TodoOf("RuleGroup") = {} /\ phase' = "done"
       \/ /\ phase = "folders" /\ phase' = "blocked" /\ UNCHANGED returned
          /\ \A c \in TodoOf("RuleGroup") : FolderOf(c) \in folders \cup blocked'
       \/ phase = "folders" /\ phase' = "done" /\ returned' \in {"error", "401"}
          /\ UNCHANGED blocked

-----------------------------------------------------------------------------
(* The plan                                                                *)

Kinds == {"ContactPoint", "PolicyTree", "RuleGroup"}

LEMMA PlanHas ==
    ASSUME NEW c \in Plan(Pushed, remote)
    PROVE  /\ c.kind \in Kinds /\ c.action \in {"Create", "Update", "Unchanged"}
           /\ c.kind = "ContactPoint" =>
                 \E i \in DOMAIN local.points : c = PlanPoint(local.points[i], remote.points)
           /\ c.kind = "PolicyTree" => c = PlanTree(local.tree, remote.tree)
           /\ c.kind = "RuleGroup" => \E n \in DOMAIN Pushed.groups :
                 c = PlanGroup(Pushed.groups[n], remote.groups[Pushed.groups[n].id])
<1>0. \/ Pushed.points = local.points /\ Pushed.tree = local.tree
      \/ Pushed.points = <<>> /\ Pushed.tree = NoTree
    BY DEF Pushed
<1>1. CASE c \in {PlanPoint(p, remote.points) : p \in Elements(Pushed.points)}
  <2>1. PICK i \in DOMAIN Pushed.points : c = PlanPoint(Pushed.points[i], remote.points)
      BY <1>1 DEF Elements
  <2>2. Pushed.points = local.points
      BY <1>0
  <2> QED BY <2>1, <2>2 DEF PlanPoint, ActionFor, Kinds
<1>2. CASE c \in {PlanTree(t, remote.tree) : t \in {Pushed.tree} \ {NoTree}}
  <2>1. c = PlanTree(local.tree, remote.tree)
      BY <1>0, <1>2
  <2> QED BY <2>1 DEF PlanTree, ActionFor, Kinds
<1>3. CASE c \in {PlanGroup(g, remote.groups[g.id]) : g \in Elements(Pushed.groups)}
  <2>1. PICK n \in DOMAIN Pushed.groups : c = PlanGroup(Pushed.groups[n], remote.groups[Pushed.groups[n].id])
      BY <1>3 DEF Elements
  <2> QED BY <2>1 DEF PlanGroup, ActionFor, Kinds
<1> QED BY <1>1, <1>2, <1>3 DEF Plan

\* The next contact point is the first that is still to be written.
LEMMA NextPointIs ==
    ASSUME NEW ids, IsBundle(local, ids), \A c \in todo : c \in Plan(Pushed, remote),
           TodoOf("ContactPoint") # {}
    PROVE  \E n \in DOMAIN local.points :
              /\ NextPoint = local.points[n]
              /\ \E c \in TodoOf("ContactPoint") : c.id = PointID(local.points[n])
              /\ \A j \in DOMAIN local.points : \A c \in TodoOf("ContactPoint") :
                    c.id = PointID(local.points[j]) => n <= j
<1> DEFINE pending == {i \in DOMAIN local.points :
                          \E c \in TodoOf("ContactPoint") : c.id = PointID(local.points[i])}
           n == CHOOSE i \in pending : \A j \in pending : i <= j
<1>1. NextPoint = local.points[n]
    BY DEF NextPoint
<1>2. pending # {}
  <2>1. PICK c \in TodoOf("ContactPoint") : TRUE
      OBVIOUS
  <2>2. c \in Plan(Pushed, remote) /\ c.kind = "ContactPoint"
      BY DEF TodoOf
  <2>3. PICK i \in DOMAIN local.points : c = PlanPoint(local.points[i], remote.points)
      BY <2>2, PlanHas
  <2>4. c.id = PointID(local.points[i])
      BY <2>3 DEF PlanPoint
  <2> QED BY <2>4
<1>3. pending \subseteq Nat
  <2>1. local.points \in Seq(BundlePoint)
      BY DEF IsBundle
  <2> QED BY <2>1
<1>4. \E i \in pending : \A j \in pending : i <= j
  <2> HIDE DEF pending
  <2> QED BY <1>2, <1>3, Least
<1>5. n \in pending /\ \A j \in pending : n <= j
    BY <1>4
<1> HIDE DEF n
<1> QED BY <1>1, <1>5

LEMMA PointSteps ==
    ASSUME PushContactPoint, NEW ids, IsBundle(local, ids), \A c \in todo : c \in Plan(Pushed, remote)
    PROVE  \E c \in TodoOf("ContactPoint"), err \in WriteErrors : PointWritten(c, err)
<1> DEFINE point == NextPoint
           change == CHOOSE c \in TodoOf("ContactPoint") : c.id = PointID(point)
           header == PointHeader(point)
           found == Matches(point, remote.points)
           uid == IF found = {} THEN point.uid ELSE (CHOOSE p \in found : TRUE).uid
           after == IF found = {} THEN PostPoint(points, point, header)
                    ELSE PutPoint(points, uid, point, header)
           allowed == IF found = {}
                      THEN \A p \in points : p.uid # point.uid
                      ELSE MayPutPoint(points, uid, header)
<1>0. /\ phase = "points" /\ TodoOf("ContactPoint") # {}
      /\ Write(change, header, allowed, points' = after, UNCHANGED points)
      /\ WriteUnchanged /\ UNCHANGED <<groups, tree>>
    BY DEF PushContactPoint, WriteUnchanged
<1>1. change \in TodoOf("ContactPoint") /\ change.id = PointID(point)
    BY <1>0, NextPointIs
<1> HIDE DEF change
<1>2. PICK err \in WriteErrors :
         /\ RecordIn(change, err)
         /\ \/ points' = points /\ (err = "nil" => options.dryRun)
            \/ header # "refused" /\ allowed /\ points' = after
  <2> HIDE DEF point, header, found, uid, after, allowed
  <2> QED BY <1>0 DEF Write, Errors, WriteErrors
<1>3. Recorded(change, err)
    BY <1>2, RecordIs
<1>4. \/ points' = points /\ (err = "nil" => options.dryRun)
      \/ header # "refused" /\ found = {} /\ points' = PostPoint(points, point, header)
      \/ /\ found # {} /\ MayPutPoint(points, FoundUid(point), header)
         /\ points' = PutPoint(points, FoundUid(point), point, header)
    BY <1>2 DEF FoundUid
<1> HIDE DEF point, header, found
<1>5. PointWritten(change, err)
  <2> USE DEF point, header, found
  <2> QED BY <1>0, <1>1, <1>3, <1>4 DEF PointWritten
<1> QED BY <1>1, <1>5

LEMMA TreeSteps ==
    ASSUME PushPolicyTree
    PROVE  \E c \in TodoOf("PolicyTree"), err \in WriteErrors : TreeWritten(c, err)
<1> DEFINE change == CHOOSE c \in TodoOf("PolicyTree") : TRUE
           header == ProvenanceHeader(remote.tree.prov)
           allowed == MayPutTree(tree, points, local.tree, header)
           after == PutTree(local.tree, header)
<1>1. /\ phase = "tree" /\ TodoOf("PolicyTree") # {}
      /\ Write(change, header, allowed, tree' = after, UNCHANGED tree)
      /\ WriteUnchanged /\ UNCHANGED <<groups, points>>
    BY DEF PushPolicyTree, WriteUnchanged
<1>2. change \in TodoOf("PolicyTree")
    BY <1>1
<1> HIDE DEF change, header, allowed, after
<1>3. PICK err \in WriteErrors :
         /\ RecordIn(change, err)
         /\ \/ tree' = tree /\ (err = "nil" => options.dryRun)
            \/ tree' = after
         /\ err = "rejected" => ~options.dryRun /\ header # "refused" /\ ~allowed
    BY <1>1 DEF Write, Errors, WriteErrors
<1>4. Recorded(change, err)
    BY <1>3, RecordIs
<1>5. TreeWritten(change, err)
    BY <1>1, <1>2, <1>3, <1>4 DEF TreeWritten, after, header, allowed
<1> QED BY <1>2, <1>5

LEMMA BlockedSteps ==
    ASSUME RecordBlocked
    PROVE  (\E c \in TodoOf("RuleGroup") : GroupBlocked(c)) \/ Between
<1> DEFINE refused == {c \in TodoOf("RuleGroup") : InBlocked(c)}
<1>1. /\ phase = "blocked" /\ WriteUnchanged /\ UNCHANGED <<groups, points, tree>>
      /\ UNCHANGED grafanaVars
    BY DEF RecordBlocked, grafanaVars, WriteUnchanged
<1>2. CASE refused = {}
    BY <1>1, <1>2 DEF RecordBlocked, Between
<1>3. CASE refused # {}
  <2>1. PICK c \in refused : Record(c, "folder")
      BY <1>3 DEF RecordBlocked
  <2>2. Recorded(c, "folder")
      BY <2>1, RecordIs
  <2> QED BY <1>1, <2>1, <2>2 DEF GroupBlocked
<1> QED BY <1>2, <1>3

LEMMA GroupWrites ==
    ASSUME PushRuleGroup
    PROVE  \E g \in NextGroups, c \in TodoOf("RuleGroup"), err \in WriteErrors : GroupWritten(g, c, err)
<1>1. PICK g \in NextGroups :
          LET change == CHOOSE c \in TodoOf("RuleGroup") : c.id = g.id
              header == GroupHeader(g)
          IN  Write(change, header, MayPutGroup(groups, folders, g.id, g, header),
                    groups' = PutGroup(groups, g.id, g, header), UNCHANGED groups)
    BY DEF PushRuleGroup
<1> DEFINE change == CHOOSE c \in TodoOf("RuleGroup") : c.id = g.id
           header == GroupHeader(g)
           allowed == MayPutGroup(groups, folders, g.id, g, header)
           after == PutGroup(groups, g.id, g, header)
<1>2. phase = "groups" /\ WriteUnchanged /\ UNCHANGED <<points, tree>>
    BY DEF PushRuleGroup, WriteUnchanged
<1>3. Write(change, header, allowed, groups' = after, UNCHANGED groups)
    BY <1>1
<1>4. change \in TodoOf("RuleGroup") /\ change.id = g.id
    BY DEF NextGroups
<1> HIDE DEF change, allowed, after, header
<1>5. PICK err \in WriteErrors :
         /\ RecordIn(change, err)
         /\ \/ groups' = groups /\ (err = "nil" => options.dryRun)
            \/ header # "refused" /\ groups' = after
         /\ err = "rejected" => ~options.dryRun /\ header # "refused" /\ ~allowed
    BY <1>3 DEF Write, Errors, WriteErrors
<1>6. Recorded(change, err)
    BY <1>5, RecordIs
<1>7. GroupWritten(g, change, err)
    BY <1>2, <1>4, <1>5, <1>6 DEF GroupWritten, header, after, allowed
<1> QED BY <1>4, <1>7

\* Every step of the push.
LEMMA PushSteps ==
    ASSUME PushStep, NEW ids, IsBundle(local, ids), \A c \in todo : c \in Plan(Pushed, remote)
    PROVE  \/ Fetch
           \/ \E c \in TodoOf("ContactPoint"), err \in WriteErrors : PointWritten(c, err)
           \/ \E c \in TodoOf("PolicyTree"), err \in WriteErrors : TreeWritten(c, err)
           \/ \E c \in TodoOf("RuleGroup") : GroupBlocked(c)
           \/ \E g \in NextGroups, c \in TodoOf("RuleGroup"), err \in WriteErrors : GroupWritten(g, c, err)
           \/ Between
<1>1. NextPhase("points", "ContactPoint", "tree") => Between
    BY DEF NextPhase, Between
<1>2. NextPhase("tree", "PolicyTree", IF TodoOf("RuleGroup") = {} THEN "groups" ELSE "folders") => Between
    BY DEF NextPhase, Between
<1>3. CheckFolders => Between
    BY DEF CheckFolders, RequestFails, Return, Errors, Between, grafanaVars
<1>4. Finish => Between
    BY DEF Finish, Return, Between, grafanaVars
<1> QED BY <1>1, <1>2, <1>3, <1>4, PointSteps, TreeSteps, BlockedSteps, GroupWrites
        DEF PushStep, Next, Apply

-----------------------------------------------------------------------------
(* The groups that are pushed                                              *)

LEMMA GrafanaInBundle == GrafanaRule \subseteq BundleRule
BY DEF GrafanaRule, BundleRule

LEMMA BundleRules ==
    ASSUME NEW bundle, NEW ids, IsBundle(bundle, ids), NEW n \in DOMAIN bundle.groups
    PROVE  bundle.groups[n].rules \in Seq(BundleRule) /\ bundle.groups[n].id \in ids
<1> DEFINE BundleGroup == [id : ids, interval : Nat, hasOrg : BOOLEAN, rules : Seq(BundleRule)]
<1>1. bundle.groups \in Seq(BundleGroup)
    BY DEF IsBundle
<1>2. bundle.groups[n] \in BundleGroup
  <2> HIDE DEF BundleGroup
  <2> QED BY <1>1
<1> QED BY <1>2

\* The rule of the bundle that has a uid.
LEMMA HolderHas ==
    ASSUME NEW bundle, NEW ids, IsBundle(bundle, ids), NEW uid, Holders(bundle, uid) # {},
           NEW r, r = RuleWith((CHOOSE g \in Holders(bundle, uid) : TRUE).rules, uid)
    PROVE  r \in BundleRule /\ r.uid = uid
<1> DEFINE holder == CHOOSE g \in Holders(bundle, uid) : TRUE
<1>1. holder \in Holders(bundle, uid)
    OBVIOUS
<1> HIDE DEF holder
<1>2. PICK n \in DOMAIN bundle.groups : holder = bundle.groups[n]
    BY <1>1 DEF Holders, Elements
<1>3. uid \in Uids(holder.rules)
    BY <1>1 DEF Holders
<1>4. r \in RuleSet(holder.rules) /\ r.uid = uid
    BY <1>3 DEF holder, Uids, RuleWith
<1>5. holder.rules \in Seq(BundleRule)
    BY <1>2, BundleRules
<1> QED BY <1>4, <1>5 DEF RuleSet

LEMMA SyntheticIs ==
    ASSUME NEW bundle, NEW ids, IsBundle(bundle, ids), NEW id, NEW held, HeldIn(bundle, id, held),
           NEW uids, \A uid \in uids : Holders(bundle, uid) # {},
           NEW g, g = SyntheticGroup(id, held, bundle, uids)
    PROVE  /\ g.id = id /\ g.interval = held.interval /\ g.interval \in Nat
           /\ g.rules \in Seq(BundleRule) /\ DOMAIN g.rules = DOMAIN held.rules
           /\ \A i \in DOMAIN held.rules :
                 /\ g.rules[i].uid = held.rules[i].uid
                 /\ held.rules[i].uid \notin uids => g.rules[i] = held.rules[i]
<1> DEFINE rule(i) ==
               IF held.rules[i].uid \in uids
               THEN RuleWith((CHOOSE h \in Holders(bundle, held.rules[i].uid) : TRUE).rules,
                             held.rules[i].uid)
               ELSE held.rules[i]
           synthetic == [i \in DOMAIN held.rules |-> rule(i)]
<1>1. g.id = id /\ g.interval = held.interval /\ g.rules = synthetic
    BY DEF SyntheticGroup
<1>2. held.rules \in Seq(GrafanaRule) /\ held.interval \in Nat
    BY DEF HeldIn, GrafanaGroup
<1>3. ASSUME NEW i \in DOMAIN held.rules
      PROVE  /\ rule(i) \in BundleRule /\ rule(i).uid = held.rules[i].uid
             /\ held.rules[i].uid \notin uids => rule(i) = held.rules[i]
  <2>1. held.rules[i] \in BundleRule
      BY <1>2, GrafanaInBundle
  <2>2. CASE held.rules[i].uid \in uids
      BY <2>2, HolderHas
  <2>3. CASE held.rules[i].uid \notin uids
      BY <2>1, <2>3
  <2> QED BY <2>2, <2>3
<1> HIDE DEF rule
<1>4. DOMAIN held.rules = 1..Len(held.rules) /\ Len(held.rules) \in Nat
    BY <1>2
<1>5. synthetic \in [1..Len(held.rules) -> BundleRule]
    BY <1>3, <1>4
<1>6. synthetic \in Seq(BundleRule)
    BY <1>4, <1>5
<1> QED BY <1>1, <1>2, <1>3, <1>6

\* The groups of a push of named rules.
LEMMA ScopedGroups ==
    ASSUME GrafanaInv, Scoped, NEW n \in DOMAIN Pushed.groups
    PROVE  LET g == Pushed.groups[n]
           IN  /\ g = SyntheticGroup(g.id, remote.groups[g.id], local, options.ruleUIDs)
               /\ g.id \in refs /\ \E m \in DOMAIN local.groups : local.groups[m].id = g.id
<1> DEFINE kept == {i \in DOMAIN local.groups : local.groups[i].id \in refs}
           found == Those(local.groups, kept)
           BundleGroup == [id : DOMAIN groups, interval : Nat, hasOrg : BOOLEAN, rules : Seq(BundleRule)]
<1>1. Pushed.groups =
         [i \in DOMAIN found |->
             SyntheticGroup(found[i].id, remote.groups[found[i].id], local, options.ruleUIDs)]
    BY DEF Pushed
<1>2. local.groups \in Seq(BundleGroup)
    BY DEF GrafanaInv, IsBundle
<1>3. \A k \in DOMAIN found : \E i \in DOMAIN local.groups : i \in kept /\ found[k] = local.groups[i]
  <2> HIDE DEF BundleGroup, kept
  <2> QED BY <1>2, ThoseAre
<1> HIDE DEF found
<1>4. PICK i \in DOMAIN local.groups : i \in kept /\ found[n] = local.groups[i]
    BY <1>1, <1>3
<1>5. Pushed.groups[n] = SyntheticGroup(found[n].id, remote.groups[found[n].id], local, options.ruleUIDs)
    BY <1>1
<1>6. Pushed.groups[n].id = found[n].id
  <2>1. \A id, held, bundle, uids : SyntheticGroup(id, held, bundle, uids).id = id
      BY DEF SyntheticGroup
  <2> QED BY <1>5, <2>1
<1> QED BY <1>4, <1>5, <1>6

LEMMA PushedFits ==
    ASSUME GrafanaInv, FetchedInv, phase \notin {"start", "done"}, NEW n \in DOMAIN Pushed.groups,
           refs \subseteq DOMAIN remote.groups, refs \subseteq DOMAIN groups
    PROVE  LET g == Pushed.groups[n]
           IN  g.id \in DOMAIN groups /\ Fits(local, g.id, g)
<1> DEFINE g == Pushed.groups[n]
<1>1. CASE ~Scoped
  <2>1. g = local.groups[n] /\ n \in DOMAIN local.groups
      BY <1>1 DEF Pushed
  <2>2. IsBundle(local, DOMAIN groups)
      BY DEF GrafanaInv
  <2> HIDE DEF g
  <2>3. g.id \in DOMAIN groups
      BY <2>1, <2>2, BundleRules
  <2>4. Fits(local, local.groups[n].id, local.groups[n])
      BY <2>1, <2>2, BundleFits
  <2> QED BY <2>1, <2>3, <2>4 DEF g
<1>2. CASE Scoped
  <2>1. /\ g = SyntheticGroup(g.id, remote.groups[g.id], local, options.ruleUIDs)
        /\ g.id \in refs
      BY <1>2, ScopedGroups
  <2>2. g.id \in DOMAIN groups /\ HeldIn(local, g.id, remote.groups[g.id])
      BY <2>1 DEF FetchedInv
  <2>3. \A uid \in options.ruleUIDs : Holders(local, uid) # {}
      BY <1>2 DEF FetchedInv
  <2>4. IsBundle(local, DOMAIN groups)
      BY DEF GrafanaInv
  <2> HIDE DEF g
  <2>5. /\ g.interval \in Nat /\ g.rules \in Seq(BundleRule)
        /\ DOMAIN g.rules = DOMAIN remote.groups[g.id].rules
        /\ \A i \in DOMAIN remote.groups[g.id].rules :
              g.rules[i].uid = remote.groups[g.id].rules[i].uid
    <3>1. PICK id : id = g.id
        OBVIOUS
    <3>2. PICK held : held = remote.groups[id]
        OBVIOUS
    <3>3. HeldIn(local, id, held) /\ g = SyntheticGroup(id, held, local, options.ruleUIDs)
        BY <2>1, <2>2, <3>1, <3>2
    <3>4. /\ g.interval \in Nat /\ g.rules \in Seq(BundleRule)
          /\ DOMAIN g.rules = DOMAIN held.rules
          /\ \A i \in DOMAIN held.rules : g.rules[i].uid = held.rules[i].uid
        BY <2>3, <2>4, <3>3, SyntheticIs
    <3> QED BY <3>1, <3>2, <3>4
  <2>6. Fits(local, g.id, g)
      BY <2>2, <2>5, HeldFits
  <2> QED BY <2>2, <2>6 DEF g
<1> QED BY <1>1, <1>2

\* The group that a pause sends.
FlippedRule(r, uids) ==
    IF r.uid \in uids THEN [r EXCEPT !.paused = O!Paused] ELSE r

LEMMA FlippedIs ==
    ASSUME NEW bundle, NEW g, NEW held, HeldIn(bundle, g, held)
    PROVE  LET f == O!Flipped(held)
           IN  /\ f.interval = held.interval /\ f.interval \in Nat
               /\ f.rules \in Seq(BundleRule) /\ DOMAIN f.rules = DOMAIN held.rules
               /\ \A i \in DOMAIN held.rules :
                     /\ f.rules[i].uid = held.rules[i].uid
                     /\ f.rules[i] = FlippedRule(held.rules[i], Elements(O!Targets(held)))
                     /\ f.rules[i] \in BundleRule
<1> DEFINE uids == Elements(O!Targets(held))
           flipped == [i \in DOMAIN held.rules |-> FlippedRule(held.rules[i], uids)]
           f == O!Flipped(held)
<1>1. f = [held EXCEPT !.rules = flipped]
    BY SameRules DEF O!Flipped, FlippedRule
<1> HIDE DEF uids, f
<1>2. held.rules \in Seq(GrafanaRule) /\ held.interval \in Nat /\ held \in GrafanaGroup
    BY DEF HeldIn, GrafanaGroup
<1>3. O!Paused \in BOOLEAN
    BY DEF O!Paused
<1>4. ASSUME NEW r \in GrafanaRule
      PROVE  FlippedRule(r, uids) \in GrafanaRule /\ FlippedRule(r, uids).uid = r.uid
  <2> DEFINE paused == [r EXCEPT !.paused = O!Paused]
  <2>1. paused \in GrafanaRule /\ paused.uid = r.uid
      BY <1>3 DEF GrafanaRule
  <2> HIDE DEF paused
  <2>2. FlippedRule(r, uids) = IF r.uid \in uids THEN paused ELSE r
      BY DEF FlippedRule, paused
  <2> QED BY <2>1, <2>2
<1>5. DOMAIN held.rules = 1..Len(held.rules) /\ Len(held.rules) \in Nat
    BY <1>2
<1>6. \A i \in DOMAIN held.rules : held.rules[i] \in GrafanaRule
    BY <1>2
<1>7. /\ \A i \in DOMAIN held.rules : flipped[i] \in GrafanaRule /\ flipped[i].uid = held.rules[i].uid
      /\ flipped \in [1..Len(held.rules) -> GrafanaRule]
    BY <1>4, <1>5, <1>6
<1>8. flipped \in Seq(GrafanaRule)
    BY <1>5, <1>7
<1>9. \A i \in DOMAIN held.rules : flipped[i] = FlippedRule(held.rules[i], uids)
    OBVIOUS
<1>10. DOMAIN flipped = DOMAIN held.rules
    OBVIOUS
<1> HIDE DEF flipped
<1>11. f.rules = flipped /\ f.interval = held.interval
    BY <1>1, <1>2 DEF GrafanaGroup
<1>12. flipped \in Seq(BundleRule) /\ \A i \in DOMAIN held.rules : flipped[i] \in BundleRule
    BY <1>7, <1>8, GrafanaInBundle
<1> QED BY <1>2, <1>7, <1>9, <1>10, <1>11, <1>12 DEF f, uids

-----------------------------------------------------------------------------
(* What Grafana holds                                                      *)

IInv == /\ TypeOK /\ GrafanaInv /\ FetchedInv /\ PlanInv /\ ResultAccounts /\ OrderInv
        /\ AbortIsPrefix /\ OpInv /\ OutcomeInv /\ AskedInv /\ AnswersAreHonest

LEMMA RefIs ==
    ASSUME OpInv, rules # <<>>
    PROVE  O!Ref \in DOMAIN groups /\ Head(rules) \in [uid : Elements(request.uids), ref : DOMAIN groups, prov : Texts]
<1> DEFINE Located == [uid : Elements(request.uids), ref : DOMAIN groups, prov : Texts]
<1>0. rules \in Seq(Located)
    BY DEF OpInv
<1>1. Head(rules) \in Located
  <2> HIDE DEF Located
  <2> QED BY <1>0
<1> QED BY <1>1 DEF O!Ref

LEMMA DeleteNamedIs ==
    ASSUME O!DeleteNamedRule
    PROVE  groups' = groups \/ groups' = DeleteRule(groups, Head(rules).uid)
<1>1. groups' = groups \/ groups' = O!DeleteRule(groups, Head(rules).uid)
    BY DEF O!DeleteNamedRule, O!Write
<1> QED BY <1>1, SamePut

LEMMA PutBatchIs ==
    ASSUME O!PutBatch
    PROVE  \/ groups' = groups
           \/ groups' = PutGroup(groups, O!Ref, O!Flipped(body), GroupProvenanceHeader(body.rules))
<1>1. \/ groups' = groups
      \/ groups' = O!PutGroup(groups, O!Ref, O!Flipped(body), O!GroupProvenanceHeader(body.rules))
    BY DEF O!PutBatch, O!Write
<1> QED BY <1>1, SamePut, SameHeader

LEMMA NextGroupIs ==
    ASSUME NEW g \in NextGroups
    PROVE  \E n \in DOMAIN Pushed.groups : g = Pushed.groups[n]
BY DEF NextGroups

LEMMA WrittenFits ==
    ASSUME IInv, phase = "groups", NEW c \in TodoOf("RuleGroup"), NEW g \in NextGroups
    PROVE  g.id \in DOMAIN groups /\ Fits(local, g.id, g) /\ refs \subseteq DOMAIN remote.groups
<1>1. PICK n \in DOMAIN Pushed.groups : g = Pushed.groups[n]
    BY NextGroupIs
<1>2. c \in plan
    BY DEF IInv, PlanInv, Writing, TodoOf
<1>3. refs \subseteq DOMAIN remote.groups /\ refs \subseteq DOMAIN groups
    BY <1>2 DEF IInv, FetchedInv, TypeOK
<1> QED BY <1>1, <1>3, PushedFits DEF IInv

LEMMA FlippedFits ==
    ASSUME IInv, step = "put"
    PROVE  O!Ref \in DOMAIN groups /\ Fits(local, O!Ref, O!Flipped(body))
<1>1. O!Ref \in DOMAIN groups /\ HeldIn(local, O!Ref, body)
    BY RefIs DEF IInv, OpInv
<1> DEFINE f == O!Flipped(body)
<1>2. /\ f.interval \in Nat /\ f.rules \in Seq(BundleRule) /\ DOMAIN f.rules = DOMAIN body.rules
      /\ \A i \in DOMAIN body.rules : f.rules[i].uid = body.rules[i].uid
    BY <1>1, FlippedIs
<1> HIDE DEF f
<1>3. Fits(local, O!Ref, f)
    BY <1>1, <1>2, HeldFits
<1> QED BY <1>1, <1>3 DEF f

\* How the rule groups may change.
LEMMA GroupEffects ==
    ASSUME IInv, [AlertNext]_vars
    PROVE  \/ groups' = groups
           \/ \E g \in DOMAIN groups : \E group, header :
                 Fits(local, g, group) /\ groups' = PutGroup(groups, g, group, header)
           \/ \E uid : groups' = DeleteRule(groups, uid)
           \/ \E g \in DOMAIN groups : \E i \in DOMAIN groups[g].rules :
                 groups' = [groups EXCEPT ![g].rules[i].val = 9]
<1>1. CASE PushRuleGroup
  <2>1. PICK g \in NextGroups, c \in TodoOf("RuleGroup"), err \in WriteErrors : GroupWritten(g, c, err)
      BY <1>1, GroupWrites
  <2>2. groups' = groups \/ groups' = PutGroup(groups, g.id, g, GroupHeader(g))
      BY <2>1 DEF GroupWritten
  <2>3. g.id \in DOMAIN groups /\ Fits(local, g.id, g)
      BY <2>1, WrittenFits DEF GroupWritten
  <2> QED BY <2>2, <2>3
<1>2. CASE O!DeleteNamedRule
    BY <1>2, DeleteNamedIs
<1>3. CASE O!PutBatch
  <2>1. step = "put"
      BY <1>3 DEF O!PutBatch
  <2> QED BY <1>3, <2>1, FlippedFits, PutBatchIs
<1>4. CASE Edit
    BY <1>4 DEF Edit
<1> QED BY <1>1, <1>2, <1>3, <1>4, GroupSteps

LEMMA GroupsKept ==
    ASSUME IInv, [AlertNext]_vars
    PROVE  DOMAIN groups' = DOMAIN groups /\ IsGrafana(groups', local)
<1>0. IsGrafana(groups, local)
    BY DEF IInv, GrafanaInv
<1>1. CASE groups' = groups
    BY <1>0, <1>1
<1>2. CASE \E g \in DOMAIN groups : \E group, header :
              Fits(local, g, group) /\ groups' = PutGroup(groups, g, group, header)
  <2>1. PICK g \in DOMAIN groups : \E group, header :
              Fits(local, g, group) /\ groups' = PutGroup(groups, g, group, header)
      BY <1>2
  <2>2. PICK group, header : Fits(local, g, group) /\ groups' = PutGroup(groups, g, group, header)
      BY <2>1
  <2>3. DOMAIN PutGroup(groups, g, group, header) = DOMAIN groups
      BY DEF PutGroup
  <2> QED BY <1>0, <2>2, <2>3, PutKeeps
<1>3. CASE \E uid : groups' = DeleteRule(groups, uid)
    BY <1>0, <1>3, DeleteKeeps
<1>4. CASE \E g \in DOMAIN groups : \E i \in DOMAIN groups[g].rules :
              groups' = [groups EXCEPT ![g].rules[i].val = 9]
    BY <1>0, <1>4, EditKeeps
<1> QED BY <1>1, <1>2, <1>3, <1>4, GroupEffects

LEMMA StampIsText == \A header : Stamp(header) \in Texts
BY TextsAssumption DEF Stamp

LEMMA PointsKept ==
    ASSUME IInv, NEW c, NEW err, PointWritten(c, err)
    PROVE  points' \subseteq GrafanaPoint
<1> DEFINE point == NextPoint
           header == PointHeader(point)
<1>0. points \subseteq GrafanaPoint
    BY DEF IInv, GrafanaInv
<1>1. point \in BundlePoint
  <2>1. IsBundle(local, DOMAIN groups) /\ \A d \in todo : d \in Plan(Pushed, remote)
      BY DEF IInv, GrafanaInv, PlanInv, Writing, PointWritten
  <2>2. PICK n \in DOMAIN local.points : point = local.points[n]
    <3>1. TodoOf("ContactPoint") # {}
        BY DEF PointWritten
    <3> QED BY <2>1, <3>1, NextPointIs
  <2>3. local.points \in Seq(BundlePoint)
      BY <2>1 DEF IsBundle
  <2> HIDE DEF point
  <2> QED BY <2>2, <2>3
<1>2. /\ point.uid \in Texts /\ point.name \in Texts /\ point.val \in Nat /\ point.secret \in Texts
    BY <1>1 DEF BundlePoint
<1>3. CASE points' = points
    BY <1>0, <1>3
<1>4. CASE /\ header # "refused" /\ Matches(point, remote.points) = {}
           /\ points' = PostPoint(points, point, header)
  <2>1. point.secret # Redacted
      BY <1>4 DEF PointHeader
  <2> HIDE DEF point, header
  <2>2. [uid |-> IF point.uid = NoUid THEN point.name ELSE point.uid,
         name |-> point.name, val |-> point.val, secret |-> point.secret,
         prov |-> Stamp(header)] \in GrafanaPoint
      BY <1>2, <2>1, StampIsText DEF GrafanaPoint
  <2> QED BY <1>0, <1>4, <2>2 DEF PostPoint
<1>5. CASE /\ MayPutPoint(points, FoundUid(point), header)
           /\ points' = PutPoint(points, FoundUid(point), point, header)
  <2>1. PICK uid : uid = FoundUid(point)
      OBVIOUS
  <2> HIDE DEF point, header
  <2> DEFINE old == CHOOSE p \in points : p.uid = uid
             new == [uid |-> uid, name |-> point.name, val |-> point.val,
                     secret |-> IF point.secret = Redacted THEN old.secret ELSE point.secret,
                     prov |-> Stamp(header)]
  <2>2. old \in points /\ old.uid = uid
      BY <1>5, <2>1 DEF MayPutPoint
  <2>3. points' = (points \ {old}) \cup {new}
      BY <1>5, <2>1 DEF PutPoint
  <2> HIDE DEF old
  <2>4. old.uid \in Texts /\ old.secret \in Texts \ {Redacted}
      BY <1>0, <2>2 DEF GrafanaPoint
  <2>5. new \in GrafanaPoint
      BY <1>2, <2>2, <2>4, StampIsText DEF GrafanaPoint
  <2> QED BY <1>0, <2>3, <2>5
<1> QED BY <1>3, <1>4, <1>5 DEF PointWritten

LEMMA GrafanaStep ==
    ASSUME IInv, [AlertNext]_vars
    PROVE  GrafanaInv'
<1>1. UNCHANGED inputVars /\ UNCHANGED <<request, query>>
    BY Frames
<1>2. IsBundle(local', DOMAIN groups') /\ IsGrafana(groups', local')
    BY <1>1, GroupsKept DEF IInv, GrafanaInv, inputVars
<1>3. points' \subseteq GrafanaPoint /\ tree' \in GrafanaTree
  <2>1. points \subseteq GrafanaPoint /\ tree \in GrafanaTree /\ IsBundle(local, DOMAIN groups)
      BY DEF IInv, GrafanaInv
  <2>2. CASE UNCHANGED <<points, tree>>
      BY <2>1, <2>2
  <2>3. CASE PushStep
    <3>1. CASE \E c \in TodoOf("ContactPoint"), err \in WriteErrors : PointWritten(c, err)
      <4>1. PICK c \in TodoOf("ContactPoint"), err \in WriteErrors : PointWritten(c, err)
          BY <3>1
      <4>2. tree' = tree
          BY <4>1 DEF PointWritten
      <4> QED BY <2>1, <4>1, <4>2, PointsKept
    <3>2. CASE \E c \in TodoOf("PolicyTree"), err \in WriteErrors : TreeWritten(c, err)
      <4>1. PICK c \in TodoOf("PolicyTree"), err \in WriteErrors : TreeWritten(c, err)
          BY <3>2
      <4>2. local.tree \in PolicyTree
          BY <2>1 DEF IsBundle
      <4>3. \A header : PutTree(local.tree, header) \in GrafanaTree
          BY <4>2, StampIsText DEF PutTree, PolicyTree, GrafanaTree
      <4> QED BY <2>1, <4>1, <4>3 DEF TreeWritten
    <3>3. UNCHANGED <<points, tree>>
             \/ (\E c \in TodoOf("ContactPoint"), err \in WriteErrors : PointWritten(c, err))
             \/ (\E c \in TodoOf("PolicyTree"), err \in WriteErrors : TreeWritten(c, err))
      <4>1. CASE phase \in {"start", "lookup", "fetch", "fetchTree", "plan", "done"}
          BY <2>3, <4>1
             DEF PushStep, Next, Fetch, grafanaVars, Apply, PushContactPoint, PushPolicyTree,
                 NextPhase, CheckFolders, RecordBlocked, PushRuleGroup, Finish
      <4>2. CASE Writing
        <5>1. \A c \in todo : c \in Plan(Pushed, remote)
            BY <4>2 DEF IInv, PlanInv
        <5> QED BY <2>1, <2>3, <5>1, PushSteps
                DEF Fetch, grafanaVars, GroupBlocked, GroupWritten, Between
      <4> QED BY <4>1, <4>2 DEF IInv, TypeOK, Writing
    <3> QED BY <2>2, <3>1, <3>2, <3>3
  <2> QED BY <2>2, <2>3, Frames
<1>4. \A u \in DOMAIN live' : live'[u] \in {"firing", "inactive"}
  <2>1. \A u \in DOMAIN live : live[u] \in {"firing", "inactive"}
      BY DEF IInv, GrafanaInv
  <2>2. CASE Evaluate
      BY <2>1, <2>2 DEF Evaluate
  <2>3. CASE live' = live
      BY <2>1, <2>3
  <2>4. Evaluate \/ live' = live
      BY DEF AlertNext, PushStep, OpStep, QueryStep, Edit, SessionDies, vars
  <2> QED BY <2>2, <2>3, <2>4
<1> QED BY <1>1, <1>2, <1>3, <1>4 DEF IInv, GrafanaInv, inputVars

-----------------------------------------------------------------------------
(* Queries                                                                 *)

LiveStates == \A u \in DOMAIN live : live[u] \in {"firing", "inactive"}

LEMMA DefinitionIs ==
    ASSUME NEW d \in Q!Definitions
    PROVE  \E g \in DOMAIN groups : \E r \in RuleSet(groups[g].rules) :
              d = [uid |-> r.uid, folder |-> g[1], recording |-> r.val = Q!RecordVal]
BY SameRules DEF Q!Definitions

\* A uid is that of one rule.
LEMMA DefinitionsApart ==
    ASSUME IsGrafana(groups, local), NEW d \in Q!Definitions, NEW e \in Q!Definitions, d.uid = e.uid
    PROVE  d = e
<1>1. PICK g \in DOMAIN groups : \E r \in RuleSet(groups[g].rules) :
         d = [uid |-> r.uid, folder |-> g[1], recording |-> r.val = Q!RecordVal]
    BY DefinitionIs
<1>2. PICK r \in RuleSet(groups[g].rules) :
         d = [uid |-> r.uid, folder |-> g[1], recording |-> r.val = Q!RecordVal]
    BY <1>1
<1>3. PICK h \in DOMAIN groups : \E q \in RuleSet(groups[h].rules) :
         e = [uid |-> q.uid, folder |-> h[1], recording |-> q.val = Q!RecordVal]
    BY DefinitionIs
<1>4. PICK q \in RuleSet(groups[h].rules) :
         e = [uid |-> q.uid, folder |-> h[1], recording |-> q.val = Q!RecordVal]
    BY <1>3
<1>5. r.uid = q.uid
    BY <1>2, <1>4
<1>6. g = h
    BY <1>5 DEF IsGrafana, RulesApart
<1>7. r = q
    BY <1>5, <1>6 DEF IsGrafana, HeldIn, RuleSet
<1> QED BY <1>2, <1>4, <1>6, <1>7

FactOf(d) ==
    [uid |-> d.uid, folder |-> d.folder, named |-> d.folder \in DOMAIN Q!FolderPaths,
     state |-> IF d.recording THEN "recording"
               ELSE IF d.uid \in DOMAIN live THEN live[d.uid] ELSE "unknown"]

LEMMA FactsAre == Q!Facts = {FactOf(d) : d \in Q!Definitions}
BY DEF Q!Facts, FactOf

LEMMA FactIs ==
    ASSUME LiveStates, NEW d \in Q!Definitions
    PROVE  /\ FactOf(d) \in Q!Facts /\ FactOf(d).uid = d.uid /\ FactOf(d).folder = d.folder
           /\ FactOf(d).named <=> d.folder \in DOMAIN Q!FolderPaths
           /\ FactOf(d).state \notin {"gone", "unavailable"}
           /\ FactOf(d).state = "recording" <=> d.recording
           /\ ~d.recording =>
                 FactOf(d).state = IF d.uid \in DOMAIN live THEN live[d.uid] ELSE "unknown"
<1>1. FactOf(d) \in Q!Facts
    BY FactsAre
<1> QED BY <1>1 DEF FactOf, LiveStates

LEMMA AskedStep ==
    ASSUME IInv, [AlertNext]_vars
    PROVE  AskedInv'
<1> SUFFICES ASSUME asked' = "states" PROVE AskedInv'
    BY DEF AskedInv
<1>1. CASE UNCHANGED vars
  <2>1. UNCHANGED <<groups, live, ever, always, asked, definitions, query>>
      BY <1>1 DEF vars, grafanaVars, queryVars
  <2>2. Q!Facts' = Q!Facts
      BY <2>1 DEF Q!Facts, Q!Definitions, Q!FolderPaths
  <2> QED BY <2>1, <2>2 DEF IInv, AskedInv, Q!Gone
<1>2. CASE AlertNext /\ UNCHANGED queryVars
  <2> DEFINE uidsOf(facts) == {fact.uid : fact \in facts}
             gone == {Q!Gone(u) : u \in uidsOf(ever) \ uidsOf(Q!Facts')}
  <2>1. asked = "states" /\ UNCHANGED <<query, definitions>>
      BY <1>2 DEF queryVars
  <2>2. ever' = ever \cup Q!Facts' \cup gone /\ always' = always \cap Q!Facts'
      BY <1>2, <2>1 DEF AlertNext, Observe
  <2>3. AskedInv
      BY DEF IInv
  <2>4. Q!Facts' \subseteq ever' /\ always' \subseteq Q!Facts' /\ always' \subseteq always
        /\ ever \subseteq ever'
      BY <2>2
  <2>5. ASSUME NEW fact \in ever'
        PROVE  Q!Gone(fact.uid) \in ever' \/ \E now \in Q!Facts' : now.uid = fact.uid
    <3>1. CASE fact \in ever
        BY <2>2, <3>1
    <3>2. CASE fact \in Q!Facts'
        BY <3>2
    <3>3. CASE fact \in gone
      <4>1. PICK u \in uidsOf(ever) : fact = Q!Gone(u)
          BY <3>3
      <4>2. fact.uid = u
          BY <4>1 DEF Q!Gone
      <4>3. fact \in ever'
          BY <2>2, <3>3
      <4> QED BY <4>1, <4>2, <4>3
    <3> QED BY <2>2, <3>1, <3>2, <3>3
  <2>6. \A d \in definitions : \E fact \in ever' :
           /\ fact.uid = d.uid /\ fact.folder = d.folder /\ fact.state # "gone"
           /\ fact.state = "recording" <=> d.recording
      BY <2>1, <2>3, <2>4 DEF AskedInv
  <2>7. query.cmd = "list" =>
           \A fact \in always' : \E d \in definitions :
              /\ d.uid = fact.uid /\ d.folder = fact.folder
              /\ fact.state = "recording" <=> d.recording
      BY <2>1, <2>3, <2>4 DEF AskedInv
  <2>8. \A u : Q!Gone(u)' = Q!Gone(u)
      BY DEF Q!Gone
  <2> HIDE DEF gone
  <2> QED BY <2>1, <2>4, <2>5, <2>6, <2>7, <2>8 DEF AskedInv
<1>3. CASE QueryStep /\ Observe
  <2>1. Q!AskDefinitions /\ UNCHANGED <<groups, live, query>>
    <3>1. Q!AskStates => asked' = "done"
        BY DEF Q!AskStates, Q!Fail
    <3>2. UNCHANGED <<groups, live, query>>
        BY <1>3, Frames DEF QueryStep, grafanaVars
    <3> QED BY <1>3, <3>1, <3>2 DEF QueryStep, Q!Next
  <2>2. Q!Facts' = Q!Facts
      BY <2>1 DEF Q!Facts, Q!Definitions, Q!FolderPaths
  <2>3. /\ asked = "ask"
        /\ definitions' = {d \in Q!Definitions : query.cmd = "get" => d.uid = query.uid}
      BY <2>1 DEF Q!AskDefinitions, Q!Fail
  <2>4. ever' = Q!Facts /\ always' = Q!Facts
      BY <1>3, <2>2, <2>3 DEF Observe
  <2>5. LiveStates
      BY DEF IInv, GrafanaInv, LiveStates
  <2>6. ASSUME NEW d \in definitions'
        PROVE  \E fact \in ever' :
                  /\ fact.uid = d.uid /\ fact.folder = d.folder /\ fact.state # "gone"
                  /\ fact.state = "recording" <=> d.recording
      BY <2>3, <2>4, <2>5, FactIs
  <2>7. ASSUME query.cmd = "list", NEW fact \in always'
        PROVE  \E d \in definitions' :
                  /\ d.uid = fact.uid /\ d.folder = fact.folder
                  /\ fact.state = "recording" <=> d.recording
    <3>1. PICK d \in Q!Definitions : fact = FactOf(d)
        BY <2>4, FactsAre
    <3> QED BY <2>3, <2>5, <2>7, <3>1, FactIs
  <2> QED BY <2>1, <2>2, <2>4, <2>6, <2>7 DEF AskedInv
<1> QED BY <1>1, <1>2, <1>3, Frames DEF AlertNext

-----------------------------------------------------------------------------
(* What a query answers                                                    *)

LEMMA EvaluatedFolders ==
    ASSUME NEW d \in Q!Definitions, d.uid \in DOMAIN live
    PROVE  d.folder \in DOMAIN Q!FolderPaths
BY DEF Q!FolderPaths

\* A definition joined with the states.
LEMMA JoinedFound ==
    ASSUME IsGrafana(groups, local), LiveStates, NEW d, NEW e \in Q!Definitions,
           e.uid = d.uid, e.uid \in DOMAIN live, NEW row, row = Q!Joined(d, Q!States, "unknown")
    PROVE  /\ row.uid = d.uid /\ row.folder = d.folder /\ row.names = FolderNames[e.folder]
           /\ row.state = IF d.recording THEN "recording"
                          ELSE IF e.recording THEN "unknown" ELSE live[d.uid]
<1> DEFINE found == {c \in Q!Definitions : c.uid \in DOMAIN live}
           entry(c) == [names |-> FolderNames[c.folder],
                        state |-> IF c.recording THEN "" ELSE live[c.uid]]
<1>1. Q!ByUID = [u \in {c.uid : c \in found} |-> entry(CHOOSE c \in found : c.uid = u)]
    BY DEF Q!ByUID
<1>2. d.uid \in {c.uid : c \in found}
    OBVIOUS
<1>3. (CHOOSE c \in found : c.uid = d.uid) = e
  <2>1. \A c \in found : c.uid = d.uid => c = e
      BY DefinitionsApart
  <2> QED BY <2>1
<1> HIDE DEF found
<1>4. d.uid \in DOMAIN Q!ByUID /\ Q!ByUID[d.uid] = entry(e)
    BY <1>1, <1>2, <1>3
<1>5. Q!States.byUID = Q!ByUID
    BY DEF Q!States
<1>6. live[d.uid] # ""
    BY DEF LiveStates
<1>7. /\ row.uid = d.uid /\ row.folder = d.folder
      /\ row.names = Q!ByUID[d.uid].names
      /\ row.state = IF d.recording THEN "recording"
                     ELSE IF Q!ByUID[d.uid].state # "" THEN Q!ByUID[d.uid].state ELSE "unknown"
    BY <1>4, <1>5 DEF Q!Joined
<1>8. entry(e).names = FolderNames[e.folder]
    OBVIOUS
<1>9. entry(e).state = IF e.recording THEN "" ELSE live[d.uid]
    OBVIOUS
<1> HIDE DEF entry
<1> QED BY <1>4, <1>6, <1>7, <1>8, <1>9

LEMMA JoinedMissing ==
    ASSUME NEW d, \A e \in Q!Definitions : e.uid = d.uid => e.uid \notin DOMAIN live,
           NEW row, row = Q!Joined(d, Q!States, "unknown")
    PROVE  /\ row.uid = d.uid /\ row.folder = d.folder
           /\ row.names \in {FolderNames[d.folder], Q!NoNames}
           /\ d.folder \in DOMAIN Q!FolderPaths => row.names = FolderNames[d.folder]
           /\ row.state = IF d.recording THEN "recording" ELSE "unknown"
<1>1. d.uid \notin DOMAIN Q!ByUID
    BY DEF Q!ByUID
<1>2. \A f \in DOMAIN Q!FolderPaths : Q!FolderPaths[f] = FolderNames[f]
    BY DEF Q!FolderPaths
<1>3. Q!States.byUID = Q!ByUID /\ Q!States.folderPaths = Q!FolderPaths
    BY DEF Q!States
<1> QED BY <1>1, <1>2, <1>3 DEF Q!Joined

LEMMA JoinedNone ==
    ASSUME NEW d, NEW row, row = Q!Joined(d, Q!NoStates, "unavailable")
    PROVE  /\ row.uid = d.uid /\ row.folder = d.folder /\ row.names = Q!NoNames
           /\ row.state = IF d.recording THEN "recording" ELSE "unavailable"
<1>1. Q!NoStates.byUID = <<>> /\ Q!NoStates.folderPaths = <<>>
    BY DEF Q!NoStates
<1>2. d.uid \notin DOMAIN <<>> /\ d.folder \notin DOMAIN <<>>
    OBVIOUS
<1> QED BY <1>1, <1>2 DEF Q!Joined

\* The two ways in which a query answers.
Answering(states, unjoined) ==
    \/ states = Q!States /\ unjoined = "unknown"
    \/ states = Q!NoStates /\ unjoined = "unavailable" /\ ~Q!StateDependent

LEMMA ListsAll ==
    ASSUME IInv, asked = "states", query.cmd = "list", NEW fact \in always, Satisfied(fact),
           NEW states, NEW unjoined, Answering(states, unjoined)
    PROVE  \E row \in Q!Rows(states, unjoined) :
              row.uid = fact.uid /\ row.state \in {fact.state, "unavailable"}
<1>0. IsGrafana(groups, local) /\ LiveStates
    BY DEF IInv, GrafanaInv, LiveStates
<1>1. PICK d \in definitions : /\ d.uid = fact.uid /\ d.folder = fact.folder
                               /\ fact.state = "recording" <=> d.recording
    BY DEF IInv, AskedInv
<1>2. PICK e \in Q!Definitions : fact = FactOf(e)
    BY FactsAre DEF IInv, AskedInv
<1>3. /\ e.uid = d.uid /\ e.folder = d.folder /\ (e.recording <=> d.recording)
      /\ fact.named <=> e.folder \in DOMAIN Q!FolderPaths
      /\ fact.state # "unavailable"
      /\ ~e.recording => fact.state = IF e.uid \in DOMAIN live THEN live[e.uid] ELSE "unknown"
    BY <1>0, <1>1, <1>2, FactIs
<1> DEFINE row == Q!Joined(d, states, unjoined)
<1>4. SUFFICES ASSUME row.uid = fact.uid,
                      ~(Q!Matched(row) /\ row.state \in {fact.state, "unavailable"})
               PROVE  FALSE
  <2>1. row.uid = fact.uid
      BY <1>1 DEF Q!Joined
  <2> QED BY <2>1 DEF Q!Rows
<1>5. CASE states = Q!States /\ unjoined = "unknown"
  <2>1. /\ row.folder = fact.folder /\ row.state = fact.state
        /\ fact.named => row.names = FolderNames[fact.folder]
    <3>1. CASE e.uid \in DOMAIN live
      <4> HIDE DEF row
      <4>1. /\ row.folder = d.folder /\ row.names = FolderNames[e.folder]
            /\ row.state = IF d.recording THEN "recording"
                           ELSE IF e.recording THEN "unknown" ELSE live[d.uid]
          BY <1>0, <1>3, <1>5, <3>1, JoinedFound DEF row
      <4> QED BY <1>1, <1>3, <3>1, <4>1
    <3>2. CASE e.uid \notin DOMAIN live
      <4>1. \A c \in Q!Definitions : c.uid = d.uid => c.uid \notin DOMAIN live
          BY <1>0, <1>3, <3>2, DefinitionsApart
      <4> HIDE DEF row
      <4>2. /\ row.folder = d.folder
            /\ d.folder \in DOMAIN Q!FolderPaths => row.names = FolderNames[d.folder]
            /\ row.state = IF d.recording THEN "recording" ELSE "unknown"
          BY <1>5, <4>1, JoinedMissing DEF row
      <4> QED BY <1>1, <1>3, <3>2, <4>2
    <3> QED BY <3>1, <3>2
  <2> HIDE DEF row
  <2>2. Q!InFolder(query.folder, row.folder, row.names)
      BY <2>1 DEF Satisfied, Q!InFolder
  <2>3. Q!StateFilter \in {"", row.state}
      BY <2>1 DEF Satisfied
  <2> QED BY <1>4, <2>1, <2>2, <2>3 DEF Q!Matched
<1>6. CASE states = Q!NoStates /\ unjoined = "unavailable" /\ ~Q!StateDependent
  <2>1. row.state = IF d.recording THEN "recording" ELSE "unavailable"
      BY <1>6, JoinedNone
  <2> HIDE DEF row
  <2>2. query.folder = "" /\ Q!StateFilter \in {"", "recording", "unavailable"}
      BY <1>6 DEF Q!StateDependent
  <2>3. Q!InFolder(query.folder, row.folder, row.names)
      BY <2>2 DEF Q!InFolder
  <2>4. Q!StateFilter \in {"", row.state} /\ row.state \in {fact.state, "unavailable"}
      BY <1>1, <1>3, <2>1, <2>2 DEF Satisfied
  <2> QED BY <1>4, <2>3, <2>4 DEF Q!Matched
<1> QED BY <1>5, <1>6 DEF Answering

\* What AnswersAreHonest says of a row, given the facts that were told.
Told(row, told) ==
    /\ \E fact \in told :
          /\ fact.uid = row.uid
          /\ \/ row.state \in {fact.state, "unavailable"}
             \/ row.state = "unknown" /\ fact.state \in {"gone", "recording"}
    /\ \E fact \in told : fact.uid = row.uid /\ fact.state # "gone" /\ fact.folder = row.folder
    /\ \E fact \in told :
          /\ fact.uid = row.uid /\ fact.state # "gone"
          /\ row.names \in {Q!NoNames, FolderNames[fact.folder]}
          /\ Q!InFolder(query.folder, row.folder, FolderNames[fact.folder])

LEMMA ListsTruth ==
    ASSUME IInv, asked = "states", query.cmd # "none",
           NEW states, NEW unjoined, Answering(states, unjoined), NEW row \in Q!Rows(states, unjoined)
    PROVE  Told(row, ever)
<1>0. IsGrafana(groups, local) /\ LiveStates
    BY DEF IInv, GrafanaInv, LiveStates
<1>1. PICK d \in definitions : row = Q!Joined(d, states, unjoined) /\ Q!Matched(row)
    BY DEF Q!Rows
<1>2. row.uid = d.uid /\ row.folder = d.folder
    BY <1>1 DEF Q!Joined
<1>3. PICK fact \in ever :
         /\ fact.uid = d.uid /\ fact.folder = d.folder /\ fact.state # "gone"
         /\ fact.state = "recording" <=> d.recording
    BY DEF IInv, AskedInv
<1>4. query.folder = "" \/ Q!InFolder(query.folder, row.folder, row.names)
    BY <1>1 DEF Q!Matched, IInv, GrafanaInv
<1>5. \E f \in ever : f.uid = row.uid /\ f.state # "gone" /\ f.folder = row.folder
    BY <1>2, <1>3
<1>6. \A place : row.names \in {Q!NoNames, FolderNames[place]} =>
         Q!InFolder(query.folder, row.folder, FolderNames[place])
  <2> SUFFICES ASSUME NEW place, row.names \in {Q!NoNames, FolderNames[place]}
               PROVE  Q!InFolder(query.folder, row.folder, FolderNames[place])
      OBVIOUS
  <2>1. CASE row.names = Q!NoNames
    <3>1. Q!NoNames.path = "" /\ Q!NoNames.leaf = ""
        BY DEF Q!NoNames
    <3> QED BY <1>4, <2>1, <3>1 DEF Q!InFolder
  <2>2. CASE row.names = FolderNames[place]
      BY <1>4, <2>2 DEF Q!InFolder
  <2> QED BY <2>1, <2>2
<1>7. CASE states = Q!States /\ unjoined = "unknown"
  <2>1. CASE \E e \in Q!Definitions : e.uid = d.uid /\ e.uid \in DOMAIN live
    <3>1. PICK e \in Q!Definitions : e.uid = d.uid /\ e.uid \in DOMAIN live
        BY <2>1
    <3>2. /\ row.names = FolderNames[e.folder]
          /\ row.state = IF d.recording THEN "recording"
                         ELSE IF e.recording THEN "unknown" ELSE live[d.uid]
        BY <1>0, <1>1, <1>7, <3>1, JoinedFound
    <3>3. /\ FactOf(e) \in ever /\ FactOf(e).uid = d.uid /\ FactOf(e).folder = e.folder
          /\ FactOf(e).state # "gone" /\ (FactOf(e).state = "recording" <=> e.recording)
          /\ ~e.recording => FactOf(e).state = live[d.uid]
        BY <1>0, <3>1, FactIs DEF IInv, AskedInv
    <3> QED BY <1>2, <1>3, <1>5, <1>6, <3>2, <3>3 DEF Told
  <2>2. CASE \A e \in Q!Definitions : e.uid = d.uid => e.uid \notin DOMAIN live
    <3>1. /\ row.names \in {FolderNames[d.folder], Q!NoNames}
          /\ row.state = IF d.recording THEN "recording" ELSE "unknown"
        BY <1>1, <1>7, <2>2, JoinedMissing
    <3>2. CASE Q!Gone(d.uid) \in ever
      <4>1. Q!Gone(d.uid).uid = d.uid /\ Q!Gone(d.uid).state = "gone"
          BY DEF Q!Gone
      <4> QED BY <1>2, <1>3, <1>5, <1>6, <3>1, <3>2, <4>1 DEF Told
    <3>3. CASE \E now \in Q!Facts : now.uid = d.uid
      <4>1. PICK now \in Q!Facts : now.uid = d.uid
          BY <3>3
      <4>2. PICK e \in Q!Definitions : now = FactOf(e)
          BY FactsAre
      <4>3. now.state \in {"recording", "unknown"} /\ now \in ever
          BY <1>0, <2>2, <4>1, <4>2, FactIs DEF IInv, AskedInv
      <4> QED BY <1>2, <1>3, <1>5, <1>6, <3>1, <4>1, <4>3 DEF Told
    <3> QED BY <1>3, <3>2, <3>3 DEF IInv, AskedInv
  <2> QED BY <2>1, <2>2
<1>8. CASE states = Q!NoStates /\ unjoined = "unavailable" /\ ~Q!StateDependent
  <2>1. row.names = Q!NoNames /\ row.state = IF d.recording THEN "recording" ELSE "unavailable"
      BY <1>1, <1>8, JoinedNone
  <2> QED BY <1>2, <1>3, <1>5, <1>6, <2>1 DEF Told
<1> QED BY <1>7, <1>8 DEF Answering

LEMMA AnswersStep ==
    ASSUME IInv, [AlertNext]_vars
    PROVE  AnswersAreHonest'
<1> SUFFICES ASSUME asked' = "done", query'.cmd # "none", answer'.err = "nil"
             PROVE  AnswersAreHonest'
    BY DEF AnswersAreHonest
<1>0. query' = query
    BY Frames
<1>1. CASE UNCHANGED queryVars
  <2>1. UNCHANGED <<query, asked, definitions, answer>>
      BY <1>1 DEF queryVars
  <2>2. UNCHANGED <<ever, always>>
      BY <2>1 DEF AlertNext, Observe, vars
  <2> QED BY <2>1, <2>2
          DEF IInv, AnswersAreHonest, Satisfied, Q!InFolder, Q!StateFilter, Q!NoNames
<1>2. CASE QueryStep /\ AlertNext
  <2>1. Q!AskStates
    <3>1. Q!AskDefinitions => asked' # "done" \/ answer'.err # "nil"
      <4>1. Q!AskDefinitions /\ asked' = "done" => \E err \in {"401", "error"} : Q!Fail(err)
          BY DEF Q!AskDefinitions, Q!Errors
      <4> QED BY <4>1 DEF Q!Fail
    <3> QED BY <1>2, <3>1 DEF QueryStep, Q!Next
  <2>2. asked = "states"
      BY <2>1 DEF Q!AskStates
  <2>3. PICK states, unjoined : Answering(states, unjoined) /\ answer'.rows = Q!Rows(states, unjoined)
    <3>1. CASE answer' = [rows |-> Q!Rows(Q!States, "unknown"), err |-> "nil"]
      <4>1. answer'.rows = Q!Rows(Q!States, "unknown")
          BY <3>1
      <4> QED BY <4>1 DEF Answering
    <3>2. CASE ~Q!StateDependent
               /\ answer' = [rows |-> Q!Rows(Q!NoStates, "unavailable"), err |-> "nil"]
      <4>1. answer'.rows = Q!Rows(Q!NoStates, "unavailable")
          BY <3>2
      <4> QED BY <3>2, <4>1 DEF Answering
    <3>3. \A err : Q!Fail(err) => err = "nil"
        BY DEF Q!Fail
    <3>4. \A err \in Q!Errors : err # "nil"
        BY DEF Q!Errors
    <3> QED BY <2>1, <3>1, <3>2, <3>3, <3>4 DEF Q!AskStates
  <2>4. ever \subseteq ever' /\ always' \subseteq always
      BY <1>2, <2>2 DEF AlertNext, Observe
  <2>5. query.cmd # "none"
      BY <1>0
  <2>6. \A fact \in always' : query.cmd = "list" /\ Satisfied(fact) =>
           \E row \in answer'.rows : row.uid = fact.uid /\ row.state \in {fact.state, "unavailable"}
      BY <2>2, <2>3, <2>4, ListsAll
  <2>7. \A row \in answer'.rows : Told(row, ever)
      BY <2>2, <2>3, <2>5, ListsTruth
  <2>8. ASSUME NEW row \in answer'.rows
        PROVE  LET facts == {fact \in ever' : fact.uid = row.uid}
                   places == {fact.folder : fact \in {fact \in facts : fact.state # "gone"}}
               IN  /\ \E fact \in facts :
                         \/ row.state \in {fact.state, "unavailable"}
                         \/ row.state = "unknown" /\ fact.state \in {"gone", "recording"}
                   /\ row.folder \in places
                   /\ \E place \in places :
                         /\ row.names \in {Q!NoNames, FolderNames[place]}
                         /\ Q!InFolder(query.folder, row.folder, FolderNames[place])
      BY <2>4, <2>7 DEF Told
  <2>9. \A fact : Satisfied(fact)' = Satisfied(fact)
      BY <1>0 DEF Satisfied, Q!InFolder, Q!StateFilter
  <2> QED BY <1>0, <2>6, <2>8, <2>9 DEF AnswersAreHonest, Q!InFolder, Q!NoNames
<1> QED BY <1>1, <1>2, Frames DEF vars, queryVars

-----------------------------------------------------------------------------
(* Rule operations                                                         *)

\* The rules of one PUT.
LEMMA BatchIs ==
    ASSUME OpInv
    PROVE  /\ O!Batch \in Seq(Elements(request.uids))
           /\ O!RestOfRules \in Seq([uid : Elements(request.uids), ref : DOMAIN groups, prov : Texts])
<1> DEFINE Located == [uid : Elements(request.uids), ref : DOMAIN groups, prov : Texts]
           batch == Those(rules, {i \in DOMAIN rules : rules[i].ref = O!Ref})
           rest == Those(rules, {i \in DOMAIN rules : rules[i].ref # O!Ref})
<1>1. rules \in Seq(Located)
    BY DEF OpInv
<1>2. batch \in Seq(Located) /\ rest \in Seq(Located)
  <2> HIDE DEF Located
  <2> QED BY <1>1, ThoseAre
<1>3. O!Batch = [i \in DOMAIN batch |-> batch[i].uid] /\ O!RestOfRules = rest
    BY SameThose DEF O!Batch, O!UidsOf, O!RestOfRules
<1> HIDE DEF batch
<1>4. \A i \in DOMAIN batch : batch[i] \in Located
  <2> HIDE DEF Located
  <2> QED BY <1>2
<1>5. \A i \in DOMAIN batch : batch[i].uid \in Elements(request.uids)
    BY <1>4
<1>6. DOMAIN batch = 1..Len(batch) /\ Len(batch) \in Nat
    BY <1>2
<1>7. O!Batch \in [1..Len(batch) -> Elements(request.uids)]
    BY <1>3, <1>5, <1>6
<1>8. O!Batch \in Seq(Elements(request.uids))
    BY <1>6, <1>7
<1> QED BY <1>2, <1>3, <1>8

LEMMA TargetsAre ==
    ASSUME OpInv, NEW group, NEW u \in Elements(O!Targets(group))
    PROVE  /\ u \in Elements(request.uids) /\ O!Holds(group, u)
           /\ RuleWith(group.rules, u).paused # O!Paused
<1> DEFINE kept == {i \in DOMAIN O!Batch : /\ O!Holds(group, O!Batch[i])
                                           /\ RuleWith(group.rules, O!Batch[i]).paused # O!Paused}
           batch == O!Batch
<1>1. O!Targets(group) = Those(batch, kept)
    BY SameThose, SameRules DEF O!Targets
<1>2. batch \in Seq(Elements(request.uids))
    BY BatchIs
<1> HIDE DEF batch
<1>3. \A k \in DOMAIN Those(batch, kept) : \E i \in DOMAIN batch :
         i \in kept /\ Those(batch, kept)[k] = batch[i]
  <2> HIDE DEF kept
  <2> QED BY <1>2, ThoseAre
<1>4. PICK k \in DOMAIN O!Targets(group) : u = O!Targets(group)[k]
    BY DEF Elements
<1>5. PICK i \in DOMAIN batch : i \in kept /\ u = batch[i]
    BY <1>1, <1>3, <1>4
<1>6. u \in Elements(request.uids)
    BY <1>2, <1>5
<1> QED BY <1>5, <1>6 DEF batch

LEMMA HoldsRule ==
    ASSUME NEW group, NEW u, O!Holds(group, u)
    PROVE  /\ u # NoUid /\ \E i \in DOMAIN group.rules : group.rules[i].uid = u
           /\ RuleWith(group.rules, u) \in RuleSet(group.rules)
           /\ RuleWith(group.rules, u).uid = u
BY SameRules DEF O!Holds, Uids, RuleWith, RuleSet

LEMMA OnlyRule ==
    ASSUME NEW gs, NEW bundle, IsGrafana(gs, bundle), NEW g \in DOMAIN gs,
           NEW q \in RuleSet(gs[g].rules), NEW h \in DOMAIN gs, NEW r \in RuleSet(gs[h].rules),
           r.uid = q.uid
    PROVE  h = g /\ r = q
<1>1. h = g
    BY DEF IsGrafana, RulesApart
<1> QED BY <1>1 DEF IsGrafana, HeldIn, RuleSet

\* What the operation does next.
LEMMA OpKeeps ==
    ASSUME IInv, O!Next
    PROVE  /\ step # "done" /\ queue' \in Seq(Elements(request.uids))
           /\ rules' \in Seq([uid : Elements(request.uids), ref : DOMAIN groups, prov : Texts])
<1> DEFINE Located == [uid : Elements(request.uids), ref : DOMAIN groups, prov : Texts]
<1>1. queue \in Seq(Elements(request.uids)) /\ rules \in Seq(Located)
    BY DEF IInv, OpInv
<1>2. O!RestOfRules \in Seq(Located)
    BY BatchIs DEF IInv
<1>3. step # "done"
    BY DEF O!Next, O!Resolve, O!Resolved, O!DeleteNamedRule, O!FetchBatch, O!PutBatch, O!Finish
<1>4. CASE O!Resolve
  <2>1. Head(queue) \in Elements(request.uids) /\ queue' = Tail(queue) /\ queue # <<>>
      BY <1>1, <1>4 DEF O!Resolve
  <2>2. Tail(queue) \in Seq(Elements(request.uids))
      BY <1>1, <2>1
  <2>3. rules' = rules \/ \E g \in O!HolderOf(Head(queue)) :
           rules' = Append(rules, [uid |-> Head(queue), ref |-> g,
                                   prov |-> O!RuleWith(groups[g].rules, Head(queue)).prov])
      BY <1>4 DEF O!Resolve
  <2>4. ASSUME NEW g \in O!HolderOf(Head(queue))
        PROVE  [uid |-> Head(queue), ref |-> g,
                prov |-> O!RuleWith(groups[g].rules, Head(queue)).prov] \in Located
    <3>1. g \in DOMAIN groups /\ Head(queue) \in Uids(groups[g].rules)
        BY SameRules DEF O!HolderOf
    <3> DEFINE r == RuleWith(groups[g].rules, Head(queue))
    <3>2. r \in RuleSet(groups[g].rules)
        BY <3>1 DEF Uids, RuleWith
    <3>3. groups[g].rules \in Seq(GrafanaRule)
        BY <3>1 DEF IInv, GrafanaInv, IsGrafana, HeldIn, GrafanaGroup
    <3> HIDE DEF r
    <3>4. r \in GrafanaRule
        BY <3>2, <3>3 DEF RuleSet
    <3>5. r.prov \in Texts
        BY <3>4 DEF GrafanaRule
    <3> QED BY <2>1, <3>1, <3>5, SameRules DEF r
  <2> HIDE DEF Located
  <2>5. rules' = rules \/ \E located \in Located : rules' = Append(rules, located)
      BY <2>3, <2>4
  <2>6. rules' \in Seq(Located)
      BY <1>1, <2>5
  <2> QED BY <1>3, <2>1, <2>2, <2>6 DEF Located
<1>5. CASE O!Resolved \/ O!Finish
    BY <1>1, <1>3, <1>5 DEF O!Resolved, O!Finish
<1>6. CASE O!DeleteNamedRule
  <2>1. rules' = Tail(rules) /\ rules # <<>> /\ queue' = queue
      BY <1>6 DEF O!DeleteNamedRule
  <2> HIDE DEF Located
  <2>2. rules' \in Seq(Located)
      BY <1>1, <2>1
  <2> QED BY <1>1, <1>3, <2>1, <2>2 DEF Located
<1>7. CASE O!FetchBatch \/ O!PutBatch
  <2>1. queue' = queue /\ rules' \in {rules, O!RestOfRules}
      BY <1>7 DEF O!FetchBatch, O!PutBatch
  <2> HIDE DEF Located
  <2>2. rules' \in Seq(Located)
      BY <1>1, <1>2, <2>1
  <2> QED BY <1>1, <1>3, <2>1, <2>2 DEF Located
<1> QED BY <1>4, <1>5, <1>6, <1>7 DEF O!Next

\* Until the PUT.
LEMMA PutStarts ==
    ASSUME O!Next, step' = "put"
    PROVE  /\ request.op # "delete" /\ ~request.dryRun /\ rules # <<>> /\ rules' = rules
           /\ body' = groups[O!Ref] /\ O!Targets(groups[O!Ref]) # <<>>
           /\ GroupProvenanceHeader(groups[O!Ref].rules) # "refused" /\ groups' = groups
<1>1. ~O!Resolve /\ ~O!Resolved /\ ~O!DeleteNamedRule /\ ~O!PutBatch /\ ~O!Finish
    BY DEF O!Resolve, O!Resolved, O!DeleteNamedRule, O!PutBatch, O!Finish, O!Write, O!NextStep
<1>2. O!FetchBatch
    BY <1>1 DEF O!Next
<1>3. \A err : ~ O!NextStep(err, "apply")
    BY DEF O!NextStep
<1> QED BY <1>2, <1>3, SameHeader DEF O!FetchBatch

LEMMA OpStepKeeps ==
    ASSUME IInv, [AlertNext]_vars
    PROVE  OpInv'
<1>0. DOMAIN groups' = DOMAIN groups /\ UNCHANGED inputVars /\ UNCHANGED request
    BY Frames, GroupsKept
<1>1. CASE UNCHANGED opVars
  <2>1. UNCHANGED <<request, step, queue, rules, body>> /\ local' = local
      BY <1>0, <1>1 DEF opVars, inputVars
  <2>2. O!Ref' = O!Ref /\ O!Targets(body)' = O!Targets(body)
      BY <2>1 DEF O!Ref, O!Targets, O!Batch, O!UidsOf, O!Paused
  <2>3. GroupProvenanceHeader(body.rules)' = GroupProvenanceHeader(body.rules)
      BY <2>1 DEF GroupProvenanceHeader, ProvenanceHeader, RuleSet
  <2>4. HeldIn(local, O!Ref, body)' = HeldIn(local, O!Ref, body)
      BY <2>1, <2>2 DEF HeldIn, MayHold, RuleSet, Elements
  <2> QED BY <1>0, <2>1, <2>2, <2>3, <2>4 DEF IInv, OpInv, Elements
<1>2. CASE OpStep
  <2>0. O!Next /\ local' = local
      BY <1>0, <1>2 DEF OpStep, inputVars
  <2>1. step # "done" /\ queue' \in Seq(Elements(request'.uids))
        /\ rules' \in Seq([uid : Elements(request'.uids), ref : DOMAIN groups', prov : Texts])
      BY <1>0, <2>0, OpKeeps
  <2>2. request.op # "none"
      BY <2>1 DEF IInv, OpInv
  <2>3. ASSUME step' = "put"
        PROVE  /\ request'.op \in {"pause", "resume"} /\ ~request'.dryRun /\ rules' # <<>>
               /\ HeldIn(local', O!Ref', body') /\ O!Targets(body)' # <<>>
               /\ GroupProvenanceHeader(body.rules)' # "refused"
    <3>1. /\ request.op # "delete" /\ ~request.dryRun /\ rules # <<>> /\ rules' = rules
          /\ body' = groups[O!Ref] /\ O!Targets(groups[O!Ref]) # <<>>
          /\ GroupProvenanceHeader(groups[O!Ref].rules) # "refused"
        BY <2>0, <2>3, PutStarts
    <3>2. request.op \in {"pause", "resume"}
        BY <2>2, <3>1 DEF IInv, GrafanaInv, RuleRequest
    <3>3. O!Ref' = O!Ref /\ O!Targets(body)' = O!Targets(groups[O!Ref])
        BY <1>0, <3>1 DEF O!Ref, O!Targets, O!Batch, O!UidsOf, O!Paused
    <3>4. GroupProvenanceHeader(body.rules)' = GroupProvenanceHeader(groups[O!Ref].rules)
        BY <3>1 DEF GroupProvenanceHeader, ProvenanceHeader, RuleSet
    <3>5. HeldIn(local, O!Ref, groups[O!Ref])
        BY <3>1, RefIs DEF IInv, GrafanaInv, IsGrafana
    <3> QED BY <1>0, <2>0, <3>1, <3>2, <3>3, <3>4, <3>5
  <2> QED BY <1>0, <2>1, <2>2, <2>3 DEF OpInv
<1> QED BY <1>1, <1>2, Frames

\* A rule whose outcome turns into "changed" or "unchanged".
LEMMA OutcomeStep ==
    ASSUME IInv, [AlertNext]_vars, ~request.dryRun, NEW u \in DOMAIN outcome,
           outcome'[u] # outcome[u], outcome'[u] \in {"changed", "unchanged"}
    PROVE  \/ /\ request.op = "delete"
              /\ \A g \in DOMAIN groups : \A r \in RuleSet(groups'[g].rules) : r.uid # u
           \/ /\ request.op # "delete"
              /\ \E g \in DOMAIN groups : \E q \in RuleSet(groups'[g].rules) :
                    q.uid = u /\ q.paused = O!Paused
<1>1. O!Next
  <2>1. ~ UNCHANGED opVars
      BY DEF opVars
  <2> QED BY <2>1, Frames DEF OpStep
<1>2. IsGrafana(groups, local) /\ OpInv
    BY DEF IInv, GrafanaInv
<1>3. \A seq, err : O!RecordError(seq, err) /\ err # "changed" => outcome'[u] \in {outcome[u], err}
    BY DEF O!RecordError, O!RecordAll
<1>4. ~O!Resolve
  <2>1. \A err \in O!Errors : err \in {"401", "error"}
      BY DEF O!Errors
  <2>2. O!Resolve => outcome' = outcome
                     \/ \E seq : \E err \in {"401", "error"} : O!RecordError(seq, err)
      BY <2>1 DEF O!Resolve
  <2> QED BY <1>3, <2>2
<1>5. ~O!Resolved /\ ~O!Finish
    BY DEF O!Resolved, O!Finish
<1>6. CASE O!DeleteNamedRule
  <2> DEFINE uid == Head(rules).uid
  <2>1. /\ request.op = "delete"
        /\ outcome' = O!RecordAll(<<uid>>, "changed") /\ groups' = O!DeleteRule(groups, uid)
    <3>1. \A err : err \in {"error", "401"} => ~O!RecordError(<<uid>>, err)
        BY <1>3
    <3> QED BY <1>6, <3>1 DEF O!DeleteNamedRule, O!Write
  <2>2. u = uid
    <3>1. u \in O!Elements(<<uid>>)
        BY <2>1 DEF O!RecordAll
    <3> QED BY <3>1 DEF O!Elements
  <2>3. groups' = DeleteRule(groups, u)
      BY <2>1, <2>2, SamePut
  <2>4. \A g \in DOMAIN groups : \A i \in DOMAIN groups'[g].rules : groups'[g].rules[i].uid # u
      BY <1>2, <2>3, DeleteKeeps
  <2> QED BY <2>1, <2>4 DEF RuleSet
<1>7. CASE O!FetchBatch
  <2> DEFINE group == groups[O!Ref]
  <2>1. rules # <<>> /\ request.op # "delete" /\ groups' = groups
      BY <1>7 DEF O!FetchBatch
  <2>2. O!Ref \in DOMAIN groups
      BY <1>2, <2>1, RefIs
  <2>3. \A seq : \A err \in O!Errors : ~O!RecordError(seq, err)
      BY <1>3 DEF O!Errors
  <2>4. outcome' = [v \in DOMAIN outcome |->
                       IF v \in O!Elements(O!Targets(group))
                       THEN IF O!GroupProvenanceHeader(group.rules) = "refused" THEN "error"
                            ELSE IF request.dryRun THEN "changed"
                            ELSE outcome[v]
                       ELSE O!Outcomes(group)[v]]
      BY <1>7, <2>3 DEF O!FetchBatch
  <2> HIDE DEF group
  <2>5. O!Outcomes(group)[u] \in {"changed", "unchanged"} /\ O!Outcomes(group)[u] # outcome[u]
      BY <2>4
  <2>6. O!Holds(group, u) /\ O!RuleWith(group.rules, u).paused = O!Paused
      BY <2>5 DEF O!Outcomes
  <2>7. /\ RuleWith(group.rules, u) \in RuleSet(group.rules) /\ RuleWith(group.rules, u).uid = u
        /\ RuleWith(group.rules, u).paused = O!Paused
      BY <2>6, HoldsRule, SameRules
  <2> QED BY <2>1, <2>2, <2>7 DEF group
<1>8. CASE O!PutBatch
  <2> DEFINE seq == O!Targets(body)
             flipped == O!Flipped(body)
             header == GroupProvenanceHeader(body.rules)
  <2>1. step = "put"
      BY <1>8 DEF O!PutBatch
  <2>2. /\ request.op # "delete" /\ HeldIn(local, O!Ref, body) /\ O!Ref \in DOMAIN groups
      BY <1>2, <2>1, RefIs DEF OpInv
  <2>3. /\ outcome' = O!RecordAll(seq, "changed")
        /\ groups' = PutGroup(groups, O!Ref, flipped, header)
    <3>1. \A s : \A err \in {"error", "401"} : ~O!RecordError(s, err)
        BY <1>3
    <3>2. /\ outcome' = O!RecordAll(seq, "changed")
          /\ groups' = O!PutGroup(groups, O!Ref, flipped, O!GroupProvenanceHeader(body.rules))
        BY <1>8, <3>1 DEF O!PutBatch, O!Write
    <3> QED BY <3>2, SamePut, SameHeader
  <2>4. u \in Elements(seq)
      BY <2>3, SameRules DEF O!RecordAll
  <2>5. PICK i \in DOMAIN body.rules : body.rules[i].uid = u
      BY <1>2, <2>4, TargetsAre, HoldsRule
  <2>6. /\ flipped.interval \in Nat /\ flipped.rules \in Seq(BundleRule)
        /\ DOMAIN flipped.rules = DOMAIN body.rules
        /\ flipped.rules[i] = FlippedRule(body.rules[i], Elements(seq))
        /\ flipped.rules[i].uid = u /\ flipped.rules[i] \in BundleRule /\ u # NoUid
    <3>1. u # NoUid
        BY <1>2, <2>4, TargetsAre, HoldsRule
    <3> QED BY <2>2, <2>5, <3>1, FlippedIs
  <2>7. flipped.rules[i].paused = O!Paused
    <3>1. flipped.rules[i] = [body.rules[i] EXCEPT !.paused = O!Paused]
        BY <2>4, <2>5, <2>6 DEF FlippedRule
    <3>2. body.rules[i] \in GrafanaRule
      <4>1. body.rules \in Seq(GrafanaRule)
          BY <2>2 DEF HeldIn, GrafanaGroup
      <4> QED BY <4>1
    <3> HIDE DEF flipped, seq
    <3> QED BY <3>1, <3>2 DEF GrafanaRule
  <2> HIDE DEF flipped, seq, header
  <2>8. /\ groups'[O!Ref].rules[i] = Stored(flipped.rules[i], header)
        /\ DOMAIN groups'[O!Ref].rules = DOMAIN body.rules
      BY <2>2, <2>3, <2>6, PutIs
  <2>9. Stored(flipped.rules[i], header).uid = u /\ Stored(flipped.rules[i], header).paused = O!Paused
      BY <2>6, <2>7, StoredIs
  <2>10. groups'[O!Ref].rules[i] \in RuleSet(groups'[O!Ref].rules)
      BY <2>8 DEF RuleSet
  <2> QED BY <2>2, <2>8, <2>9, <2>10
<1> QED BY <1>1, <1>4, <1>5, <1>6, <1>7, <1>8 DEF O!Next

LEMMA OutcomeHolds ==
    ASSUME IInv, [AlertNext]_vars, ~request.dryRun, NEW u \in DOMAIN outcome,
           outcome'[u] # outcome[u], outcome'[u] \in {"changed", "unchanged"}
    PROVE  LET now == {r \in UNION {RuleSet(groups'[g].rules) : g \in DOMAIN groups} : r.uid = u}
           IN  IF request.op = "delete" THEN now = {}
               ELSE now # {} /\ \A r \in now : r.paused = O!Paused
<1>1. DOMAIN groups' = DOMAIN groups /\ IsGrafana(groups', local)
    BY GroupsKept
<1>2. CASE /\ request.op = "delete"
           /\ \A g \in DOMAIN groups : \A r \in RuleSet(groups'[g].rules) : r.uid # u
    BY <1>2
<1>3. CASE /\ request.op # "delete"
           /\ \E g \in DOMAIN groups : \E q \in RuleSet(groups'[g].rules) :
                 q.uid = u /\ q.paused = O!Paused
  <2>1. PICK g \in DOMAIN groups : \E q \in RuleSet(groups'[g].rules) :
           q.uid = u /\ q.paused = O!Paused
      BY <1>3
  <2>2. PICK q \in RuleSet(groups'[g].rules) : q.uid = u /\ q.paused = O!Paused
      BY <2>1
  <2>3. ASSUME NEW h \in DOMAIN groups, NEW r \in RuleSet(groups'[h].rules), r.uid = u
        PROVE  r = q
      BY <1>1, <2>2, <2>3, OnlyRule
  <2> QED BY <1>3, <2>2, <2>3
<1> QED BY <1>2, <1>3, OutcomeStep

-----------------------------------------------------------------------------
(* Writing back a group with some of its rules changed                     *)

LEMMA ProvsFinite ==
    ASSUME NEW rules_ \in Seq(GrafanaRule)
    PROVE  IsFiniteSet({r.prov : r \in RuleSet(rules_)})
<1> DEFINE provs == {r.prov : r \in RuleSet(rules_)}
           f == [i \in 1..Len(rules_) |-> rules_[i].prov]
<1>1. Len(rules_) \in Nat /\ DOMAIN rules_ = 1..Len(rules_)
    OBVIOUS
<1>2. \A i \in 1..Len(rules_) : rules_[i].prov \in provs
    BY <1>1 DEF RuleSet
<1>3. \A p \in provs : \E i \in 1..Len(rules_) : rules_[i].prov = p
    BY <1>1 DEF RuleSet
<1> HIDE DEF provs
<1>4. f \in Surjection(1..Len(rules_), provs)
    BY <1>2, <1>3 DEF Surjection
<1>5. IsFiniteSet(1..Len(rules_))
    BY <1>1, FS_Interval
<1>6. IsFiniteSet(provs)
    BY <1>4, <1>5, FS_Surjection
<1> QED BY <1>6 DEF provs

\* A group that may be written at all has one provenance, which the write keeps.
LEMMA HeaderKeeps ==
    ASSUME NEW rules_ \in Seq(GrafanaRule), NEW header, header = GroupProvenanceHeader(rules_),
           header # "refused"
    PROVE  \A r \in RuleSet(rules_) : Stamp(header) = r.prov
<1> DEFINE provs == {r.prov : r \in RuleSet(rules_)}
<1>1. IsFiniteSet(provs)
    BY ProvsFinite
<1>2. header = CASE provs = {} -> "true"
                 [] Cardinality(provs) = 1 -> ProvenanceHeader(CHOOSE p \in provs : TRUE)
                 [] OTHER -> "refused"
    BY DEF GroupProvenanceHeader
<1>3. SUFFICES ASSUME NEW p \in provs PROVE Stamp(header) = p
    OBVIOUS
<1> HIDE DEF provs
<1>4. Cardinality(provs) = 1 /\ header = ProvenanceHeader(CHOOSE q \in provs : TRUE)
    BY <1>2, <1>3
<1>5. PICK only : provs = {only}
    BY <1>1, <1>4, FS_Singleton
<1>6. header = ProvenanceHeader(p)
    BY <1>3, <1>4, <1>5
<1> QED BY <1>6 DEF ProvenanceHeader, Stamp

LEMMA StoredSame ==
    ASSUME NEW r \in GrafanaRule, NEW header, Stamp(header) = r.prov
    PROVE  Stored(r, header) = r
<1>1. r.uid # NoUid
    BY DEF GrafanaRule
<1>2. r = [uid |-> r.uid, title |-> r.title, val |-> r.val, paused |-> r.paused, prov |-> r.prov]
    BY DEF GrafanaRule
<1> QED BY <1>1, <1>2 DEF Stored

LEMMA NoElements ==
    ASSUME NEW S, NEW s \in Seq(S), DOMAIN s = {}
    PROVE  s = <<>>
<1>1. Len(s) \in Nat /\ DOMAIN s = 1..Len(s)
    OBVIOUS
<1>2. Len(s) = 0
  <2> SUFFICES ASSUME Len(s) # 0 PROVE FALSE
      OBVIOUS
  <2>1. 1 \in 1..Len(s)
      BY <1>1
  <2> QED BY <1>1, <2>1
<1> QED BY <1>2

\* The group held with rules changed that are among uids, and a header for it.
Changes(held, group, header, uids) ==
    /\ group.interval = held.interval /\ group.rules \in Seq(BundleRule)
    /\ DOMAIN group.rules = DOMAIN held.rules
    /\ \A i \in DOMAIN held.rules :
          /\ group.rules[i].uid = held.rules[i].uid
          /\ held.rules[i].uid \notin uids => group.rules[i] = held.rules[i]
    /\ \A r \in RuleSet(held.rules) : Stamp(header) = r.prov

LEMMA WriteBack ==
    ASSUME NEW gs, NEW bundle, IsGrafana(gs, bundle), NEW g \in DOMAIN gs, NEW group,
           NEW header, NEW uids, Changes(gs[g], group, header, uids)
    PROVE  LET put == PutGroup(gs, g, group, header)
           IN  /\ \A h \in DOMAIN gs \ {g} : put[h] = gs[h]
               /\ SameBut(gs[g], put[g], uids)
               /\ \A i \in DOMAIN gs[g].rules :
                     put[g].rules[i] = Stored(group.rules[i], header)
<1> DEFINE put == PutGroup(gs, g, group, header)
           held == gs[g]
<1>0. /\ group.interval = gs[g].interval /\ group.rules \in Seq(BundleRule)
      /\ DOMAIN group.rules = DOMAIN gs[g].rules
      /\ \A i \in DOMAIN gs[g].rules :
            /\ group.rules[i].uid = gs[g].rules[i].uid
            /\ gs[g].rules[i].uid \notin uids => group.rules[i] = gs[g].rules[i]
      /\ \A r \in RuleSet(gs[g].rules) : Stamp(header) = r.prov
    BY DEF Changes
<1>1. HeldIn(bundle, g, held)
    BY DEF IsGrafana
<1>2. held.interval \in Nat /\ held.rules \in Seq(GrafanaRule)
    BY <1>1 DEF HeldIn, GrafanaGroup
<1>3. /\ put[g] \in GrafanaGroup
      /\ put[g].rules = <<>> => put[g] = NoGroup
      /\ group.rules # <<>> => put[g].interval = group.interval
      /\ DOMAIN put[g].rules = DOMAIN group.rules
      /\ \A i \in DOMAIN group.rules : put[g].rules[i] = Stored(group.rules[i], header)
      /\ \A h \in DOMAIN gs \ {g} : put[h] = Without(gs[h], Uids(group.rules))
    BY <1>0, <1>2, PutIs
<1> HIDE DEF put
<1>4. \A uid \in Uids(group.rules) : \E i \in DOMAIN held.rules : held.rules[i].uid = uid
    BY <1>0 DEF Uids, RuleSet
<1>5. ASSUME NEW h \in DOMAIN gs \ {g} PROVE put[h] = gs[h]
  <2>1. HeldIn(bundle, h, gs[h])
      BY DEF IsGrafana
  <2>2. \A i \in DOMAIN gs[h].rules : gs[h].rules[i].uid \notin Uids(group.rules)
    <3> SUFFICES ASSUME NEW i \in DOMAIN gs[h].rules, gs[h].rules[i].uid \in Uids(group.rules)
                 PROVE  FALSE
        OBVIOUS
    <3>1. PICK k \in DOMAIN held.rules : held.rules[k].uid = gs[h].rules[i].uid
        BY <1>4
    <3>2. held.rules[k] \in RuleSet(gs[g].rules) /\ gs[h].rules[i] \in RuleSet(gs[h].rules)
        BY DEF RuleSet
    <3> QED BY <3>1, <3>2 DEF IsGrafana, RulesApart
  <2>3. Without(gs[h], Uids(group.rules)) = gs[h]
      BY <2>1, <2>2, WithoutNone DEF HeldIn
  <2> QED BY <1>3, <2>3
<1>6. CASE held.rules = <<>>
  <2>1. group.rules = <<>> /\ put[g].rules = <<>>
    <3>1. DOMAIN group.rules = {} /\ DOMAIN put[g].rules = {}
        BY <1>0, <1>3, <1>6
    <3>2. put[g].rules \in Seq(GrafanaRule)
        BY <1>3 DEF GrafanaGroup
    <3> QED BY <1>0, <3>1, <3>2, NoElements
  <2>2. put[g] = held
      BY <1>1, <1>3, <1>6, <2>1 DEF HeldIn
  <2>3. SameBut(held, put[g], uids)
      BY <2>2 DEF SameBut
  <2> QED BY <1>0, <1>3, <1>5, <2>3 DEF put
<1>7. CASE held.rules # <<>>
  <2>1. put[g].interval = held.interval
      BY <1>0, <1>2, <1>3, <1>7
  <2>2. Len(held.rules) = Len(put[g].rules)
    <3>1. put[g].rules \in Seq(GrafanaRule) /\ DOMAIN put[g].rules = DOMAIN held.rules
        BY <1>0, <1>3 DEF GrafanaGroup
    <3> QED BY <1>2, <3>1
  <2>3. ASSUME NEW i \in DOMAIN held.rules
        PROVE  \/ held.rules[i] = put[g].rules[i]
               \/ held.rules[i].uid \in uids /\ put[g].rules[i].uid = held.rules[i].uid
    <3>1. held.rules[i] \in GrafanaRule /\ group.rules[i] \in BundleRule
          /\ put[g].rules[i] = Stored(group.rules[i], header)
        BY <1>0, <1>2, <1>3
    <3>2. Stamp(header) = held.rules[i].prov
        BY <1>0 DEF RuleSet
    <3>3. CASE held.rules[i].uid \notin uids
        BY <1>0, <3>1, <3>2, <3>3, StoredSame
    <3>4. CASE held.rules[i].uid \in uids
      <4>1. held.rules[i].uid # NoUid
          BY <3>1 DEF GrafanaRule
      <4> QED BY <1>0, <3>1, <3>4, <4>1, StoredIs
    <3> QED BY <3>3, <3>4
  <2>4. SameBut(held, put[g], uids)
      BY <2>1, <2>2, <2>3 DEF SameBut
  <2> QED BY <1>0, <1>3, <1>5, <2>4 DEF put
<1> QED BY <1>6, <1>7

\* A push of named rules.
LEMMA ScopedWrite ==
    ASSUME IInv, Scoped, ~disturbed, NEW g, NEW c, NEW err, GroupWritten(g, c, err)
    PROVE  /\ g.id \in DOMAIN groups /\ \A h \in DOMAIN groups \ {g.id} : groups'[h] = groups[h]
           /\ SameBut(groups[g.id], groups'[g.id], options.ruleUIDs)
<1>1. phase = "groups" /\ g \in NextGroups /\ c \in TodoOf("RuleGroup") /\ c.id = g.id
    BY DEF GroupWritten
<1>2. g.id \in DOMAIN groups /\ refs \subseteq DOMAIN remote.groups
    BY <1>1, WrittenFits
<1>3. CASE groups' = groups
    BY <1>2, <1>3 DEF SameBut
<1>4. CASE GroupHeader(g) # "refused" /\ groups' = PutGroup(groups, g.id, g, GroupHeader(g))
  <2>1. PICK n \in DOMAIN Pushed.groups : g = Pushed.groups[n]
      BY <1>1, NextGroupIs
  <2>2. GrafanaInv /\ IsGrafana(groups, local) /\ IsBundle(local, DOMAIN groups)
      BY DEF IInv, GrafanaInv
  <2>3. /\ g = SyntheticGroup(g.id, remote.groups[g.id], local, options.ruleUIDs)
        /\ g.id \in refs
      BY <2>1, <2>2, ScopedGroups
  <2>4. groups[g.id] = remote.groups[g.id]
      BY <1>1, <1>2, <2>3 DEF IInv, FetchedInv, Writing
  <2>5. PICK id : id = g.id
      OBVIOUS
  <2>6. PICK held : held = groups[id]
      OBVIOUS
  <2>7. HeldIn(local, id, held)
      BY <1>2, <2>2, <2>5, <2>6 DEF IsGrafana
  <2>8. \A uid \in options.ruleUIDs : Holders(local, uid) # {}
      BY <1>1 DEF IInv, FetchedInv
  <2>9. /\ g.interval = held.interval /\ g.rules \in Seq(BundleRule)
        /\ DOMAIN g.rules = DOMAIN held.rules
        /\ \A i \in DOMAIN held.rules :
              /\ g.rules[i].uid = held.rules[i].uid
              /\ held.rules[i].uid \notin options.ruleUIDs => g.rules[i] = held.rules[i]
    <3>1. g = SyntheticGroup(id, held, local, options.ruleUIDs)
        BY <2>3, <2>4, <2>5, <2>6
    <3> QED BY <2>2, <2>7, <2>8, <3>1, SyntheticIs
  <2>10. PICK header : header = GroupHeader(g)
      OBVIOUS
  <2>11. \A r \in RuleSet(held.rules) : Stamp(header) = r.prov
    <3>1. held.rules \in Seq(GrafanaRule)
        BY <2>7 DEF HeldIn, GrafanaGroup
    <3>2. CASE held.rules = <<>>
        BY <3>2 DEF RuleSet
    <3>3. CASE held.rules # <<>>
      <4>1. header = GroupProvenanceHeader(held.rules)
          BY <2>4, <2>5, <2>6, <2>10, <3>3 DEF GroupHeader
      <4> QED BY <1>4, <2>10, <3>1, <4>1, HeaderKeeps
    <3> QED BY <3>2, <3>3
  <2>12. /\ \A h \in DOMAIN groups \ {id} : PutGroup(groups, id, g, header)[h] = groups[h]
         /\ SameBut(groups[id], PutGroup(groups, id, g, header)[id], options.ruleUIDs)
    <3>1. Changes(groups[id], g, header, options.ruleUIDs)
        BY <2>6, <2>9, <2>11 DEF Changes
    <3>2. id \in DOMAIN groups
        BY <1>2, <2>5
    <3> QED BY <2>2, <3>1, <3>2, WriteBack
  <2> QED BY <1>2, <1>4, <2>5, <2>10, <2>12
<1> QED BY <1>3, <1>4 DEF GroupWritten

\* A pause.
LEMMA FlippedRuleIs ==
    ASSUME NEW r \in GrafanaRule, NEW uids
    PROVE  /\ FlippedRule(r, uids) \in GrafanaRule /\ FlippedRule(r, uids).prov = r.prov
           /\ FlippedRule(r, uids) \in {r, [r EXCEPT !.paused = O!Paused]}
<1> DEFINE paused == [r EXCEPT !.paused = O!Paused]
<1>1. O!Paused \in BOOLEAN
    BY DEF O!Paused
<1>2. paused \in GrafanaRule /\ paused.prov = r.prov
    BY <1>1 DEF GrafanaRule
<1> HIDE DEF paused
<1>3. FlippedRule(r, uids) = IF r.uid \in uids THEN paused ELSE r
    BY DEF FlippedRule, paused
<1> QED BY <1>2, <1>3 DEF paused

LEMMA PauseWrites ==
    ASSUME IInv, step = "put", groups[O!Ref] = body,
           groups' = PutGroup(groups, O!Ref, O!Flipped(body), GroupProvenanceHeader(body.rules))
    PROVE  /\ \A g \in DOMAIN groups : SameBut(groups[g], groups'[g], Elements(request.uids))
           /\ \A i \in DOMAIN body.rules :
                 groups'[O!Ref].rules[i] \in
                     {body.rules[i], [body.rules[i] EXCEPT !.paused = O!Paused]}
<1> DEFINE uids == Elements(O!Targets(body))
<1>1. PICK id : id = O!Ref
    OBVIOUS
<1>2. PICK header : header = GroupProvenanceHeader(body.rules)
    OBVIOUS
<1>3. PICK f : f = O!Flipped(body)
    OBVIOUS
<1>4. id \in DOMAIN groups /\ IsGrafana(groups, local) /\ HeldIn(local, id, groups[id])
      /\ groups[id] = body /\ header # "refused" /\ OpInv
    BY <1>1, <1>2, RefIs DEF IInv, GrafanaInv, IsGrafana, OpInv
<1>5. body.rules \in Seq(GrafanaRule)
    BY <1>4 DEF HeldIn, GrafanaGroup
<1>6. \A r \in RuleSet(body.rules) : Stamp(header) = r.prov
    BY <1>2, <1>4, <1>5, HeaderKeeps
<1>7. /\ f.interval = body.interval /\ f.rules \in Seq(BundleRule)
      /\ DOMAIN f.rules = DOMAIN body.rules
      /\ \A i \in DOMAIN body.rules :
            /\ f.rules[i].uid = body.rules[i].uid
            /\ f.rules[i] = FlippedRule(body.rules[i], uids)
    BY <1>3, <1>4, FlippedIs
<1>8. \A i \in DOMAIN body.rules :
         body.rules[i].uid \notin Elements(request.uids) => f.rules[i] = body.rules[i]
  <2>1. \A u \in uids : u \in Elements(request.uids)
      BY <1>4, TargetsAre
  <2> QED BY <1>7, <2>1 DEF FlippedRule
<1>9. groups' = PutGroup(groups, id, f, header)
    BY <1>1, <1>2, <1>3
<1> HIDE DEF uids
<1>10. /\ \A h \in DOMAIN groups \ {id} : groups'[h] = groups[h]
       /\ SameBut(groups[id], groups'[id], Elements(request.uids))
       /\ \A i \in DOMAIN groups[id].rules : groups'[id].rules[i] = Stored(f.rules[i], header)
  <2>1. Changes(groups[id], f, header, Elements(request.uids))
      BY <1>4, <1>6, <1>7, <1>8 DEF Changes
  <2>2. /\ \A h \in DOMAIN groups \ {id} : PutGroup(groups, id, f, header)[h] = groups[h]
        /\ SameBut(groups[id], PutGroup(groups, id, f, header)[id], Elements(request.uids))
        /\ \A i \in DOMAIN groups[id].rules :
              PutGroup(groups, id, f, header)[id].rules[i] = Stored(f.rules[i], header)
      BY <1>4, <2>1, WriteBack
  <2> QED BY <1>9, <2>2
<1>11. ASSUME NEW g \in DOMAIN groups
       PROVE  SameBut(groups[g], groups'[g], Elements(request.uids))
  <2>1. CASE g = id
      BY <1>10, <2>1
  <2>2. CASE g # id
      BY <1>10, <2>2 DEF SameBut
  <2> QED BY <2>1, <2>2
<1>12. ASSUME NEW i \in DOMAIN body.rules
       PROVE  groups'[id].rules[i] \in {body.rules[i], [body.rules[i] EXCEPT !.paused = O!Paused]}
  <2>1. body.rules[i] \in GrafanaRule /\ Stamp(header) = body.rules[i].prov
      BY <1>5, <1>6 DEF RuleSet
  <2>2. /\ f.rules[i] \in GrafanaRule /\ f.rules[i].prov = body.rules[i].prov
        /\ f.rules[i] \in {body.rules[i], [body.rules[i] EXCEPT !.paused = O!Paused]}
      BY <1>7, <2>1, FlippedRuleIs
  <2>3. Stored(f.rules[i], header) = f.rules[i]
      BY <2>1, <2>2, StoredSame
  <2>4. groups'[id].rules[i] = f.rules[i]
      BY <1>4, <1>10, <2>3
  <2> QED BY <2>2, <2>4
<1> QED BY <1>1, <1>11, <1>12

LEMMA SiblingsStep ==
    ASSUME IInv, [AlertNext]_vars
    PROVE  /\ ByPush /\ Scoped /\ ~disturbed =>
                \A g \in DOMAIN groups : SameBut(groups[g], groups'[g], options.ruleUIDs)
           /\ ByPause /\ groups[O!Ref] = body =>
                /\ \A g \in DOMAIN groups : SameBut(groups[g], groups'[g], Elements(request.uids))
                /\ \A i \in DOMAIN body.rules :
                      groups'[O!Ref].rules[i] \in
                          {body.rules[i], [body.rules[i] EXCEPT !.paused = O!Paused]}
<1>1. ASSUME ByPush, Scoped, ~disturbed, NEW g \in DOMAIN groups
      PROVE  SameBut(groups[g], groups'[g], options.ruleUIDs)
  <2>1. CASE groups' = groups
      BY <2>1 DEF SameBut
  <2>2. CASE PushRuleGroup
    <3>1. PICK h \in NextGroups, c \in TodoOf("RuleGroup"), err \in WriteErrors : GroupWritten(h, c, err)
        BY <2>2, GroupWrites
    <3>2. /\ \A e \in DOMAIN groups \ {h.id} : groups'[e] = groups[e]
          /\ SameBut(groups[h.id], groups'[h.id], options.ruleUIDs)
        BY <1>1, <3>1, ScopedWrite
    <3>3. CASE g = h.id
        BY <3>2, <3>3
    <3>4. CASE g # h.id
        BY <3>2, <3>4 DEF SameBut
    <3> QED BY <3>3, <3>4
  <2>3. ~OpStep /\ ~Edit
      BY <1>1 DEF ByPush, OpStep, Edit
  <2> QED BY <2>1, <2>2, <2>3, GroupSteps
<1>2. ASSUME ByPause, groups[O!Ref] = body
      PROVE  /\ \A g \in DOMAIN groups : SameBut(groups[g], groups'[g], Elements(request.uids))
             /\ \A i \in DOMAIN body.rules :
                   groups'[O!Ref].rules[i] \in
                       {body.rules[i], [body.rules[i] EXCEPT !.paused = O!Paused]}
  <2>1. step = "put" /\ ~ UNCHANGED opVars
      BY <1>2 DEF ByPause, opVars
  <2>2. O!PutBatch
    <3>1. O!Next
        BY <2>1, Frames DEF OpStep
    <3> QED BY <2>1, <3>1 DEF O!Next, O!Resolve, O!Resolved, O!DeleteNamedRule, O!FetchBatch, O!Finish
  <2>3. CASE groups' = groups
      BY <1>2, <2>3 DEF SameBut
  <2>4. CASE groups' = PutGroup(groups, O!Ref, O!Flipped(body), GroupProvenanceHeader(body.rules))
      BY <1>2, <2>1, <2>4, PauseWrites
  <2> QED BY <2>2, <2>3, <2>4, PutBatchIs
<1> QED BY <1>1, <1>2

-----------------------------------------------------------------------------
(* The steps of the push                                                   *)

\* One write, whatever of.
Written(c, err) ==
    /\ c \in todo /\ Recorded(c, err) /\ WriteUnchanged
    /\ \/ phase = "points" /\ c.kind = "ContactPoint" /\ err \in WriteErrors
       \/ phase = "tree" /\ c.kind = "PolicyTree" /\ err \in WriteErrors
       \/ phase = "blocked" /\ c.kind = "RuleGroup" /\ err = "folder" /\ InBlocked(c)
       \/ phase = "groups" /\ c.kind = "RuleGroup" /\ err \in WriteErrors

LEMMA WritingHas ==
    ASSUME IInv, Writing
    PROVE  /\ todo \subseteq plan /\ \A c \in plan : c \in Plan(Pushed, remote)
           /\ IsBundle(local, DOMAIN groups)
BY DEF IInv, PlanInv, GrafanaInv

LEMMA PushCases ==
    ASSUME IInv, PushStep
    PROVE  \/ Fetch /\ Early
           \/ \E c \in todo : \E err : Written(c, err)
           \/ Between
<1>1. CASE phase \in {"start", "lookup", "fetch", "fetchTree", "plan", "done"}
  <2>1. ~Apply
      BY <1>1 DEF Apply, PushContactPoint, PushPolicyTree, NextPhase, CheckFolders, RecordBlocked,
                  PushRuleGroup, Finish
  <2>2. Fetch => phase # "done"
      BY DEF Fetch, Start, Lookup, FetchGroup, FetchPoints, FetchTree, MakePlan
  <2> QED BY <1>1, <2>1, <2>2 DEF PushStep, Next, Early
<1>2. CASE Writing
  <2>0. IsBundle(local, DOMAIN groups) /\ \A c \in todo : c \in Plan(Pushed, remote)
      BY <1>2, WritingHas
  <2>1. ASSUME NEW c \in TodoOf("ContactPoint"), NEW err \in WriteErrors, PointWritten(c, err)
        PROVE  Written(c, err)
      BY <2>1 DEF PointWritten, Written, TodoOf
  <2>2. ASSUME NEW c \in TodoOf("PolicyTree"), NEW err \in WriteErrors, TreeWritten(c, err)
        PROVE  Written(c, err)
      BY <2>2 DEF TreeWritten, Written, TodoOf
  <2>3. ASSUME NEW c \in TodoOf("RuleGroup"), GroupBlocked(c)
        PROVE  Written(c, "folder")
      BY <2>3 DEF GroupBlocked, Written, TodoOf
  <2>4. ASSUME NEW g, NEW c \in TodoOf("RuleGroup"), NEW err \in WriteErrors, GroupWritten(g, c, err)
        PROVE  Written(c, err)
      BY <2>4 DEF GroupWritten, Written, TodoOf
  <2>5. ~Fetch
      BY <1>2 DEF Writing, Fetch, Start, Lookup, FetchGroup, FetchPoints, FetchTree, MakePlan
  <2>6. \A kind : TodoOf(kind) \subseteq todo
      BY DEF TodoOf
  <2>7. \/ \E c \in TodoOf("ContactPoint"), err \in WriteErrors : PointWritten(c, err)
        \/ \E c \in TodoOf("PolicyTree"), err \in WriteErrors : TreeWritten(c, err)
        \/ \E c \in TodoOf("RuleGroup") : GroupBlocked(c)
        \/ \E g \in NextGroups, c \in TodoOf("RuleGroup"), err \in WriteErrors : GroupWritten(g, c, err)
        \/ Between
      BY <2>0, <2>5, PushSteps
  <2> QED BY <2>1, <2>2, <2>3, <2>4, <2>6, <2>7
<1> QED BY <1>1, <1>2 DEF IInv, TypeOK, Writing

\* The steps of the others.
LEMMA DisturbIs ==
    ASSUME [AlertNext]_vars
    PROVE  \/ PushStep /\ UNCHANGED disturbed
           \/ /\ UNCHANGED pushVars /\ (disturbed => disturbed')
              /\ groups' = groups \/ phase = "start" \/ disturbed'
<1>1. CASE PushStep
    BY <1>1 DEF PushStep
<1>2. CASE OpStep
    BY <1>2 DEF OpStep, Disturb
<1>3. CASE QueryStep
    BY <1>3 DEF QueryStep, grafanaVars
<1>4. CASE Edit
    BY <1>4 DEF Edit, Disturb
<1>5. CASE Evaluate
    BY <1>5 DEF Evaluate, grafanaVars
<1>6. CASE SessionDies
    BY <1>6 DEF SessionDies
<1>7. CASE UNCHANGED vars
    BY <1>7 DEF vars, grafanaVars
<1> QED BY <1>1, <1>2, <1>3, <1>4, <1>5, <1>6, <1>7 DEF AlertNext

LEMMA SamePushed ==
    ASSUME UNCHANGED <<local, options, refs, remote>>
    PROVE  /\ Pushed' = Pushed /\ Plan(Pushed, remote)' = Plan(Pushed, remote)
           /\ Scoped' = Scoped /\ StopOnError' = StopOnError
BY DEF Pushed, Scoped, StopOnError

-----------------------------------------------------------------------------
(* What was fetched                                                        *)

\* A step that neither fetches nor plans.
LEMMA FetchedStays ==
    ASSUME IInv, [AlertNext]_vars, UNCHANGED <<refs, remote, plan>>,
           phase' \in {phase, "done"} \/ (Writing /\ Writing'),
           phase = "start" => Scoped \/ phase' = phase,
           todo' = todo \/ Writing, todo' \subseteq todo,
           disturbed => disturbed',
           Scoped /\ ~disturbed' =>
              \A g \in DOMAIN remote.groups :
                  Early' \/ (Writing' /\ \E c \in TodoOf("RuleGroup")' : c.id = g) =>
                      groups'[g] = groups[g]
    PROVE  FetchedInv'
<1>0. UNCHANGED <<local, options, refs, remote, plan>> /\ Scoped' = Scoped
    BY Frames DEF inputVars, Scoped
<1>1. /\ (remote = [groups |-> remote.groups, points |-> remote.points, tree |-> remote.tree])'
      /\ (\A g \in DOMAIN remote.groups : HeldIn(local, g, remote.groups[g]))'
    BY <1>0 DEF IInv, FetchedInv, HeldIn, MayHold, RuleSet, Elements
<1>2. (Scoped /\ phase \notin {"start", "done"} => \A uid \in options.ruleUIDs : Holders(local, uid) # {})'
    BY <1>0 DEF IInv, FetchedInv, Holders, Elements, Writing
<1>3. /\ (phase = "start" => DOMAIN remote.groups = {})'
      /\ (phase \in {"fetchTree", "plan"} \/ plan # {} => refs \subseteq DOMAIN remote.groups)'
    BY <1>0 DEF IInv, FetchedInv, Writing
<1>4. (~Scoped /\ phase # "start" => \A g \in Elements(local.groups) : g.id \in refs)'
    BY <1>0 DEF IInv, FetchedInv, Writing, Elements
<1>5. (phase = "fetch" => todo \subseteq refs /\ refs \ todo \subseteq DOMAIN remote.groups)'
    BY <1>0 DEF IInv, FetchedInv, Writing
<1>6. (Scoped /\ ~disturbed =>
          \A g \in DOMAIN remote.groups :
              Early \/ (Writing /\ \E c \in TodoOf("RuleGroup") : c.id = g) =>
                  groups[g] = remote.groups[g])'
  <2> SUFFICES ASSUME Scoped, ~disturbed', NEW g \in DOMAIN remote.groups,
                      Early' \/ (Writing' /\ \E c \in TodoOf("RuleGroup")' : c.id = g)
               PROVE  groups'[g] = remote.groups[g]
      BY <1>0
  <2>1. Early \/ (Writing /\ \E c \in TodoOf("RuleGroup") : c.id = g)
      BY DEF Early, Writing, TodoOf
  <2>2. groups[g] = remote.groups[g]
      BY <2>1 DEF IInv, FetchedInv
  <2> QED BY <2>2
<1> QED BY <1>1, <1>2, <1>3, <1>4, <1>5, <1>6 DEF FetchedInv

\* A write of one rule group of a push of named rules leaves the others alone.
LEMMA WrittenApart ==
    ASSUME IInv, [AlertNext]_vars, Scoped, ~disturbed, NEW c \in todo, NEW err, Written(c, err)
    PROVE  \A g \in DOMAIN groups : g = c.id \/ groups'[g] = groups[g]
<1>1. CASE groups' = groups
    BY <1>1
<1>2. CASE PushRuleGroup
  <2>1. PICK g \in NextGroups, d \in TodoOf("RuleGroup"), e \in WriteErrors : GroupWritten(g, d, e)
      BY <1>2, GroupWrites
  <2>2. todo' = todo \ {d} /\ todo' = todo \ {c} /\ d \in todo
      BY <2>1 DEF GroupWritten, Recorded, Written, TodoOf
  <2>3. d = c /\ d.id = g.id
      BY <2>1, <2>2 DEF GroupWritten
  <2> QED BY <2>1, <2>3, ScopedWrite
<1>3. ~OpStep /\ ~Edit
  <2>1. UNCHANGED todo => FALSE
      BY DEF Written, Recorded
  <2> QED BY <2>1 DEF OpStep, Edit, pushVars
<1> QED BY <1>1, <1>2, <1>3, GroupSteps

\* Two changes of one plan are of different things.
LEMMA LocalApart ==
    ASSUME GrafanaInv, NEW m \in DOMAIN Pushed.groups, NEW n \in DOMAIN Pushed.groups,
           Pushed.groups[m].id = Pushed.groups[n].id
    PROVE  Pushed.groups[m] = Pushed.groups[n]
<1>1. CASE ~Scoped
    BY <1>1 DEF GrafanaInv, IsBundle, Pushed
<1>2. CASE Scoped
    BY <1>2, ScopedGroups
<1> QED BY <1>1, <1>2

LEMMA PlanApart ==
    ASSUME GrafanaInv, NEW c \in Plan(Pushed, remote), NEW d \in Plan(Pushed, remote),
           c.kind = d.kind, c.id = d.id
    PROVE  c = d
<1>1. c.kind \in Kinds
    BY PlanHas
<1>2. CASE c.kind = "ContactPoint"
  <2>1. PICK i \in DOMAIN local.points : c = PlanPoint(local.points[i], remote.points)
      BY <1>2, PlanHas
  <2>2. PICK j \in DOMAIN local.points : d = PlanPoint(local.points[j], remote.points)
      BY <1>2, PlanHas
  <2>3. PointID(local.points[i]) = PointID(local.points[j])
      BY <2>1, <2>2 DEF PlanPoint
  <2>4. i = j
      BY <2>3 DEF GrafanaInv, IsBundle
  <2> QED BY <2>1, <2>2, <2>4
<1>3. CASE c.kind = "PolicyTree"
    BY <1>3, PlanHas
<1>4. CASE c.kind = "RuleGroup"
  <2>1. PICK m \in DOMAIN Pushed.groups : c = PlanGroup(Pushed.groups[m], remote.groups[Pushed.groups[m].id])
      BY <1>4, PlanHas
  <2>2. PICK n \in DOMAIN Pushed.groups : d = PlanGroup(Pushed.groups[n], remote.groups[Pushed.groups[n].id])
      BY <1>4, PlanHas
  <2>3. Pushed.groups[m].id = Pushed.groups[n].id
      BY <2>1, <2>2 DEF PlanGroup
  <2>4. Pushed.groups[m] = Pushed.groups[n]
      BY <2>3, LocalApart
  <2> QED BY <2>1, <2>2, <2>4
<1> QED BY <1>1, <1>2, <1>3, <1>4 DEF Kinds

LEMMA FetchKeeps ==
    ASSUME IInv, [AlertNext]_vars, PushStep, Fetch, Early
    PROVE  FetchedInv'
<1>0. /\ UNCHANGED <<local, options, groups, disturbed>> /\ Scoped' = Scoped
      /\ FetchedInv /\ plan = {} /\ refs \subseteq DOMAIN groups /\ IsGrafana(groups, local)
    BY Frames DEF PushStep, Fetch, grafanaVars, inputVars, Scoped, IInv, PlanInv, TypeOK, GrafanaInv
<1>1. ASSUME UNCHANGED <<refs, remote, plan, todo>>, phase' = "done", phase = "start" => Scoped
      PROVE  FetchedInv'
    BY <1>0, <1>1, FetchedStays
<1> DEFINE All(gs) == \A g \in DOMAIN gs : HeldIn(local, g, gs[g])
           Held(gs) == Scoped /\ ~disturbed => \A g \in DOMAIN gs : groups[g] = gs[g]
           Known == Scoped => \A uid \in options.ruleUIDs : Holders(local, uid) # {}
           Covered(rs) == ~Scoped => \A g \in Elements(local.groups) : g.id \in rs
           Whole(r) == r = [groups |-> r.groups, points |-> r.points, tree |-> r.tree]
<1>2. Whole(remote) /\ All(remote.groups) /\ Held(remote.groups)
    BY <1>0 DEF FetchedInv
<1>3. phase # "start" => Known /\ Covered(refs)
    BY <1>0 DEF FetchedInv, Early
<1>4. ASSUME Whole(remote'), All(remote'.groups), Held(remote'.groups), Known, Covered(refs'),
             phase' \in {"lookup", "fetch", "fetchTree", "plan", "points"},
             phase' = "fetch" => todo' \subseteq refs' /\ refs' \ todo' \subseteq DOMAIN remote'.groups,
             phase' \in {"fetchTree", "plan"} \/ plan' # {} => refs' \subseteq DOMAIN remote'.groups
      PROVE  FetchedInv'
  <2>1. (\A g \in DOMAIN remote.groups : HeldIn(local, g, remote.groups[g]))'
      BY <1>0, <1>4 DEF HeldIn, MayHold, RuleSet, Elements
  <2>2. (Scoped /\ phase \notin {"start", "done"} => \A uid \in options.ruleUIDs : Holders(local, uid) # {})'
      BY <1>0, <1>4 DEF Holders, Elements
  <2>3. (~Scoped /\ phase # "start" => \A g \in Elements(local.groups) : g.id \in refs)'
      BY <1>0, <1>4 DEF Elements
  <2>4. (Scoped /\ ~disturbed => \A g \in DOMAIN remote.groups : groups[g] = remote.groups[g])'
      BY <1>0, <1>4
  <2> QED BY <1>4, <2>1, <2>2, <2>3, <2>4 DEF FetchedInv
<1> HIDE DEF All, Held, Known, Covered, Whole
<1>5. CASE Start
  <2>1. CASE \E uid \in options.ruleUIDs : Holders(local, uid) = {}
      BY <1>1, <1>5, <2>1 DEF Start, Return, Scoped
  <2>2. CASE ~ \E uid \in options.ruleUIDs : Holders(local, uid) = {}
    <3>1. /\ phase = "start" /\ UNCHANGED <<remote, plan>> /\ phase' = (IF Scoped THEN "lookup" ELSE "fetch")
          /\ refs' = (IF Scoped THEN {} ELSE {g.id : g \in Elements(local.groups)})
          /\ todo' = IF Scoped THEN options.ruleUIDs ELSE refs'
        BY <1>5, <2>2 DEF Start
    <3>2. Known /\ Covered(refs')
        BY <2>2, <3>1 DEF Known, Covered
    <3> QED BY <1>0, <1>2, <1>4, <3>1, <3>2
  <2> QED BY <2>1, <2>2
<1>6. CASE RequestFails /\ phase # "start"
    BY <1>1, <1>6 DEF RequestFails, Return
<1>7. CASE Lookup /\ ~RequestFails
  <2>1. PICK uid \in todo :
          LET holders == {g \in DOMAIN groups : uid \in Uids(groups[g].rules)}
          IN  /\ session
              /\ IF holders = {}
                 THEN Return("error") /\ UNCHANGED <<todo, refs>>
                 ELSE /\ refs' = refs \cup holders
                      /\ IF todo = {uid}
                         THEN phase' = "fetch" /\ todo' = refs'
                         ELSE todo' = todo \ {uid} /\ UNCHANGED phase
                      /\ UNCHANGED returned
              /\ UNCHANGED <<remote, plan, blocked, applied, failed>>
      BY <1>7 DEF Lookup
  <2>2. phase = "lookup"
      BY <1>7 DEF Lookup
  <2>3. CASE phase' = "done"
    <3>1. UNCHANGED <<todo, refs>>
        BY <2>1, <2>2, <2>3
    <3> QED BY <1>1, <2>1, <2>2, <2>3, <3>1
  <2>4. CASE phase' # "done"
    <3>1. /\ (phase' = "fetch" /\ todo' = refs') \/ phase' = "lookup"
          /\ UNCHANGED <<remote, plan>>
        BY <2>1, <2>2, <2>4 DEF Return
    <3>2. refs \subseteq refs'
        BY <2>1, <2>2, <2>4 DEF Return
    <3>3. Known /\ Covered(refs')
        BY <1>3, <2>2, <3>2 DEF Covered
    <3> QED BY <1>0, <1>2, <1>4, <3>1, <3>3
  <2> QED BY <2>3, <2>4
<1>8. CASE FetchGroup /\ ~RequestFails
  <2>1. PICK g \in todo :
          /\ remote' = [remote EXCEPT !.groups =
                [h \in DOMAIN @ \cup {g} |-> IF h = g THEN groups[g] ELSE @[h]]]
          /\ todo' = todo \ {g}
          /\ UNCHANGED <<phase, refs, plan, blocked, applied, failed, returned>>
      BY <1>8 DEF FetchGroup
  <2>2. phase = "fetch"
      BY <1>8 DEF FetchGroup
  <2>3. todo \subseteq refs /\ refs \ todo \subseteq DOMAIN remote.groups
      BY <1>0, <2>2 DEF FetchedInv
  <2>4. /\ remote'.groups = [h \in DOMAIN remote.groups \cup {g} |-> IF h = g THEN groups[g] ELSE remote.groups[h]]
        /\ Whole(remote')
      BY <1>2, <2>1 DEF Whole
  <2>5. All(remote'.groups)
      BY <1>0, <1>2, <2>3, <2>4 DEF All, IsGrafana
  <2>6. Held(remote'.groups)
      BY <1>2, <2>4 DEF Held
  <2>7. Known /\ Covered(refs')
      BY <1>3, <2>1, <2>2
  <2>8. todo' \subseteq refs' /\ refs' \ todo' \subseteq DOMAIN remote'.groups
      BY <2>1, <2>3, <2>4
  <2> QED BY <1>0, <1>4, <2>1, <2>2, <2>4, <2>5, <2>6, <2>7, <2>8
<1>9. CASE FetchPoints /\ ~RequestFails
  <2>1. /\ phase = "fetch" /\ todo = {} /\ remote' = [remote EXCEPT !.points = points]
        /\ phase' = "fetchTree" /\ UNCHANGED <<refs, plan>>
      BY <1>9 DEF FetchPoints
  <2>2. refs \subseteq DOMAIN remote.groups
      BY <1>0, <2>1 DEF FetchedInv
  <2>3. remote'.groups = remote.groups /\ Whole(remote')
      BY <1>2, <2>1 DEF Whole
  <2>4. Known /\ Covered(refs')
      BY <1>3, <2>1
  <2> QED BY <1>2, <1>4, <2>1, <2>2, <2>3, <2>4
<1>10. CASE FetchTree /\ ~RequestFails
  <2>1. /\ phase = "fetchTree" /\ remote' = [remote EXCEPT !.tree = tree]
        /\ phase' = "plan" /\ UNCHANGED <<refs, plan>>
      BY <1>10 DEF FetchTree
  <2>2. refs \subseteq DOMAIN remote.groups
      BY <1>0, <2>1 DEF FetchedInv
  <2>3. remote'.groups = remote.groups /\ Whole(remote')
      BY <1>2, <2>1 DEF Whole
  <2>4. Known /\ Covered(refs')
      BY <1>3, <2>1
  <2> QED BY <1>2, <1>4, <2>1, <2>2, <2>3, <2>4
<1>11. CASE MakePlan
  <2>1. (phase = "plan" \/ (phase = "fetch" /\ todo = {})) /\ UNCHANGED <<refs, remote>>
      BY <1>11 DEF MakePlan
  <2>2. refs \subseteq DOMAIN remote.groups
      BY <1>0, <2>1 DEF FetchedInv
  <2>3. (phase' = "done" /\ UNCHANGED <<todo, plan>>) \/ phase' = "points"
      BY <1>11 DEF MakePlan, Return
  <2>4. Known /\ Covered(refs')
      BY <1>3, <2>1
  <2> QED BY <1>1, <1>2, <1>4, <2>1, <2>2, <2>3, <2>4
<1>12. Start \/ Lookup \/ FetchGroup \/ FetchPoints \/ FetchTree \/ MakePlan
    BY DEF Fetch
<1>13. RequestFails /\ phase = "start" => Start
  <2>1. Lookup \/ FetchGroup \/ FetchPoints \/ FetchTree \/ MakePlan => phase # "start"
      BY DEF Lookup, FetchGroup, FetchPoints, FetchTree, MakePlan
  <2> QED BY <1>12, <2>1
<1> QED BY <1>5, <1>6, <1>7, <1>8, <1>9, <1>10, <1>11, <1>12, <1>13

LEMMA FetchedStep ==
    ASSUME IInv, [AlertNext]_vars
    PROVE  FetchedInv'
<1>1. CASE UNCHANGED pushVars /\ (disturbed => disturbed')
           /\ (groups' = groups \/ phase = "start" \/ disturbed')
  <2>1. phase = "start" => DOMAIN remote.groups = {}
      BY DEF IInv, FetchedInv
  <2>2. phase' = phase /\ UNCHANGED <<refs, remote, plan>> /\ todo' = todo
      BY <1>1 DEF pushVars
  <2> QED BY <1>1, <2>1, <2>2, FetchedStays
<1>2. CASE PushStep /\ UNCHANGED disturbed
  <2>1. CASE Fetch /\ Early
      BY <1>2, <2>1, FetchKeeps
  <2>2. CASE \E c \in todo : \E err : Written(c, err)
    <3>1. PICK c \in todo : \E err : Written(c, err)
        BY <2>2
    <3>2. PICK err : Written(c, err)
        BY <3>1
    <3>3. /\ UNCHANGED <<refs, remote, plan>> /\ todo' = todo \ {c}
          /\ phase' \in {phase, "done"} /\ Writing
        BY <3>2 DEF Written, WriteUnchanged, Recorded, Writing
    <3>4. ASSUME Scoped, ~disturbed', NEW g \in DOMAIN remote.groups,
                 Early' \/ (Writing' /\ \E d \in TodoOf("RuleGroup")' : d.id = g)
          PROVE  groups'[g] = groups[g]
      <4>1. PICK d \in todo \ {c} : d.kind = "RuleGroup" /\ d.id = g
        <5>1. ~Early'
            BY <3>3 DEF Writing, Early
        <5> QED BY <3>3, <3>4, <5>1 DEF TodoOf
      <4>2. g \in DOMAIN groups
          BY DEF IInv, TypeOK
      <4>3. CASE c.kind = "RuleGroup"
        <5>1. c \in plan /\ d \in plan
            BY <3>3, <4>1, WritingHas
        <5>2. c.id # d.id
            BY <3>3, <4>1, <4>3, <5>1, WritingHas, PlanApart DEF IInv
        <5> QED BY <1>2, <3>2, <3>4, <4>1, <4>2, <5>2, WrittenApart
      <4>4. CASE c.kind # "RuleGroup"
        <5>1. ~PushRuleGroup /\ ~OpStep /\ ~Edit
          <6>1. phase # "groups" /\ ~UNCHANGED pushVars
              BY <3>2, <3>3, <4>4 DEF Written, pushVars
          <6> QED BY <6>1 DEF PushRuleGroup, OpStep, Edit
        <5> QED BY <5>1, GroupSteps
      <4> QED BY <4>3, <4>4
    <3> QED BY <1>2, <3>3, <3>4, FetchedStays DEF Writing
  <2>3. CASE Between
    <3>1. /\ UNCHANGED <<todo, plan, remote, refs, groups>> /\ Writing
          /\ phase' = "done" \/ Writing'
        BY <2>3 DEF Between, Writing, grafanaVars
    <3> QED BY <1>2, <3>1, FetchedStays DEF Writing
  <2> QED BY <1>2, <2>1, <2>2, <2>3, PushCases
<1> QED BY <1>1, <1>2, DisturbIs

-----------------------------------------------------------------------------
(* The plan and the result                                                 *)

LEMMA PushStays ==
    ASSUME [AlertNext]_vars, UNCHANGED pushVars
    PROVE  /\ UNCHANGED <<phase, todo, refs, remote, plan, blocked, applied, failed, returned>>
           /\ Pushed' = Pushed /\ Plan(Pushed, remote)' = Plan(Pushed, remote)
           /\ StopOnError' = StopOnError /\ FailedChanges' = FailedChanges
           /\ \A kind : TodoOf(kind)' = TodoOf(kind) /\ FailedOf(kind)' = FailedOf(kind)
<1>1. UNCHANGED <<local, options, refs, remote>>
    BY Frames DEF inputVars, pushVars
<1> QED BY <1>1, SamePushed DEF pushVars, FailedChanges, FailedOf, TodoOf

LEMMA WrittenIs ==
    ASSUME IInv, [AlertNext]_vars, NEW c \in todo, NEW err, Written(c, err)
    PROVE  /\ Writing /\ c \in plan /\ c \notin applied \cup FailedChanges
           /\ todo \cup applied \cup FailedChanges = plan
           /\ UNCHANGED <<refs, remote, plan, blocked>>
           /\ Pushed' = Pushed /\ Plan(Pushed, remote)' = Plan(Pushed, remote)
           /\ StopOnError' = StopOnError
           /\ FailedChanges' = IF err = "nil" THEN FailedChanges ELSE FailedChanges \cup {c}
           /\ \A kind : TodoOf(kind)' \subseteq TodoOf(kind)
<1>1. Writing /\ UNCHANGED <<refs, remote, plan, blocked>> /\ Recorded(c, err)
    BY DEF Written, Writing, WriteUnchanged
<1>2. UNCHANGED <<local, options, refs, remote>>
    BY <1>1, Frames DEF inputVars
<1>3. /\ c \in plan /\ c \notin applied \cup FailedChanges
      /\ todo \cup applied \cup FailedChanges = plan
    BY <1>1 DEF IInv, PlanInv
<1>4. FailedChanges' = IF err = "nil" THEN FailedChanges ELSE FailedChanges \cup {c}
  <2>1. FailedChanges' = {f.change : f \in failed'}
      BY DEF FailedChanges
  <2>2. failed' = IF err = "nil" THEN failed ELSE failed \cup {[change |-> c, err |-> err]}
      BY <1>1 DEF Recorded
  <2>3. [change |-> c, err |-> err].change = c
      OBVIOUS
  <2>4. CASE err = "nil"
      BY <2>1, <2>2, <2>4 DEF FailedChanges
  <2>5. CASE err # "nil"
      BY <2>1, <2>2, <2>3, <2>5 DEF FailedChanges
  <2> QED BY <2>4, <2>5
<1>5. \A kind : TodoOf(kind)' \subseteq TodoOf(kind)
    BY <1>1 DEF Recorded, TodoOf
<1> QED BY <1>1, <1>2, <1>3, <1>4, <1>5, SamePushed

LEMMA PlanStep ==
    ASSUME IInv, [AlertNext]_vars
    PROVE  PlanInv'
<1>1. CASE UNCHANGED pushVars
    BY <1>1, PushStays DEF IInv, PlanInv, Early, Writing, InBlocked, FolderOf
<1>2. CASE Fetch /\ Early /\ PushStep
  <2>0. plan = {} /\ applied = {} /\ failed = {} /\ blocked = {} /\ returned = "nil"
      BY <1>2 DEF IInv, PlanInv
  <2>1. CASE UNCHANGED <<plan, blocked, applied, failed>> /\ (phase' # "done" => returned' = returned) /\ ~Writing'
      BY <2>0, <2>1 DEF PlanInv, Early
  <2>2. CASE MakePlan /\ phase' = "points"
    <3>1. /\ plan' = Plan(Pushed, remote) /\ applied' = {c \in plan' : c.action = "Unchanged"}
          /\ todo' = plan' \ applied' /\ UNCHANGED <<returned, refs, remote, blocked, failed>>
        BY <2>2 DEF MakePlan, Return
    <3>2. Plan(Pushed, remote)' = Plan(Pushed, remote)
      <4>1. UNCHANGED <<local, options, refs, remote>>
          BY <3>1, Frames DEF inputVars
      <4> QED BY <4>1, SamePushed
    <3>3. \A c \in plan' : c \in Plan(Pushed, remote)'
        BY <3>1, <3>2
    <3>4. failed' = {} /\ blocked' = {} /\ returned' = "nil" /\ FailedChanges' = {}
        BY <2>0, <3>1 DEF FailedChanges
    <3>5. /\ todo' \cup applied' \cup FailedChanges' = plan'
          /\ todo' \cap (applied' \cup FailedChanges') = {}
        BY <3>1, <3>4
    <3>6. ~Early'
        BY <2>2 DEF Early
    <3> QED BY <2>2, <3>3, <3>4, <3>5, <3>6 DEF PlanInv, FailedOf
  <2>3. (MakePlan /\ phase' = "points") \/
           (UNCHANGED <<plan, blocked, applied, failed>> /\ (phase' # "done" => returned' = returned) /\ ~Writing')
    <3>1. CASE Start
        BY <3>1 DEF Start, Return, Writing
    <3>2. CASE Lookup
        BY <3>2 DEF Lookup, RequestFails, Return, Writing
    <3>3. CASE FetchGroup
        BY <3>3 DEF FetchGroup, RequestFails, Return, Writing
    <3>4. CASE FetchPoints \/ FetchTree
        BY <3>4 DEF FetchPoints, FetchTree, RequestFails, Return, Writing
    <3>5. CASE MakePlan
        BY <3>5 DEF MakePlan, Return, Writing
    <3> QED BY <1>2, <3>1, <3>2, <3>3, <3>4, <3>5 DEF Fetch
  <2> QED BY <2>1, <2>2, <2>3
<1>3. CASE \E c \in todo : \E err : Written(c, err)
  <2>1. PICK c \in todo : \E err : Written(c, err)
      BY <1>3
  <2>2. PICK err : Written(c, err)
      BY <2>1
  <2>3. /\ Writing /\ c \in plan /\ c \notin applied \cup FailedChanges
        /\ UNCHANGED <<refs, remote, plan, blocked>>
        /\ Plan(Pushed, remote)' = Plan(Pushed, remote)
        /\ FailedChanges' = IF err = "nil" THEN FailedChanges ELSE FailedChanges \cup {c}
        /\ \A kind : TodoOf(kind)' \subseteq TodoOf(kind)
      BY <2>2, WrittenIs
  <2>4. Recorded(c, err) /\ phase' \in {phase, "done"} /\ PlanInv
      BY <2>2 DEF Written, Recorded, IInv
  <2>5. (\A d \in plan : d \in Plan(Pushed, remote))' /\ ~Early'
      BY <2>3, <2>4 DEF PlanInv, Early, Writing
  <2>6. ASSUME Writing'
        PROVE  /\ todo' \cup applied' \cup FailedChanges' = plan'
               /\ todo' \cap (applied' \cup FailedChanges') = {}
      BY <2>3, <2>4 DEF PlanInv, Recorded
  <2>7. ASSUME Writing'
        PROVE  /\ phase' # "points" => TodoOf("ContactPoint")' = {}
               /\ phase' \notin {"points", "tree"} => TodoOf("PolicyTree")' = {}
               /\ phase' \in {"points", "tree", "folders"} => blocked' = {}
      BY <2>3, <2>4, <2>7 DEF PlanInv, Writing
  <2>8. ASSUME Writing', phase' \in {"points", "tree", "folders", "blocked"}
        PROVE  /\ \A f \in FailedOf("RuleGroup")' : f.err = "folder" /\ phase' = "blocked"
               /\ returned' = "nil"
    <3>1. phase' = phase /\ returned' = returned
        BY <2>4, <2>8 DEF Recorded
    <3>2. \A f \in failed' : f \in failed \/ (f.change = c /\ f.err = err)
        BY <2>4 DEF Recorded
    <3>3. c.kind = "RuleGroup" => err = "folder" /\ phase = "blocked"
        BY <2>2, <2>8, <3>1 DEF Written
    <3> QED BY <2>3, <2>4, <2>8, <3>1, <3>2, <3>3 DEF PlanInv, FailedOf
  <2>9. ASSUME Writing'
        PROVE  \A f \in failed' : f.err = "401" => returned' = "401"
    <3>1. returned' = returned \/ returned' = "401"
        BY <2>4, <2>9 DEF Recorded, Writing
    <3>2. \A f \in failed' : f \in failed \/ f.err = err
        BY <2>4 DEF Recorded
    <3> QED BY <2>3, <2>4, <3>1, <3>2 DEF PlanInv, Recorded
  <2>10. (phase = "groups" => \A d \in TodoOf("RuleGroup") : ~InBlocked(d))'
      BY <2>3, <2>4 DEF PlanInv, InBlocked, FolderOf
  <2> QED BY <2>5, <2>6, <2>7, <2>8, <2>9, <2>10 DEF PlanInv
<1>4. CASE Between /\ [AlertNext]_vars
  <2>1. UNCHANGED <<todo, plan, applied, failed, remote, refs>> /\ PlanInv /\ Writing
      BY <1>4 DEF Between, IInv, Writing
  <2>2. /\ FailedChanges' = FailedChanges
        /\ \A kind : TodoOf(kind)' = TodoOf(kind) /\ FailedOf(kind)' = FailedOf(kind)
      BY <2>1 DEF FailedChanges, FailedOf, TodoOf
  <2>3. (\A d \in plan : d \in Plan(Pushed, remote))'
    <3>1. UNCHANGED <<local, options, refs, remote>>
        BY <2>1, Frames DEF inputVars
    <3> QED BY <2>1, <3>1, SamePushed DEF PlanInv
  <2>4. ~Early'
      BY <1>4 DEF Between, Early
  <2>5. CASE phase' = "done"
      BY <2>3, <2>4, <2>5 DEF PlanInv, Writing
  <2>6. CASE phase = "folders" /\ phase' = "blocked" /\ returned' = returned
      BY <2>1, <2>2, <2>3, <2>4, <2>6 DEF PlanInv, Writing
  <2>7. CASE UNCHANGED <<blocked, returned>> /\ phase' # "done"
    <3>1. \A d : InBlocked(d)' = InBlocked(d)
        BY <2>7 DEF InBlocked, FolderOf
    <3> QED BY <1>4, <2>1, <2>2, <2>3, <2>4, <2>7, <3>1 DEF PlanInv, Writing, Between
  <2> QED BY <1>4, <2>5, <2>6, <2>7 DEF Between
<1> QED BY <1>1, <1>2, <1>3, <1>4, PushCases, DisturbIs

LEMMA AccountsStep ==
    ASSUME IInv, [AlertNext]_vars
    PROVE  ResultAccounts'
<1>0. ResultAccounts /\ PlanInv /\ OrderInv
    BY DEF IInv
<1>1. CASE UNCHANGED pushVars
    BY <1>0, <1>1, PushStays DEF ResultAccounts, FolderOf
<1>2. CASE Fetch /\ Early /\ PushStep
  <2>0. plan = {} /\ applied = {} /\ failed = {} /\ blocked = {}
      BY <1>0, <1>2 DEF PlanInv
  <2>1. failed' = {}
      BY <1>2, <2>0 DEF Fetch, Start, Lookup, FetchGroup, FetchPoints, FetchTree, MakePlan, RequestFails
  <2>2. phase' = "done" => applied' = {} /\ plan' = {}
      BY <1>2, <2>0 DEF Fetch, Start, Lookup, FetchGroup, FetchPoints, FetchTree, MakePlan, RequestFails, Early
  <2> QED BY <2>1, <2>2 DEF ResultAccounts, FailedChanges, FailedOf
<1>3. CASE \E c \in todo : \E err : Written(c, err)
  <2>1. PICK c \in todo : \E err : Written(c, err)
      BY <1>3
  <2>2. PICK err : Written(c, err)
      BY <2>1
  <2>3. /\ Writing /\ c \in plan /\ c \notin applied \cup FailedChanges
        /\ todo \cup applied \cup FailedChanges = plan
        /\ UNCHANGED <<plan, blocked>>
        /\ FailedChanges' = IF err = "nil" THEN FailedChanges ELSE FailedChanges \cup {c}
      BY <2>2, WrittenIs
  <2>4. Recorded(c, err)
      BY <2>2 DEF Written
  <2>5. failed' = IF err = "nil" THEN failed ELSE failed \cup {[change |-> c, err |-> err]}
      BY <2>4 DEF Recorded
  <2>6. applied' \cap FailedChanges' = {}
      BY <1>0, <2>3, <2>4 DEF ResultAccounts, Recorded
  <2>7. \A f, h \in failed' : f.change = h.change => f = h
    <3>1. \A f \in failed : f.change # c
        BY <2>3 DEF FailedChanges
    <3> QED BY <1>0, <2>5, <3>1 DEF ResultAccounts
  <2>8. \A f \in FailedOf("RuleGroup")' : (f.err = "folder") <=> FolderOf(f.change) \in blocked
    <3>1. c.kind = "RuleGroup" /\ err # "nil" => ((err = "folder") <=> FolderOf(c) \in blocked)
      <4>1. phase = "groups" /\ c.kind = "RuleGroup" => ~InBlocked(c)
          BY <1>0, <2>3 DEF PlanInv, TodoOf
      <4> QED BY <2>2, <4>1 DEF Written, WriteErrors, InBlocked
    <3> QED BY <1>0, <2>5, <3>1 DEF ResultAccounts, FailedOf
  <2>9. ASSUME phase' = "done"
        PROVE  /\ applied' \cup FailedChanges' \subseteq plan' /\ returned' # "nil"
               /\ (\E f \in failed' : f.err = "401") => returned' = "401"
    <3>1. applied' \cup FailedChanges' \subseteq plan'
        BY <2>3, <2>4 DEF Recorded
    <3>2. returned' # "nil"
        BY <2>3, <2>4, <2>9 DEF Recorded, Writing
    <3>3. \A f \in failed : f.err = "401" => returned = "401" /\ ~StopOnError
        BY <1>0, <2>3 DEF PlanInv, OrderInv
    <3>4. (\E f \in failed' : f.err = "401") => returned' = "401"
        BY <2>4, <2>5, <3>3 DEF Recorded
    <3> QED BY <3>1, <3>2, <3>4
  <2> QED BY <2>3, <2>6, <2>7, <2>8, <2>9 DEF ResultAccounts, FolderOf
<1>4. CASE Between
  <2>1. UNCHANGED <<todo, plan, applied, failed>> /\ Writing
      BY <1>4 DEF Between, Writing
  <2>2. FailedChanges' = FailedChanges /\ FailedOf("RuleGroup")' = FailedOf("RuleGroup")
      BY <2>1 DEF FailedChanges, FailedOf
  <2>3. phase = "folders" => FailedOf("RuleGroup") = {} /\ \A f \in failed : f.err # "401"
      BY <1>0 DEF PlanInv, Writing
  <2>4. blocked' = blocked \/ phase = "folders"
      BY <1>4 DEF Between
  <2>5. /\ applied' \cap FailedChanges' = {}
        /\ \A f, h \in failed' : f.change = h.change => f = h
        /\ \A f \in FailedOf("RuleGroup")' : (f.err = "folder") <=> FolderOf(f.change) \in blocked'
      BY <1>0, <2>1, <2>2, <2>3, <2>4 DEF ResultAccounts
  <2>6. todo \cup applied \cup FailedChanges = plan
      BY <1>0, <2>1 DEF PlanInv
  <2>7. phase' = "done" /\ returned' = "nil" => todo = {}
    <3> SUFFICES ASSUME phase' = "done", returned' = "nil", NEW c \in todo PROVE FALSE
        OBVIOUS
    <3>1. phase = "groups" /\ TodoOf("RuleGroup") = {}
        BY <1>4 DEF Between
    <3>2. TodoOf("ContactPoint") = {} /\ TodoOf("PolicyTree") = {}
        BY <1>0, <3>1 DEF PlanInv, Writing
    <3>3. c.kind \in Kinds
        BY <2>1, WritingHas, PlanHas
    <3> QED BY <3>1, <3>2, <3>3 DEF Kinds, TodoOf
  <2>8. phase' = "done" /\ (\E f \in failed : f.err = "401") => returned' = "401"
      BY <1>0, <1>4, <2>1, <2>3 DEF PlanInv, Between, Writing
  <2> QED BY <2>1, <2>2, <2>5, <2>6, <2>7, <2>8 DEF ResultAccounts, FolderOf
<1> QED BY <1>1, <1>2, <1>3, <1>4, PushCases, DisturbIs

LEMMA PushedDomain ==
    ASSUME GrafanaInv
    PROVE  DOMAIN Pushed.groups \subseteq Nat /\ DOMAIN local.groups \subseteq Nat
<1> DEFINE kept == {i \in DOMAIN local.groups : local.groups[i].id \in refs}
           found == Those(local.groups, kept)
           BundleGroup == [id : DOMAIN groups, interval : Nat, hasOrg : BOOLEAN, rules : Seq(BundleRule)]
<1>1. local.groups \in Seq(BundleGroup)
    BY DEF GrafanaInv, IsBundle
<1>2. DOMAIN Pushed.groups = DOMAIN local.groups \/ DOMAIN Pushed.groups = DOMAIN found
    BY DEF Pushed
<1> HIDE DEF BundleGroup, kept
<1>3. found \in Seq(BundleGroup)
    BY <1>1, ThoseAre
<1> HIDE DEF found
<1>4. DOMAIN found \subseteq Nat /\ DOMAIN local.groups \subseteq Nat
    BY <1>1, <1>3
<1> QED BY <1>2, <1>4

-----------------------------------------------------------------------------
(* The order of the plan                                                   *)

LEMMA ThoseOrdered ==
    ASSUME NEW R, NEW seq \in Seq(R), NEW kept, NEW l, l = Those(seq, kept),
           NEW j \in DOMAIN l, NEW k \in DOMAIN l, j < k
    PROVE  \E h, i \in DOMAIN seq : h < i /\ l[j] = seq[h] /\ l[k] = seq[i]
<1>1. Takes(l, Len(seq), R, seq, kept)
    BY ThoseTakes
<1>2. PICK m \in Nat : \E at \in [1..m -> 1..Len(seq)] :
        /\ \A a, b \in 1..m : a < b => at[a] < at[b]
        /\ l \in Seq(R) /\ Len(l) = m /\ \A a \in 1..m : l[a] = seq[at[a]]
    BY <1>1 DEF Takes
<1>3. PICK at \in [1..m -> 1..Len(seq)] :
        /\ \A a, b \in 1..m : a < b => at[a] < at[b]
        /\ l \in Seq(R) /\ Len(l) = m /\ \A a \in 1..m : l[a] = seq[at[a]]
    BY <1>2
<1>4. DOMAIN l = 1..m /\ DOMAIN seq = 1..Len(seq)
    BY <1>3
<1> QED BY <1>3, <1>4

LEMMA GroupsInOrder ==
    ASSUME GrafanaInv, NEW m \in DOMAIN Pushed.groups, NEW n \in DOMAIN Pushed.groups, m < n
    PROVE  \E i, j \in DOMAIN local.groups :
              /\ i < j
              /\ local.groups[i].id = Pushed.groups[m].id
              /\ local.groups[j].id = Pushed.groups[n].id
<1>1. CASE ~Scoped
    BY <1>1 DEF Pushed
<1>2. CASE Scoped
  <2> DEFINE kept == {i \in DOMAIN local.groups : local.groups[i].id \in refs}
             found == Those(local.groups, kept)
             BundleGroup == [id : DOMAIN groups, interval : Nat, hasOrg : BOOLEAN, rules : Seq(BundleRule)]
             synthetic(i) == SyntheticGroup(found[i].id, remote.groups[found[i].id], local, options.ruleUIDs)
  <2>1. Pushed.groups = [i \in DOMAIN found |-> synthetic(i)]
      BY <1>2 DEF Pushed
  <2>2. local.groups \in Seq(BundleGroup)
      BY DEF GrafanaInv, IsBundle
  <2>3. \A i : synthetic(i).id = found[i].id
    <3>1. \A id, held, bundle, uids : SyntheticGroup(id, held, bundle, uids).id = id
        BY DEF SyntheticGroup
    <3> HIDE DEF BundleGroup, found
    <3> QED BY <3>1
  <2> HIDE DEF BundleGroup, kept, synthetic
  <2>4. m \in DOMAIN found /\ n \in DOMAIN found
      BY <2>1
  <2>5. PICK l : l = found
      OBVIOUS
  <2>6. \E i, j \in DOMAIN local.groups : i < j /\ l[m] = local.groups[i] /\ l[n] = local.groups[j]
      BY <2>2, <2>4, <2>5, ThoseOrdered
  <2> HIDE DEF found
  <2>7. Pushed.groups[m].id = l[m].id /\ Pushed.groups[n].id = l[n].id
      BY <2>1, <2>3, <2>4, <2>5
  <2> QED BY <2>6, <2>7
<1> QED BY <1>1, <1>2

LEMMA RankIs ==
    ASSUME GrafanaInv, NEW c \in Plan(Pushed, remote)
    PROVE  /\ c.kind = "ContactPoint" =>
                 \E i \in DOMAIN local.points : PointID(local.points[i]) = c.id /\ Rank(c) = i
           /\ c.kind = "PolicyTree" => Rank(c) = Len(local.points) + 1
           /\ c.kind = "RuleGroup" =>
                 /\ \E i \in DOMAIN local.groups :
                       local.groups[i].id = c.id /\ Rank(c) = Len(local.points) + 1 + i
                 /\ \E n \in DOMAIN Pushed.groups : Pushed.groups[n].id = c.id
           /\ Rank(c) \in Nat /\ Len(local.points) \in Nat
           /\ c.kind = "ContactPoint" => Rank(c) < Len(local.points) + 1
           /\ c.kind = "RuleGroup" => Rank(c) > Len(local.points) + 1
<1> DEFINE BundleGroup == [id : DOMAIN groups, interval : Nat, hasOrg : BOOLEAN, rules : Seq(BundleRule)]
<1>1. local.points \in Seq(BundlePoint) /\ local.groups \in Seq(BundleGroup)
    BY DEF GrafanaInv, IsBundle
<1>2. c.kind \in Kinds
    BY PlanHas
<1> HIDE DEF BundleGroup
<1>3. /\ Len(local.points) \in Nat /\ DOMAIN local.points = 1..Len(local.points)
      /\ Len(local.groups) \in Nat /\ DOMAIN local.groups = 1..Len(local.groups)
    BY <1>1
<1>4. CASE c.kind = "ContactPoint"
  <2>1. PICK i \in DOMAIN local.points : c = PlanPoint(local.points[i], remote.points)
      BY <1>4, PlanHas
  <2>2. PointID(local.points[i]) = c.id
      BY <2>1 DEF PlanPoint
  <2> DEFINE r == CHOOSE j \in DOMAIN local.points : PointID(local.points[j]) = c.id
  <2>3. r \in DOMAIN local.points /\ PointID(local.points[r]) = c.id
      BY <2>2
  <2>4. Rank(c) = r
      BY <1>4 DEF Rank
  <2> HIDE DEF r
  <2> QED BY <1>3, <1>4, <2>3, <2>4
<1>5. CASE c.kind = "PolicyTree"
    BY <1>3, <1>5 DEF Rank
<1>6. CASE c.kind = "RuleGroup"
  <2>1. PICK n \in DOMAIN Pushed.groups : c = PlanGroup(Pushed.groups[n], remote.groups[Pushed.groups[n].id])
      BY <1>6, PlanHas
  <2>2. Pushed.groups[n].id = c.id
      BY <2>1 DEF PlanGroup
  <2>3. \E i \in DOMAIN local.groups : local.groups[i].id = c.id
    <3>1. CASE ~Scoped
        BY <2>2, <3>1 DEF Pushed
    <3>2. CASE Scoped
        BY <2>2, <3>2, ScopedGroups
    <3> QED BY <3>1, <3>2
  <2> DEFINE r == CHOOSE j \in DOMAIN local.groups : local.groups[j].id = c.id
  <2>4. r \in DOMAIN local.groups /\ local.groups[r].id = c.id
      BY <2>3
  <2>5. Rank(c) = Len(local.points) + 1 + r
      BY <1>6 DEF Rank
  <2> HIDE DEF r
  <2> QED BY <1>3, <1>6, <2>2, <2>4, <2>5
<1> QED BY <1>2, <1>4, <1>5, <1>6 DEF Kinds

\* With StopOnError a write is of the first change that is still to be written.
LEMMA PointFirst ==
    ASSUME IInv, NEW c \in TodoOf("ContactPoint"), NEW err, PointWritten(c, err),
           NEW d \in TodoOf("ContactPoint"), d # c
    PROVE  Rank(c) < Rank(d)
<1>1. /\ GrafanaInv /\ IsBundle(local, DOMAIN groups) /\ \A e \in todo : e \in Plan(Pushed, remote)
      /\ c \in todo /\ d \in todo /\ c.kind = "ContactPoint" /\ d.kind = "ContactPoint"
    BY WritingHas DEF IInv, PointWritten, Writing, TodoOf
<1>2. PICK n \in DOMAIN local.points :
         /\ NextPoint = local.points[n]
         /\ \A j \in DOMAIN local.points : \A e \in TodoOf("ContactPoint") :
               e.id = PointID(local.points[j]) => n <= j
    BY <1>1, NextPointIs
<1>3. PICK i \in DOMAIN local.points : PointID(local.points[i]) = c.id /\ Rank(c) = i
    BY <1>1, RankIs
<1>4. PICK j \in DOMAIN local.points : PointID(local.points[j]) = d.id /\ Rank(d) = j
    BY <1>1, RankIs
<1>5. i = n
  <2>1. PointID(local.points[i]) = PointID(local.points[n])
      BY <1>2, <1>3 DEF PointWritten
  <2> QED BY <1>1, <2>1 DEF IsBundle
<1>6. i # j
    BY <1>1, <1>3, <1>4, PlanApart
<1>7. i <= j /\ i \in Nat /\ j \in Nat
  <2>1. local.points \in Seq(BundlePoint)
      BY <1>1 DEF IsBundle
  <2> QED BY <1>2, <1>4, <1>5, <2>1
<1> QED BY <1>3, <1>4, <1>6, <1>7

LEMMA GroupFirst ==
    ASSUME IInv, StopOnError, NEW g, NEW c \in TodoOf("RuleGroup"), NEW err, GroupWritten(g, c, err),
           NEW d \in TodoOf("RuleGroup"), d # c
    PROVE  Rank(c) < Rank(d)
<1>1. /\ GrafanaInv /\ \A e \in todo : e \in Plan(Pushed, remote)
      /\ c \in todo /\ d \in todo /\ c.kind = "RuleGroup" /\ d.kind = "RuleGroup"
    BY WritingHas DEF IInv, GroupWritten, Writing, TodoOf
<1>2. PICK n \in DOMAIN Pushed.groups :
         /\ g = Pushed.groups[n]
         /\ \A j \in DOMAIN Pushed.groups :
               (\E e \in TodoOf("RuleGroup") : e.id = Pushed.groups[j].id) => n <= j
    BY DEF GroupWritten, NextGroups
<1>3. Pushed.groups[n].id = c.id
    BY <1>2 DEF GroupWritten
<1>4. PICK m \in DOMAIN Pushed.groups : Pushed.groups[m].id = d.id
    BY <1>1, RankIs
<1>5. n <= m
    BY <1>2, <1>4
<1>6. c.id # d.id
    BY <1>1, PlanApart
<1>7. DOMAIN Pushed.groups \subseteq Nat
    BY <1>1, PushedDomain
<1>8. n < m
    BY <1>3, <1>4, <1>5, <1>6, <1>7
<1>9. PICK i, j \in DOMAIN local.groups :
          i < j /\ local.groups[i].id = c.id /\ local.groups[j].id = d.id
    BY <1>1, <1>3, <1>4, <1>8, GroupsInOrder
<1>10. PICK a \in DOMAIN local.groups : local.groups[a].id = c.id /\ Rank(c) = Len(local.points) + 1 + a
    BY <1>1, RankIs
<1>11. PICK b \in DOMAIN local.groups : local.groups[b].id = d.id /\ Rank(d) = Len(local.points) + 1 + b
    BY <1>1, RankIs
<1>12. a = i /\ b = j
  <2>1. \A x, y \in DOMAIN local.groups : local.groups[x].id = local.groups[y].id => x = y
      BY <1>1 DEF GrafanaInv, IsBundle
  <2>2. a = i
      BY <1>9, <1>10, <2>1
  <2>3. b = j
      BY <1>9, <1>11, <2>1
  <2> QED BY <2>2, <2>3
<1>13. DOMAIN local.groups \subseteq Nat
    BY <1>1, PushedDomain
<1>14. Len(local.points) \in Nat
    BY <1>1, RankIs
<1> QED BY <1>9, <1>10, <1>11, <1>12, <1>13, <1>14

LEMMA WrittenFirst ==
    ASSUME IInv, PushStep, StopOnError, phase # "blocked",
           NEW c \in todo, NEW err, Written(c, err), NEW d \in todo, d # c
    PROVE  Rank(c) < Rank(d)
<1>0. /\ GrafanaInv /\ PlanInv /\ todo' = todo \ {c} /\ Writing /\ IsBundle(local, DOMAIN groups)
      /\ \A e \in todo : e \in Plan(Pushed, remote)
    BY WritingHas DEF IInv, Written, Recorded, Writing
<1>1. Rank(c) \in Nat /\ Rank(d) \in Nat /\ Len(local.points) \in Nat /\ d.kind \in Kinds
    BY <1>0, RankIs, PlanHas
<1>2. /\ ~Fetch /\ ~Between
  <2>1. Fetch => Early
      BY DEF Fetch, Start, Lookup, FetchGroup, FetchPoints, FetchTree, MakePlan, Early
  <2> QED BY <1>0, <2>1 DEF Early, Writing, Between
<1>3. CASE \E e \in TodoOf("ContactPoint"), er \in WriteErrors : PointWritten(e, er)
  <2>1. PICK e \in TodoOf("ContactPoint"), er \in WriteErrors : PointWritten(e, er)
      BY <1>3
  <2>2. e = c /\ c.kind = "ContactPoint"
      BY <1>0, <2>1 DEF PointWritten, Recorded, TodoOf
  <2>3. CASE d.kind = "ContactPoint"
      BY <2>1, <2>2, <2>3, PointFirst DEF TodoOf
  <2>4. CASE d.kind # "ContactPoint"
      BY <1>0, <1>1, <2>2, <2>4, RankIs DEF Kinds
  <2> QED BY <2>3, <2>4
<1>4. CASE \E e \in TodoOf("PolicyTree"), er \in WriteErrors : TreeWritten(e, er)
  <2>1. PICK e \in TodoOf("PolicyTree"), er \in WriteErrors : TreeWritten(e, er)
      BY <1>4
  <2>2. e = c /\ c.kind = "PolicyTree" /\ phase = "tree"
      BY <1>0, <2>1 DEF TreeWritten, Recorded, TodoOf
  <2>3. d.kind # "ContactPoint"
      BY <1>0, <2>2 DEF PlanInv, TodoOf
  <2>4. d.kind # "PolicyTree"
      BY <1>0, <2>2, PlanHas
  <2> QED BY <1>0, <1>1, <2>2, <2>3, <2>4, RankIs DEF Kinds
<1>5. CASE \E g \in NextGroups, e \in TodoOf("RuleGroup"), er \in WriteErrors : GroupWritten(g, e, er)
  <2>1. PICK g \in NextGroups, e \in TodoOf("RuleGroup"), er \in WriteErrors : GroupWritten(g, e, er)
      BY <1>5
  <2>2. e = c /\ c.kind = "RuleGroup" /\ phase = "groups"
      BY <1>0, <2>1 DEF GroupWritten, Recorded, TodoOf
  <2>3. d.kind # "ContactPoint" /\ d.kind # "PolicyTree"
      BY <1>0, <2>2 DEF PlanInv, TodoOf
  <2>4. d \in TodoOf("RuleGroup")
      BY <1>1, <2>3 DEF Kinds, TodoOf
  <2> QED BY <2>1, <2>2, <2>4, GroupFirst
<1>6. ~ \E e \in TodoOf("RuleGroup") : GroupBlocked(e)
    BY DEF GroupBlocked
<1> QED BY <1>0, <1>2, <1>3, <1>4, <1>5, <1>6, PushSteps

LEMMA SameRank ==
    ASSUME [AlertNext]_vars
    PROVE  \A c : Rank(c)' = Rank(c)
BY Frames DEF inputVars, Rank

LEMMA OrderStep ==
    ASSUME IInv, [AlertNext]_vars
    PROVE  OrderInv'
<1>0. OrderInv /\ PlanInv /\ GrafanaInv
    BY DEF IInv
<1>1. CASE UNCHANGED pushVars
    BY <1>0, <1>1, PushStays, SameRank DEF OrderInv, Writing
<1>2. CASE Fetch /\ Early /\ PushStep
  <2>0. failed = {} /\ applied = {}
      BY <1>0, <1>2 DEF PlanInv
  <2>1. ~Writing' \/ (MakePlan /\ phase' = "points")
    <3>1. CASE Start
        BY <3>1 DEF Start, Return, Writing
    <3>2. CASE Lookup
        BY <3>2 DEF Lookup, RequestFails, Return, Writing
    <3>3. CASE FetchGroup
        BY <3>3 DEF FetchGroup, RequestFails, Return, Writing
    <3>4. CASE FetchPoints \/ FetchTree
        BY <3>4 DEF FetchPoints, FetchTree, RequestFails, Return, Writing
    <3>5. CASE MakePlan
        BY <3>5 DEF MakePlan, Return, Writing
    <3> QED BY <1>2, <3>1, <3>2, <3>3, <3>4, <3>5 DEF Fetch
  <2>2. MakePlan /\ phase' = "points" =>
           failed' = {} /\ \A d \in applied' : d.action = "Unchanged"
      BY <2>0 DEF MakePlan, Return
  <2> QED BY <2>1, <2>2 DEF OrderInv
<1>3. CASE \E c \in todo : \E err : Written(c, err)
  <2>1. PICK c \in todo : \E err : Written(c, err)
      BY <1>3
  <2>2. PICK err : Written(c, err)
      BY <2>1
  <2>3. /\ Writing /\ StopOnError' = StopOnError /\ Recorded(c, err)
      BY <2>2, WrittenIs DEF Written
  <2>4. SUFFICES ASSUME StopOnError, Writing'
                 PROVE  /\ failed' = {}
                        /\ \A d \in todo', e \in applied' : e.action # "Unchanged" => Rank(e) < Rank(d)
      BY <2>3, SameRank DEF OrderInv
  <2>5. err = "nil" /\ failed' = failed /\ applied' = applied \cup {c} /\ todo' = todo \ {c}
      BY <2>3, <2>4 DEF Recorded, Writing
  <2>6. failed = {} /\ \A d \in todo, e \in applied : e.action # "Unchanged" => Rank(e) < Rank(d)
      BY <1>0, <2>3, <2>4 DEF OrderInv
  <2>7. PushStep
      BY <2>5, DisturbIs DEF pushVars
  <2>8. phase # "blocked"
      BY <2>2, <2>5 DEF Written
  <2>9. \A d \in todo \ {c} : Rank(c) < Rank(d)
      BY <2>2, <2>4, <2>7, <2>8, WrittenFirst
  <2> QED BY <2>5, <2>6, <2>9
<1>4. CASE Between
  <2>1. UNCHANGED <<todo, applied, failed, refs, remote>> /\ Writing
      BY <1>4 DEF Between, Writing
  <2>2. StopOnError' = StopOnError
      BY Frames DEF StopOnError, inputVars
  <2> QED BY <1>0, <2>1, <2>2, SameRank DEF OrderInv
<1> QED BY <1>1, <1>2, <1>3, <1>4, PushCases, DisturbIs

LEMMA AbortStep ==
    ASSUME IInv, [AlertNext]_vars
    PROVE  AbortIsPrefix'
<1>0. OrderInv /\ PlanInv /\ GrafanaInv /\ AbortIsPrefix
    BY DEF IInv
<1>1. CASE UNCHANGED pushVars
  <2>1. UNCHANGED <<phase, plan, applied, failed, returned>> /\ StopOnError' = StopOnError
      BY <1>1, PushStays
  <2>2. SUFFICES ASSUME StopOnError, NEW f \in failed
                 PROVE  /\ phase = "done" /\ returned # "nil" /\ failed = {f}
                        /\ \A c \in plan :
                              /\ Rank(c) > Rank(f.change) => c \notin applied \/ c.action = "Unchanged"
                              /\ Rank(c) < Rank(f.change) /\ (f.err = "folder" => c.kind # "RuleGroup")
                                 => c \in applied
      BY <2>1, SameRank DEF AbortIsPrefix
  <2> QED BY <1>0, <2>2 DEF AbortIsPrefix
<1>2. CASE Fetch /\ Early /\ PushStep
  <2>1. failed = {}
      BY <1>0, <1>2 DEF PlanInv
  <2>2. failed' = {}
      BY <1>2, <2>1 DEF Fetch, Start, Lookup, FetchGroup, FetchPoints, FetchTree, MakePlan, RequestFails
  <2> QED BY <2>2 DEF AbortIsPrefix
<1>3. CASE \E c \in todo : \E err : Written(c, err)
  <2>1. PICK c \in todo : \E err : Written(c, err)
      BY <1>3
  <2>2. PICK err : Written(c, err)
      BY <2>1
  <2>3. /\ Writing /\ StopOnError' = StopOnError /\ Recorded(c, err) /\ plan' = plan /\ c \in plan
        /\ todo \cup applied \cup FailedChanges = plan
      BY <2>2, WrittenIs DEF Written
  <2>4. CASE ~StopOnError
      BY <2>3, <2>4 DEF AbortIsPrefix
  <2>5. CASE StopOnError
    <3>1. failed = {} /\ \A d \in todo, e \in applied : e.action # "Unchanged" => Rank(e) < Rank(d)
        BY <1>0, <2>3, <2>5 DEF OrderInv
    <3>2. CASE err = "nil"
        BY <2>3, <3>1, <3>2 DEF AbortIsPrefix, Recorded
    <3>3. CASE err # "nil"
      <4>1. /\ failed' = {[change |-> c, err |-> err]} /\ applied' = applied
            /\ phase' = "done" /\ returned' # "nil"
          BY <2>3, <2>5, <3>1, <3>3 DEF Recorded
      <4>2. PushStep
        <5>1. todo' # todo
            BY <2>3 DEF Recorded
        <5> QED BY <5>1, DisturbIs DEF pushVars
      <4>3. todo \cup applied = plan /\ \A d \in plan : d \in Plan(Pushed, remote)
          BY <2>3, <3>1, WritingHas DEF FailedChanges
      <4>4. \A d \in plan : Rank(d) \in Nat
          BY <1>0, <4>3, RankIs
      <4>5. ASSUME NEW d \in plan, Rank(d) > Rank(c)
            PROVE  d \notin applied' \/ d.action = "Unchanged"
          BY <2>3, <3>1, <4>1, <4>4, <4>5
      <4>6. ASSUME NEW d \in plan, Rank(d) < Rank(c), err = "folder" => d.kind # "RuleGroup"
            PROVE  d \in applied'
        <5>1. SUFFICES ASSUME d \in todo PROVE FALSE
            BY <4>1, <4>3
        <5>2. d # c
            BY <2>3, <4>4, <4>6
        <5>3. CASE phase # "blocked"
          <6>1. Rank(c) < Rank(d)
              BY <2>2, <2>5, <4>2, <5>1, <5>2, <5>3, WrittenFirst
          <6> QED BY <2>3, <4>4, <4>6, <6>1
        <5>4. CASE phase = "blocked"
          <6>1. d.kind # "RuleGroup"
              BY <2>2, <4>6, <5>4 DEF Written
          <6>2. d.kind # "ContactPoint" /\ d.kind # "PolicyTree"
              BY <1>0, <2>3, <5>1, <5>4 DEF PlanInv, TodoOf
          <6>3. d.kind \in Kinds
              BY <4>3, PlanHas
          <6> QED BY <6>1, <6>2, <6>3 DEF Kinds
        <5> QED BY <5>3, <5>4
      <4> QED BY <2>3, <4>1, <4>5, <4>6, SameRank DEF AbortIsPrefix
    <3> QED BY <3>2, <3>3
  <2> QED BY <2>4, <2>5
<1>4. CASE Between
  <2>1. UNCHANGED <<todo, plan, applied, failed, refs, remote>> /\ Writing
      BY <1>4 DEF Between, Writing
  <2>2. StopOnError' = StopOnError
      BY Frames DEF StopOnError, inputVars
  <2>3. StopOnError => failed = {}
      BY <1>0, <2>1 DEF OrderInv
  <2> QED BY <2>1, <2>2, <2>3 DEF AbortIsPrefix
<1> QED BY <1>1, <1>2, <1>3, <1>4, PushCases, DisturbIs

-----------------------------------------------------------------------------
(* The types                                                               *)

OutcomeKinds == {"none", "changed", "unchanged", "error", "401"}

\* Recording an outcome.
LEMMA OpRecords ==
    ASSUME outcome \in [Elements(request.uids) -> OutcomeKinds], stopped = "nil"
    PROVE  /\ \A seq : O!RecordAll(seq, "changed") \in [Elements(request.uids) -> OutcomeKinds]
           /\ \A seq : \A err \in {"error", "401"} : O!RecordError(seq, err) =>
                 /\ outcome' \in [Elements(request.uids) -> OutcomeKinds]
                 /\ stopped' = IF err = "401" THEN "401" ELSE "nil"
<1>1. \A seq : \A what \in OutcomeKinds :
         O!RecordAll(seq, what) \in [Elements(request.uids) -> OutcomeKinds]
    BY DEF O!RecordAll
<1> QED BY <1>1 DEF O!RecordError, OutcomeKinds

LEMMA OpTypes ==
    ASSUME outcome \in [Elements(request.uids) -> OutcomeKinds], stopped = "nil", O!Next
    PROVE  /\ outcome' \in [Elements(request.uids) -> OutcomeKinds]
           /\ step' \in {"resolve", "apply", "put", "done"}
           /\ stopped' \in {"nil", "401"} /\ (stopped' # "nil" => step' = "done")
<1> DEFINE Good == /\ outcome' \in [Elements(request.uids) -> OutcomeKinds]
                   /\ step' \in {"resolve", "apply", "put", "done"}
                   /\ stopped' \in {"nil", "401"} /\ (stopped' # "nil" => step' = "done")
<1>0. \A err \in O!Errors : err \in {"error", "401"}
    BY DEF O!Errors
<1>1. ASSUME O!Resolve PROVE Good
  <2>1. step = "resolve"
      BY <1>1 DEF O!Resolve
  <2>2. \/ UNCHANGED <<outcome, stopped, step>>
        \/ O!RecordError(<<Head(queue)>>, "error") /\ UNCHANGED step
        \/ \E err \in O!Errors : O!RecordError(<<Head(queue)>>, err) /\ O!NextStep(err, "resolve")
      BY <1>1 DEF O!Resolve
  <2> QED BY <1>0, <2>1, <2>2, OpRecords DEF O!NextStep
<1>2. ASSUME O!Resolved \/ O!Finish PROVE Good
    BY <1>2 DEF O!Resolved, O!Finish
<1>3. ASSUME NEW seq, NEW header, NEW allowed, NEW after, O!Write(seq, header, allowed, after)
      PROVE  Good
  <2>1. CASE O!RecordError(seq, "error") /\ step' = "apply"
      BY <2>1, OpRecords
  <2>2. CASE outcome' = O!RecordAll(seq, "changed") /\ step' = "apply" /\ UNCHANGED stopped
      BY <2>2, OpRecords
  <2>3. CASE O!RecordError(seq, "401") /\ step' = "done"
      BY <2>3, OpRecords
  <2> QED BY <1>3, <2>1, <2>2, <2>3 DEF O!Write
<1>4. ASSUME O!DeleteNamedRule PROVE Good
  <2>1. \E seq, header, allowed, after : O!Write(seq, header, allowed, after)
      BY <1>4 DEF O!DeleteNamedRule
  <2> HIDE DEF Good
  <2> QED BY <1>3, <2>1
<1>5. ASSUME O!PutBatch PROVE Good
  <2>1. \E seq, header, allowed, after : O!Write(seq, header, allowed, after)
      BY <1>5 DEF O!PutBatch
  <2> HIDE DEF Good
  <2> QED BY <1>3, <2>1
<1>6. ASSUME O!FetchBatch PROVE Good
  <2> DEFINE group == groups[O!Ref]
  <2>1. step = "apply"
      BY <1>6 DEF O!FetchBatch
  <2>2. CASE \E err \in O!Errors : O!RecordError(O!Batch, err) /\ O!NextStep(err, "apply")
      BY <1>0, <2>2, OpRecords DEF O!NextStep
  <2>3. CASE /\ outcome' =
                   [u \in DOMAIN outcome |->
                       IF u \in O!Elements(O!Targets(group))
                       THEN IF O!GroupProvenanceHeader(group.rules) = "refused" THEN "error"
                            ELSE IF request.dryRun THEN "changed"
                            ELSE outcome[u]
                       ELSE O!Outcomes(group)[u]]
             /\ step' \in {step, "put"} /\ UNCHANGED stopped
    <3> HIDE DEF group
    <3>1. \A u \in DOMAIN outcome : O!Outcomes(group)[u] \in OutcomeKinds
        BY DEF O!Outcomes, OutcomeKinds
    <3>2. outcome' \in [Elements(request.uids) -> OutcomeKinds]
      <4>1. \A u \in DOMAIN outcome : outcome'[u] \in OutcomeKinds
          BY <2>3, <3>1 DEF OutcomeKinds
      <4> QED BY <2>3, <4>1
    <3> QED BY <2>1, <2>3, <3>2
  <2>4. \/ \E err \in O!Errors : O!RecordError(O!Batch, err) /\ O!NextStep(err, "apply")
        \/ /\ outcome' =
                   [u \in DOMAIN outcome |->
                       IF u \in O!Elements(O!Targets(group))
                       THEN IF O!GroupProvenanceHeader(group.rules) = "refused" THEN "error"
                            ELSE IF request.dryRun THEN "changed"
                            ELSE outcome[u]
                       ELSE O!Outcomes(group)[u]]
           /\ step' \in {step, "put"} /\ UNCHANGED stopped
      BY <1>6 DEF O!FetchBatch
  <2> QED BY <2>2, <2>3, <2>4
<1> QED BY <1>1, <1>2, <1>4, <1>5, <1>6 DEF O!Next

LEMMA AnswerTypes ==
    ASSUME LiveStates, NEW d, NEW states, NEW unjoined, Answering(states, unjoined)
    PROVE  Q!Joined(d, states, unjoined).state \in Q!KnownStates
<1> DEFINE row == Q!Joined(d, states, unjoined)
           found == {c \in Q!Definitions : c.uid \in DOMAIN live}
           entry(c) == [names |-> FolderNames[c.folder],
                        state |-> IF c.recording THEN "" ELSE live[c.uid]]
<1>1. CASE states = Q!NoStates /\ unjoined = "unavailable"
  <2>1. row.state \in {"recording", "unavailable"}
      BY <1>1, JoinedNone
  <2> QED BY <2>1 DEF Q!KnownStates
<1>2. CASE states = Q!States /\ unjoined = "unknown"
  <2>1. Q!ByUID = [u \in {c.uid : c \in found} |-> entry(CHOOSE c \in found : c.uid = u)]
      BY DEF Q!ByUID
  <2>2. \A c \in found : entry(c).state \in {"", "firing", "inactive"}
      BY DEF LiveStates
  <2>3. \A u \in {c.uid : c \in found} : (CHOOSE c \in found : c.uid = u) \in found
      OBVIOUS
  <2> HIDE DEF found, entry
  <2>4. \A u \in DOMAIN Q!ByUID : Q!ByUID[u].state \in {"", "firing", "inactive"}
      BY <2>1, <2>2, <2>3
  <2>5. Q!States.byUID = Q!ByUID
      BY DEF Q!States
  <2>6. row.state \in {"recording", "unknown"}
        \/ (d.uid \in DOMAIN Q!ByUID /\ row.state = Q!ByUID[d.uid].state /\ row.state # "")
      BY <1>2, <2>5 DEF Q!Joined
  <2> QED BY <2>4, <2>6 DEF Q!KnownStates
<1> QED BY <1>1, <1>2 DEF Answering

LEMMA QueryTypes ==
    ASSUME IInv, Q!Next
    PROVE  /\ asked' \in {"ask", "states", "done"} /\ answer'.err \in {"nil", "error", "401"}
           /\ \A row \in answer'.rows : row.state \in Q!KnownStates
<1>0. TypeOK /\ LiveStates
    BY DEF IInv, GrafanaInv, LiveStates
<1>1. \A err \in Q!Errors : err \in {"error", "401"}
    BY DEF Q!Errors
<1>2. CASE \E err \in {"error", "401"} : Q!Fail(err)
    BY <1>2 DEF Q!Fail
<1>3. CASE Q!AskDefinitions
    BY <1>0, <1>1, <1>2, <1>3 DEF Q!AskDefinitions, TypeOK
<1>4. CASE Q!AskStates
  <2>1. CASE \E states, unjoined : /\ Answering(states, unjoined) /\ asked' = "done"
                                   /\ answer' = [rows |-> Q!Rows(states, unjoined), err |-> "nil"]
    <3>1. PICK states : \E unjoined : /\ Answering(states, unjoined) /\ asked' = "done"
                                      /\ answer' = [rows |-> Q!Rows(states, unjoined), err |-> "nil"]
        BY <2>1
    <3>2. PICK unjoined : /\ Answering(states, unjoined) /\ asked' = "done"
                          /\ answer' = [rows |-> Q!Rows(states, unjoined), err |-> "nil"]
        BY <3>1
    <3>3. \A row \in Q!Rows(states, unjoined) : \E d : row = Q!Joined(d, states, unjoined)
        BY DEF Q!Rows
    <3>4. \A d : Q!Joined(d, states, unjoined).state \in Q!KnownStates
        BY <1>0, <3>2, AnswerTypes
    <3> QED BY <3>2, <3>3, <3>4
  <2>2. \/ \E err \in {"error", "401"} : Q!Fail(err)
        \/ /\ asked' = "done"
           /\ answer' = [rows |-> Q!Rows(Q!States, "unknown"), err |-> "nil"]
        \/ /\ asked' = "done" /\ ~Q!StateDependent
           /\ answer' = [rows |-> Q!Rows(Q!NoStates, "unavailable"), err |-> "nil"]
      BY <1>1, <1>4 DEF Q!AskStates
  <2>3. Answering(Q!States, "unknown") /\ (~Q!StateDependent => Answering(Q!NoStates, "unavailable"))
      BY DEF Answering
  <2> QED BY <1>2, <2>1, <2>2, <2>3
<1> QED BY <1>3, <1>4 DEF Q!Next

Phases == {"start", "lookup", "fetch", "fetchTree", "plan", "points", "tree",
           "folders", "blocked", "groups", "done"}
IsChange(c) == c.kind \in Kinds /\ c.action \in {"Create", "Update", "Unchanged"}
FailureErrors == {"401", "error", "rejected", "refused", "folder"}

LEMMA PushTypes ==
    ASSUME IInv, [AlertNext]_vars
    PROVE  /\ phase' \in Phases /\ refs' \subseteq DOMAIN groups /\ DOMAIN remote'.groups \subseteq DOMAIN groups
           /\ \A c \in plan' \cup applied' \cup FailedChanges' : IsChange(c)
           /\ \A f \in failed' : f.err \in FailureErrors
           /\ returned' \in {"nil", "error", "401"}
<1>0. /\ phase \in Phases /\ refs \subseteq DOMAIN groups /\ DOMAIN remote.groups \subseteq DOMAIN groups
      /\ \A c \in plan \cup applied \cup FailedChanges : IsChange(c)
      /\ \A f \in failed : f.err \in FailureErrors
      /\ returned \in {"nil", "error", "401"} /\ PlanInv /\ FetchedInv /\ GrafanaInv
    BY DEF IInv, TypeOK, Phases, IsChange, FailureErrors, Kinds
<1>1. CASE UNCHANGED pushVars
    BY <1>0, <1>1, PushStays
<1>2. CASE Fetch /\ Early /\ PushStep
  <2>0. plan = {} /\ applied = {} /\ failed = {}
      BY <1>0, <1>2 DEF PlanInv
  <2>1. failed' = {} /\ FailedChanges' = {}
      BY <1>2, <2>0 DEF Fetch, Start, Lookup, FetchGroup, FetchPoints, FetchTree, MakePlan, RequestFails,
                        FailedChanges
  <2>2. /\ phase' \in Phases /\ returned' \in {"nil", "error", "401"}
    <3>1. Start \/ MakePlan => phase' \in Phases /\ returned' \in {"nil", "error", "401"}
        BY <1>0 DEF Start, MakePlan, Return, Phases
    <3>2. RequestFails => phase' \in Phases /\ returned' \in {"nil", "error", "401"}
        BY DEF RequestFails, Errors, Return, Phases
    <3>3. Lookup \/ FetchGroup => phase' \in Phases /\ returned' \in {"nil", "error", "401"}
        BY <1>0, <3>2 DEF Lookup, FetchGroup, Return, Phases
    <3>4. FetchPoints \/ FetchTree => phase' \in Phases /\ returned' \in {"nil", "error", "401"}
        BY <1>0, <3>2 DEF FetchPoints, FetchTree, Phases
    <3> QED BY <1>2, <3>1, <3>3, <3>4 DEF Fetch
  <2>3. refs' \subseteq DOMAIN groups
    <3>1. \A g \in Elements(local.groups) : g.id \in DOMAIN groups
      <4>1. IsBundle(local, DOMAIN groups)
          BY <1>0 DEF GrafanaInv
      <4> QED BY <4>1, BundleRules DEF Elements
    <3>2. Start => refs' \subseteq DOMAIN groups
        BY <1>0, <3>1 DEF Start, Return
    <3>3. Lookup => refs' \subseteq DOMAIN groups
        BY <1>0 DEF Lookup, RequestFails
    <3>4. FetchGroup \/ FetchPoints \/ FetchTree \/ MakePlan => refs' = refs
        BY DEF FetchGroup, FetchPoints, FetchTree, MakePlan, RequestFails
    <3> QED BY <1>0, <1>2, <3>2, <3>3, <3>4 DEF Fetch
  <2>4. DOMAIN remote'.groups \subseteq DOMAIN groups
    <3>1. Start \/ Lookup \/ MakePlan => remote' = remote
        BY DEF Start, Lookup, MakePlan, RequestFails
    <3>2. FetchPoints \/ FetchTree => remote'.groups = remote.groups
        BY <1>0 DEF FetchPoints, FetchTree, RequestFails, FetchedInv
    <3>3. FetchGroup => DOMAIN remote'.groups \subseteq DOMAIN groups
      <4> SUFFICES ASSUME FetchGroup PROVE DOMAIN remote'.groups \subseteq DOMAIN groups
          OBVIOUS
      <4>1. todo \subseteq refs
          BY <1>0 DEF FetchGroup, FetchedInv
      <4>2. CASE remote' = remote
          BY <1>0, <4>2
      <4>3. CASE \E g \in todo : remote' = [remote EXCEPT !.groups =
                    [h \in DOMAIN @ \cup {g} |-> IF h = g THEN groups[g] ELSE @[h]]]
        <5>1. PICK g \in todo : remote' = [remote EXCEPT !.groups =
                    [h \in DOMAIN @ \cup {g} |-> IF h = g THEN groups[g] ELSE @[h]]]
            BY <4>3
        <5>2. DOMAIN remote'.groups = DOMAIN remote.groups \cup {g}
            BY <1>0, <5>1 DEF FetchedInv
        <5> QED BY <1>0, <4>1, <5>2
      <4> QED BY <4>2, <4>3 DEF FetchGroup, RequestFails
    <3> QED BY <1>0, <1>2, <3>1, <3>2, <3>3 DEF Fetch
  <2>5. \A c \in plan' \cup applied' : IsChange(c)
    <3>1. Start \/ Lookup \/ FetchGroup \/ FetchPoints \/ FetchTree => plan' = {} /\ applied' = {}
        BY <2>0 DEF Start, Lookup, FetchGroup, FetchPoints, FetchTree, RequestFails
    <3>2. MakePlan => plan' \subseteq Plan(Pushed, remote) /\ applied' \subseteq plan'
        BY <2>0 DEF MakePlan
    <3>3. \A c \in Plan(Pushed, remote) : IsChange(c)
        BY PlanHas DEF IsChange
    <3> QED BY <1>2, <3>1, <3>2, <3>3 DEF Fetch
  <2> QED BY <2>1, <2>2, <2>3, <2>4, <2>5
<1>3. CASE \E c \in todo : \E err : Written(c, err)
  <2>1. PICK c \in todo : \E err : Written(c, err)
      BY <1>3
  <2>2. PICK err : Written(c, err)
      BY <2>1
  <2>3. /\ UNCHANGED <<refs, remote, plan>> /\ c \in plan /\ Recorded(c, err)
        /\ FailedChanges' = IF err = "nil" THEN FailedChanges ELSE FailedChanges \cup {c}
      BY <2>2, WrittenIs DEF Written
  <2>4. err = "nil" \/ err \in FailureErrors
      BY <2>2 DEF Written, WriteErrors, FailureErrors
  <2>5. /\ phase' \in Phases /\ returned' \in {"nil", "error", "401"}
        /\ \A d \in plan' \cup applied' \cup FailedChanges' : IsChange(d)
      BY <1>0, <2>3 DEF Recorded, Phases
  <2>6. \A f \in failed' : f.err \in FailureErrors
      BY <1>0, <2>3, <2>4 DEF Recorded
  <2> QED BY <1>0, <2>3, <2>5, <2>6
<1>4. CASE Between
    BY <1>0, <1>4 DEF Between, Phases, FailedChanges
<1> QED BY <1>1, <1>2, <1>3, <1>4, PushCases, DisturbIs

LEMMA TypeStep ==
    ASSUME IInv, [AlertNext]_vars
    PROVE  TypeOK'
<1>0. TypeOK /\ DOMAIN groups' = DOMAIN groups /\ UNCHANGED request
    BY Frames, GroupsKept DEF IInv
<1>1. (/\ phase \in {"start", "lookup", "fetch", "fetchTree", "plan", "points", "tree",
                     "folders", "blocked", "groups", "done"}
       /\ refs \subseteq DOMAIN groups /\ DOMAIN remote.groups \subseteq DOMAIN groups
       /\ \A c \in plan \cup applied \cup FailedChanges :
             /\ c.kind \in {"ContactPoint", "PolicyTree", "RuleGroup"}
             /\ c.action \in {"Create", "Update", "Unchanged"}
       /\ \A f \in failed : f.err \in {"401", "error", "rejected", "refused", "folder"}
       /\ returned \in {"nil", "error", "401"})'
    BY <1>0, PushTypes DEF Phases, IsChange, Kinds, FailureErrors
<1>2. (/\ step \in {"resolve", "apply", "put", "done"}
       /\ outcome \in [Elements(request.uids) -> {"none", "changed", "unchanged", "error", "401"}]
       /\ stopped \in {"nil", "401"} /\ (stopped # "nil" => step = "done"))'
  <2>1. CASE UNCHANGED opVars
      BY <1>0, <2>1 DEF TypeOK, opVars, Elements
  <2>2. CASE O!Next
    <3>1. stopped = "nil"
        BY <1>0, <2>2, OpKeeps DEF TypeOK
    <3>2. outcome \in [Elements(request.uids) -> OutcomeKinds]
        BY <1>0 DEF TypeOK, OutcomeKinds
    <3> QED BY <1>0, <2>2, <3>1, <3>2, OpTypes DEF OutcomeKinds, Elements
  <2> QED BY <2>1, <2>2, Frames DEF OpStep
<1>3. (asked \in {"ask", "states", "done"} /\ answer.err \in {"nil", "error", "401"}
       /\ \A row \in answer.rows : row.state \in Q!KnownStates)'
  <2>1. CASE UNCHANGED queryVars
      BY <1>0, <2>1 DEF TypeOK, queryVars, Q!KnownStates
  <2>2. CASE Q!Next
      BY <2>2, QueryTypes DEF Q!KnownStates
  <2> QED BY <2>1, <2>2, Frames DEF QueryStep
<1>4. (session \in BOOLEAN /\ disturbed \in BOOLEAN /\ edits \in 0..MaxEdits)'
  <2>0. session \in BOOLEAN /\ disturbed \in BOOLEAN /\ edits \in 0..MaxEdits /\ MaxEdits \in Nat
      BY <1>0, EditsAssumption DEF TypeOK
  <2>1. CASE PushStep
    <3>1. UNCHANGED <<edits, disturbed>>
        BY <2>1 DEF PushStep
    <3>2. session' = session
        BY <2>1 DEF PushStep, Next, Fetch, Apply, PushContactPoint, PushPolicyTree, NextPhase, CheckFolders,
                    RecordBlocked, PushRuleGroup, Finish, grafanaVars
    <3> QED BY <2>0, <3>1, <3>2
  <2>2. CASE OpStep
      BY <2>0, <2>2 DEF OpStep, Disturb
  <2>3. CASE QueryStep
      BY <2>0, <2>3 DEF QueryStep, grafanaVars
  <2>4. CASE Edit
    <3>1. disturbed' \in BOOLEAN /\ session' = session
        BY <2>0, <2>4 DEF Edit, Disturb
    <3>2. edits' \in 0..MaxEdits
        BY <2>0, <2>4 DEF Edit
    <3> QED BY <2>0, <3>1, <3>2
  <2>5. CASE Evaluate
    <3>1. UNCHANGED <<disturbed, session>>
        BY <2>5 DEF Evaluate, grafanaVars
    <3>2. edits' \in 0..MaxEdits
        BY <2>0, <2>5 DEF Evaluate
    <3> QED BY <2>0, <3>1, <3>2
  <2>6. CASE SessionDies
      BY <2>0, <2>6 DEF SessionDies
  <2>7. CASE UNCHANGED vars
      BY <2>0, <2>7 DEF vars, grafanaVars
  <2> QED BY <2>1, <2>2, <2>3, <2>4, <2>5, <2>6, <2>7 DEF AlertNext
<1> QED BY <1>1, <1>2, <1>3, <1>4 DEF TypeOK

-----------------------------------------------------------------------------
(* Rules without an outcome                                                *)

LEMMA HeadOrTail ==
    ASSUME NEW R, NEW seq \in Seq(R), NEW i \in DOMAIN seq
    PROVE  \/ seq[i] = Head(seq)
           \/ \E k \in DOMAIN Tail(seq) : Tail(seq)[k] = seq[i]
<1>1. CASE i = 1
    BY <1>1
<1>2. CASE i # 1
  <2>1. i - 1 \in DOMAIN Tail(seq) /\ Tail(seq)[i - 1] = seq[i]
      BY <1>2
  <2> QED BY <2>1
<1> QED BY <1>1, <1>2

\* A rule that is to be handled is in the next write, or stays.
LEMMA BatchOrRest ==
    ASSUME OpInv, NEW i \in DOMAIN rules
    PROVE  /\ rules[i].ref = O!Ref => rules[i].uid \in Elements(O!Batch)
           /\ rules[i].ref # O!Ref =>
                 \E k \in DOMAIN O!RestOfRules : O!RestOfRules[k] = rules[i]
<1> DEFINE Located == [uid : Elements(request.uids), ref : DOMAIN groups, prov : Texts]
           batch == Those(rules, {j \in DOMAIN rules : rules[j].ref = O!Ref})
<1>1. rules \in Seq(Located)
    BY DEF OpInv
<1> HIDE DEF Located
<1>2. ASSUME rules[i].ref # O!Ref
      PROVE  \E k \in DOMAIN O!RestOfRules : O!RestOfRules[k] = rules[i]
  <2> DEFINE kept == {j \in DOMAIN rules : rules[j].ref # O!Ref}
  <2>1. i \in kept
      BY <1>2
  <2>2. O!RestOfRules = Those(rules, kept)
      BY SameThose DEF O!RestOfRules
  <2> HIDE DEF kept
  <2> QED BY <1>1, <2>1, <2>2, ThoseHave
<1>3. ASSUME rules[i].ref = O!Ref PROVE rules[i].uid \in Elements(O!Batch)
  <2> DEFINE kept == {j \in DOMAIN rules : rules[j].ref = O!Ref}
  <2>1. i \in kept
      BY <1>3
  <2>2. batch = Those(rules, kept)
      OBVIOUS
  <2> HIDE DEF kept, batch
  <2>3. \E k \in DOMAIN batch : batch[k] = rules[i]
      BY <1>1, <2>1, <2>2, ThoseHave
  <2>4. PICK k \in DOMAIN batch : batch[k] = rules[i]
      BY <2>3
  <2>5. O!Batch = [j \in DOMAIN batch |-> batch[j].uid]
      BY SameThose DEF O!Batch, O!UidsOf, batch
  <2>6. k \in DOMAIN O!Batch /\ O!Batch[k] = rules[i].uid
      BY <2>4, <2>5
  <2> QED BY <2>6 DEF Elements
<1> QED BY <1>2, <1>3

LEMMA TargetsHave ==
    ASSUME OpInv, NEW group, NEW u \in Elements(O!Batch), O!Holds(group, u),
           RuleWith(group.rules, u).paused # O!Paused
    PROVE  u \in Elements(O!Targets(group))
<1> DEFINE batch == O!Batch
           kept == {i \in DOMAIN batch : /\ O!Holds(group, batch[i])
                                         /\ RuleWith(group.rules, batch[i]).paused # O!Paused}
<1>1. O!Targets(group) = Those(batch, kept)
    BY SameThose, SameRules DEF O!Targets
<1>2. batch \in Seq(Elements(request.uids))
    BY BatchIs
<1>3. PICK i \in DOMAIN batch : batch[i] = u
    BY DEF Elements
<1>4. i \in kept
    BY <1>3
<1> HIDE DEF batch, kept
<1>5. \E k \in DOMAIN Those(batch, kept) : Those(batch, kept)[k] = u
    BY <1>2, <1>3, <1>4, ThoseHave
<1> QED BY <1>1, <1>5 DEF Elements

LEMMA HeadIn ==
    ASSUME NEW R, NEW seq \in Seq(R), seq # <<>>
    PROVE  Head(seq) \in Elements(seq) /\ Head(seq) \in R
<1>1. 1 \in DOMAIN seq /\ Head(seq) = seq[1] /\ seq[1] \in R
    OBVIOUS
<1> QED BY <1>1 DEF Elements

\* A failure is the outcome of all rules of a write, or, of a dead session, of one.
LEMMA FailureIs ==
    ASSUME outcome \in [Elements(request.uids) -> OutcomeKinds], stopped = "nil",
           NEW seq \in Seq(Elements(request.uids)), seq # <<>>,
           NEW err \in {"error", "401"}, O!RecordError(seq, err)
    PROVE  /\ DOMAIN outcome' = DOMAIN outcome
           /\ err = "401" => stopped' = "401" /\ \E u \in DOMAIN outcome' : outcome'[u] = "401"
           /\ err = "error" =>
                 /\ stopped' = "nil"
                 /\ \A u \in DOMAIN outcome :
                       outcome'[u] = IF u \in Elements(seq) THEN "error" ELSE outcome[u]
<1>1. CASE err = "error"
    BY <1>1, SameRules DEF O!RecordError, O!RecordAll
<1>2. CASE err = "401"
  <2> DEFINE h == Head(seq)
  <2>1. h \in DOMAIN outcome
      BY HeadIn
  <2> HIDE DEF h
  <2>2. stopped' = "401" /\ outcome' = O!RecordAll(<<h>>, "401")
      BY <1>2 DEF O!RecordError, h
  <2>3. h \in O!Elements(<<h>>)
    <3>1. 1 \in DOMAIN <<h>> /\ <<h>>[1] = h
        OBVIOUS
    <3> QED BY <3>1 DEF O!Elements
  <2>4. h \in DOMAIN outcome' /\ outcome'[h] = "401" /\ DOMAIN outcome' = DOMAIN outcome
      BY <2>1, <2>2, <2>3 DEF O!RecordAll
  <2> QED BY <1>2, <2>2, <2>4
<1> QED BY <1>1, <1>2

\* What has still to be done for a rule.
Waits(u) ==
    \/ u \in Elements(queue)
    \/ \E i \in DOMAIN rules :
          /\ rules[i].uid = u
          /\ step = "put" /\ rules[i].ref = O!Ref => u \in Elements(O!Targets(body))

\* What a step of the operation leaves: the dead session, or only rules that wait.
LeavesOutcomes ==
    /\ DOMAIN outcome' = DOMAIN outcome
    /\ \/ /\ stopped' = "401" /\ step' = "done"
          /\ \E u \in DOMAIN outcome' : outcome'[u] = "401"
       \/ /\ stopped' = "nil"
          /\ \A u \in DOMAIN outcome : outcome'[u] = outcome[u] \/ outcome'[u] \in {"changed", "unchanged", "error"}
          /\ step' # "resolve" => queue' = <<>>
          /\ step' = "done" => rules' = <<>>
          /\ \A u \in DOMAIN outcome : outcome'[u] = "none" => Waits(u)'

\* After a write of seq, which was handled, the rules that are left wait.
LEMMA WriteLeaves ==
    ASSUME outcome \in [Elements(request.uids) -> OutcomeKinds], stopped = "nil",
           queue = <<>>, queue' = queue,
           NEW seq \in Seq(Elements(request.uids)), seq # <<>>,
           \A u \in DOMAIN outcome : outcome[u] = "none" /\ u \notin Elements(seq) =>
               \E i \in DOMAIN rules' : rules'[i].uid = u,
           NEW header, NEW allowed, NEW after, O!Write(seq, header, allowed, after)
    PROVE  LeavesOutcomes
<1>1. CASE O!RecordError(seq, "401") /\ step' = "done"
  <2>1. /\ DOMAIN outcome' = DOMAIN outcome /\ stopped' = "401"
        /\ \E u \in DOMAIN outcome' : outcome'[u] = "401"
      BY <1>1, FailureIs
  <2> QED BY <1>1, <2>1 DEF LeavesOutcomes
<1>2. ASSUME step' = "apply", stopped' = "nil", DOMAIN outcome' = DOMAIN outcome,
             NEW what \in {"changed", "error"},
             \A u \in DOMAIN outcome :
                 outcome'[u] = IF u \in Elements(seq) THEN what ELSE outcome[u]
      PROVE  LeavesOutcomes
  <2>1. \A u \in DOMAIN outcome : outcome'[u] = "none" => Waits(u)'
      BY <1>2 DEF Waits
  <2> QED BY <1>2, <2>1 DEF LeavesOutcomes
<1>3. CASE O!RecordError(seq, "error") /\ step' = "apply"
  <2>1. /\ DOMAIN outcome' = DOMAIN outcome /\ stopped' = "nil"
        /\ \A u \in DOMAIN outcome :
              outcome'[u] = IF u \in Elements(seq) THEN "error" ELSE outcome[u]
      BY <1>3, FailureIs
  <2> QED BY <1>2, <1>3, <2>1
<1>4. CASE outcome' = O!RecordAll(seq, "changed") /\ step' = "apply" /\ UNCHANGED stopped
  <2>1. /\ DOMAIN outcome' = DOMAIN outcome
        /\ \A u \in DOMAIN outcome :
              outcome'[u] = IF u \in Elements(seq) THEN "changed" ELSE outcome[u]
      BY <1>4, SameRules DEF O!RecordAll
  <2> QED BY <1>2, <1>4, <2>1
<1> QED BY <1>1, <1>3, <1>4 DEF O!Write

LEMMA OpLeaves ==
    ASSUME IInv, O!Next
    PROVE  LeavesOutcomes
<1> DEFINE Located == [uid : Elements(request.uids), ref : DOMAIN groups, prov : Texts]
<1>1. /\ OpInv /\ OutcomeInv /\ step # "done"
      /\ queue \in Seq(Elements(request.uids)) /\ rules \in Seq(Located)
      /\ outcome \in [Elements(request.uids) -> OutcomeKinds]
    BY OpKeeps DEF IInv, OpInv, TypeOK, OutcomeKinds
<1>2. stopped = "nil"
    BY <1>1 DEF IInv, TypeOK
<1>3. /\ \A u \in DOMAIN outcome : outcome[u] = "none" => Waits(u)
      /\ step # "resolve" => queue = <<>>
    BY <1>1, <1>2 DEF OutcomeInv, Waits
<1>4. \A err \in O!Errors : err \in {"error", "401"}
    BY DEF O!Errors
<1> HIDE DEF Located
<1>5. CASE O!Resolve
  <2> DEFINE h == Head(queue)
  <2>1. /\ queue # <<>> /\ queue' = Tail(queue) /\ step = "resolve"
        /\ h \in Elements(request.uids)
      BY <1>1, <1>5, HeadIn DEF O!Resolve
  <2>2. ASSUME NEW u, Waits(u), u # h, rules' = rules \/ \E r : rules' = Append(rules, r),
               step' = "resolve"
        PROVE  Waits(u)'
    <3>1. CASE u \in Elements(queue)
      <4>1. PICK i \in DOMAIN queue : queue[i] = u
          BY <3>1 DEF Elements
      <4>2. \E k \in DOMAIN Tail(queue) : Tail(queue)[k] = u
          BY <1>1, <2>2, <4>1, HeadOrTail
      <4> QED BY <2>1, <4>2 DEF Waits, Elements
    <3>2. CASE \E i \in DOMAIN rules : rules[i].uid = u
      <4>1. PICK i \in DOMAIN rules : rules[i].uid = u
          BY <3>2
      <4>2. i \in DOMAIN rules' /\ rules'[i] = rules[i]
          BY <1>1, <2>2, <4>1
      <4> QED BY <2>2, <4>1, <4>2 DEF Waits
    <3> QED BY <2>2, <3>1, <3>2 DEF Waits
  <2>3. /\ <<h>> \in Seq(Elements(request.uids)) /\ <<h>> # <<>> /\ Elements(<<h>>) = {h}
      BY <2>1 DEF Elements
  <2> HIDE DEF h
  <2>4. CASE UNCHANGED <<outcome, stopped, step>> /\ \E g \in O!HolderOf(h) :
                rules' = Append(rules, [uid |-> h, ref |-> g, prov |-> O!RuleWith(groups[g].rules, h).prov])
    <3>1. PICK g : rules' = Append(rules, [uid |-> h, ref |-> g, prov |-> O!RuleWith(groups[g].rules, h).prov])
        BY <2>4
    <3> DEFINE n == Len(rules) + 1
    <3>2. n \in DOMAIN rules' /\ rules'[n].uid = h
        BY <1>1, <3>1
    <3> HIDE DEF n
    <3>3. step' = "resolve" /\ outcome' = outcome /\ stopped' = stopped
        BY <2>1, <2>4
    <3>4. ASSUME NEW u, u = h PROVE Waits(u)'
        BY <3>2, <3>3, <3>4 DEF Waits
    <3>5. ASSUME NEW u \in DOMAIN outcome, outcome'[u] = "none" PROVE Waits(u)'
      <4>1. Waits(u)
          BY <1>3, <3>3, <3>5
      <4>2. CASE u # h
          BY <2>2, <3>1, <3>3, <4>1, <4>2
      <4> QED BY <3>4, <4>2
    <3> QED BY <1>2, <3>3, <3>5 DEF LeavesOutcomes
  <2>5. ASSUME NEW err \in {"error", "401"}, O!RecordError(<<h>>, err), rules' = rules,
               step' = IF err = "401" THEN "done" ELSE "resolve"
        PROVE  LeavesOutcomes
    <3>1. /\ DOMAIN outcome' = DOMAIN outcome
          /\ err = "401" => stopped' = "401" /\ \E u \in DOMAIN outcome' : outcome'[u] = "401"
          /\ err = "error" =>
                /\ stopped' = "nil"
                /\ \A u \in DOMAIN outcome : outcome'[u] = IF u \in {h} THEN "error" ELSE outcome[u]
        BY <1>1, <1>2, <2>3, <2>5, FailureIs
    <3>2. CASE err = "401"
        BY <2>5, <3>1, <3>2 DEF LeavesOutcomes
    <3>3. CASE err = "error"
      <4>1. \A u \in DOMAIN outcome : outcome'[u] = "none" => Waits(u)'
          BY <1>3, <2>2, <2>5, <3>1, <3>3
      <4> QED BY <2>5, <3>1, <3>3, <4>1 DEF LeavesOutcomes
    <3> QED BY <3>2, <3>3
  <2> QED
    <3>1. \/ UNCHANGED <<outcome, stopped, step>> /\ \E g \in O!HolderOf(h) :
                rules' = Append(rules, [uid |-> h, ref |-> g, prov |-> O!RuleWith(groups[g].rules, h).prov])
          \/ O!RecordError(<<h>>, "error") /\ UNCHANGED <<rules, step>>
          \/ \E err \in O!Errors :
                O!RecordError(<<h>>, err) /\ O!NextStep(err, "resolve") /\ UNCHANGED rules
        BY <1>5 DEF O!Resolve, h
    <3> QED BY <1>4, <2>1, <2>4, <2>5, <3>1 DEF O!NextStep
<1>6. CASE O!Resolved
  <2>1. UNCHANGED <<queue, rules, body, outcome, stopped>> /\ queue = <<>> /\ step' = "apply"
      BY <1>6 DEF O!Resolved
  <2>2. \A u \in DOMAIN outcome : outcome'[u] = "none" => Waits(u)'
      BY <1>3, <2>1 DEF Waits
  <2> QED BY <1>2, <2>1, <2>2 DEF LeavesOutcomes
<1>7. CASE O!Finish
  <2>1. UNCHANGED <<queue, rules, body, outcome, stopped>> /\ rules = <<>> /\ step' = "done"
        /\ step = "apply"
      BY <1>7 DEF O!Finish
  <2>2. \A u \in DOMAIN outcome : outcome'[u] = "none" => Waits(u)'
      BY <1>3, <2>1 DEF Waits
  <2> QED BY <1>2, <1>3, <2>1, <2>2 DEF LeavesOutcomes
<1>8. CASE O!DeleteNamedRule
  <2> DEFINE h == Head(rules).uid
  <2>1. /\ step = "apply" /\ rules # <<>> /\ rules' = Tail(rules) /\ queue' = queue
        /\ \E header, allowed, after : O!Write(<<h>>, header, allowed, after)
      BY <1>8 DEF O!DeleteNamedRule
  <2>2. h \in Elements(request.uids)
      BY <1>1, <2>1, RefIs
  <2> HIDE DEF h
  <2>3. /\ <<h>> \in Seq(Elements(request.uids)) /\ <<h>> # <<>> /\ Elements(<<h>>) = {h}
      BY <2>2 DEF Elements
  <2>4. \A u \in DOMAIN outcome : outcome[u] = "none" /\ u \notin {h} =>
           \E i \in DOMAIN rules' : rules'[i].uid = u
    <3> SUFFICES ASSUME NEW u \in DOMAIN outcome, outcome[u] = "none", u # h
                 PROVE  \E i \in DOMAIN rules' : rules'[i].uid = u
        OBVIOUS
    <3>1. queue = <<>>
        BY <1>3, <2>1
    <3>2. PICK i \in DOMAIN rules : rules[i].uid = u
        BY <1>3, <3>1 DEF Waits, Elements
    <3>3. rules[i] = Head(rules) \/ \E k \in DOMAIN Tail(rules) : Tail(rules)[k] = rules[i]
        BY <1>1, HeadOrTail
    <3> QED BY <2>1, <3>2, <3>3 DEF h
  <2>5. queue = <<>>
      BY <1>3, <2>1
  <2> QED BY <1>1, <1>2, <2>1, <2>3, <2>4, <2>5, WriteLeaves
<1>9. ASSUME rules' = O!RestOfRules, NEW u, NEW i \in DOMAIN rules, rules[i].uid = u,
             rules[i].ref # O!Ref
      PROVE  \E k \in DOMAIN rules' : rules'[k].uid = u
  <2>1. PICK k \in DOMAIN O!RestOfRules : O!RestOfRules[k] = rules[i]
      BY <1>1, <1>9, BatchOrRest
  <2> QED BY <1>9, <2>1
<1>10. CASE O!PutBatch
  <2> DEFINE seq == O!Targets(body)
  <2>1. /\ step = "put" /\ rules' = O!RestOfRules /\ queue' = queue
        /\ \E header, allowed, after : O!Write(seq, header, allowed, after)
      BY <1>10 DEF O!PutBatch
  <2>2. seq # <<>> /\ seq \in Seq(Elements(request.uids)) /\ queue = <<>>
    <3>1. seq # <<>> /\ queue = <<>>
        BY <1>1, <1>3, <2>1 DEF OpInv
    <3> DEFINE kept == {i \in DOMAIN O!Batch : /\ O!Holds(body, O!Batch[i])
                                               /\ RuleWith(body.rules, O!Batch[i]).paused # O!Paused}
    <3>2. seq = Those(O!Batch, kept)
        BY SameThose, SameRules DEF O!Targets
    <3>3. O!Batch \in Seq(Elements(request.uids))
        BY <1>1, BatchIs
    <3> HIDE DEF kept
    <3> QED BY <3>1, <3>2, <3>3, ThoseAre
  <2>3. \A u \in DOMAIN outcome : outcome[u] = "none" /\ u \notin Elements(seq) =>
           \E i \in DOMAIN rules' : rules'[i].uid = u
    <3> SUFFICES ASSUME NEW u \in DOMAIN outcome, outcome[u] = "none", u \notin Elements(seq)
                 PROVE  \E i \in DOMAIN rules' : rules'[i].uid = u
        OBVIOUS
    <3>1. PICK i \in DOMAIN rules : rules[i].uid = u /\ rules[i].ref # O!Ref
        BY <1>3, <2>1, <2>2 DEF Waits, Elements
    <3> QED BY <1>9, <2>1, <3>1
  <2> HIDE DEF seq
  <2> QED BY <1>1, <1>2, <2>1, <2>2, <2>3, WriteLeaves
<1>11. CASE O!FetchBatch
  <2> DEFINE group == groups[O!Ref]
             seq == O!Targets(group)
             refused == O!GroupProvenanceHeader(group.rules) = "refused"
  <2>1. step = "apply" /\ rules # <<>> /\ queue' = queue
      BY <1>11 DEF O!FetchBatch
  <2>2. queue = <<>> /\ \A u \in DOMAIN outcome : outcome[u] = "none" =>
                            \E i \in DOMAIN rules : rules[i].uid = u
      BY <1>3, <2>1 DEF Waits, Elements
  <2>3. ASSUME NEW err \in {"error", "401"}, O!RecordError(O!Batch, err),
               step' = (IF err = "401" THEN "done" ELSE "apply"), rules' = O!RestOfRules
        PROVE  LeavesOutcomes
    <3>1. O!Batch \in Seq(Elements(request.uids))
        BY <1>1, BatchIs
    <3>2. O!Batch # <<>>
      <4>1. 1 \in DOMAIN rules /\ Head(rules) = rules[1]
          BY <1>1, <2>1
      <4>2. rules[1].uid \in Elements(O!Batch)
          BY <1>1, <4>1, BatchOrRest DEF O!Ref
      <4> QED BY <4>2 DEF Elements
    <3>3. /\ DOMAIN outcome' = DOMAIN outcome
          /\ err = "401" => stopped' = "401" /\ \E u \in DOMAIN outcome' : outcome'[u] = "401"
          /\ err = "error" =>
                /\ stopped' = "nil"
                /\ \A u \in DOMAIN outcome :
                      outcome'[u] = IF u \in Elements(O!Batch) THEN "error" ELSE outcome[u]
        BY <1>1, <1>2, <2>3, <3>1, <3>2, FailureIs
    <3>4. CASE err = "401"
        BY <2>3, <3>3, <3>4 DEF LeavesOutcomes
    <3>5. CASE err = "error"
      <4>1. ASSUME NEW u \in DOMAIN outcome, outcome'[u] = "none" PROVE Waits(u)'
        <5>1. outcome[u] = "none" /\ u \notin Elements(O!Batch)
            BY <3>3, <3>5, <4>1
        <5>2. PICK i \in DOMAIN rules : rules[i].uid = u
            BY <2>2, <5>1
        <5>3. rules[i].ref # O!Ref
            BY <1>1, <5>1, <5>2, BatchOrRest
        <5>4. PICK k \in DOMAIN rules' : rules'[k].uid = u
            BY <1>9, <2>3, <5>2, <5>3
        <5> QED BY <2>3, <3>5, <5>4 DEF Waits
      <4> QED BY <2>1, <2>2, <2>3, <3>3, <3>5, <4>1 DEF LeavesOutcomes
    <3> QED BY <3>4, <3>5
  <2>4. ASSUME /\ outcome' =
                   [u \in DOMAIN outcome |->
                       IF u \in O!Elements(seq)
                       THEN IF refused THEN "error"
                            ELSE IF request.dryRun THEN "changed"
                            ELSE outcome[u]
                       ELSE O!Outcomes(group)[u]]
               /\ IF seq = <<>> \/ request.dryRun \/ refused
                  THEN rules' = O!RestOfRules /\ UNCHANGED <<step, body>>
                  ELSE step' = "put" /\ body' = group /\ UNCHANGED rules
               /\ UNCHANGED stopped
        PROVE  LeavesOutcomes
    <3> HIDE DEF refused, group
    <3>1. /\ DOMAIN outcome' = DOMAIN outcome
          /\ \A u \in DOMAIN outcome :
                \/ outcome'[u] = outcome[u]
                \/ outcome'[u] \in {"changed", "unchanged", "error"}
      <4>1. \A u \in DOMAIN outcome : O!Outcomes(group)[u] \in {outcome[u], "error", "unchanged"}
          BY DEF O!Outcomes
      <4> HIDE DEF seq
      <4> QED BY <2>4, <4>1
    <3>2. ASSUME NEW u \in DOMAIN outcome, outcome'[u] = "none"
          PROVE  /\ outcome[u] = "none"
                 /\ u \in Elements(O!Batch) =>
                       u \in Elements(seq) /\ ~refused /\ ~request.dryRun
      <4>1. outcome[u] = "none"
          BY <3>1, <3>2
      <4>2. ASSUME u \in Elements(O!Batch) PROVE u \in Elements(seq)
        <5> SUFFICES ASSUME u \notin Elements(seq) PROVE FALSE
            OBVIOUS
        <5>1. O!Outcomes(group)[u] = "none"
          <6> HIDE DEF seq
          <6> QED BY <2>4, <3>2, SameRules
        <5>2. O!Holds(group, u) /\ RuleWith(group.rules, u).paused # O!Paused
            BY <4>2, <5>1, SameRules DEF O!Outcomes
        <5> QED BY <1>1, <4>2, <5>2, TargetsHave
      <4>3. u \in Elements(seq) => ~refused /\ ~request.dryRun
        <5> HIDE DEF seq
        <5> QED BY <2>4, <3>2, SameRules
      <4> QED BY <4>1, <4>2, <4>3
    <3>3. ASSUME NEW u \in DOMAIN outcome, outcome'[u] = "none" PROVE Waits(u)'
      <4>1. PICK i \in DOMAIN rules : rules[i].uid = u
          BY <2>2, <3>2, <3>3
      <4>2. rules[i].ref = O!Ref => u \in Elements(seq) /\ ~refused /\ ~request.dryRun
          BY <1>1, <3>2, <3>3, <4>1, BatchOrRest
      <4>3. CASE seq = <<>> \/ request.dryRun \/ refused
        <5>1. rules[i].ref # O!Ref
            BY <4>2, <4>3 DEF Elements
        <5>2. PICK k \in DOMAIN rules' : rules'[k].uid = u
            BY <1>9, <2>4, <4>1, <4>3, <5>1
        <5> QED BY <2>1, <2>4, <4>3, <5>2 DEF Waits
      <4>4. CASE ~(seq = <<>> \/ request.dryRun \/ refused)
        <5>1. rules' = rules /\ body' = group /\ step' = "put"
            BY <2>4, <4>4
        <5>2. O!Ref' = O!Ref /\ O!Targets(body)' = seq
          <6>1. UNCHANGED request
              BY RequestStays
          <6> QED BY <5>1, <6>1 DEF O!Ref, O!Targets, O!Batch, O!UidsOf, O!Paused
        <5>3. Elements(O!Targets(body))' = Elements(seq)
            BY <5>2 DEF Elements
        <5> QED BY <4>1, <4>2, <5>1, <5>2, <5>3 DEF Waits
      <4> QED BY <4>3, <4>4
    <3>4. step' # "done"
        BY <2>1, <2>4
    <3> QED BY <1>2, <2>1, <2>2, <2>4, <3>1, <3>3, <3>4 DEF LeavesOutcomes
  <2> QED
    <3>1. \/ \E err \in O!Errors :
                O!RecordError(O!Batch, err) /\ O!NextStep(err, "apply") /\ rules' = O!RestOfRules
          \/ /\ outcome' =
                   [u \in DOMAIN outcome |->
                       IF u \in O!Elements(seq)
                       THEN IF refused THEN "error"
                            ELSE IF request.dryRun THEN "changed"
                            ELSE outcome[u]
                       ELSE O!Outcomes(group)[u]]
             /\ IF seq = <<>> \/ request.dryRun \/ refused
                THEN rules' = O!RestOfRules /\ UNCHANGED <<step, body>>
                ELSE step' = "put" /\ body' = group /\ UNCHANGED rules
             /\ UNCHANGED stopped
        BY <1>11 DEF O!FetchBatch
    <3> HIDE DEF group, seq, refused
    <3> QED BY <1>4, <2>3, <2>4, <3>1 DEF O!NextStep
<1> QED BY <1>5, <1>6, <1>7, <1>8, <1>10, <1>11 DEF O!Next

LEMMA OutcomesStay ==
    ASSUME IInv, [AlertNext]_vars
    PROVE  OutcomeInv'
<1>1. OutcomeInv
    BY DEF IInv
<1>2. CASE UNCHANGED opVars
  <2>1. UNCHANGED <<request, step, queue, rules, body, outcome, stopped>>
      BY <1>2 DEF opVars
  <2>2. O!Ref' = O!Ref /\ O!Targets(body)' = O!Targets(body)
      BY <2>1 DEF O!Ref, O!Targets, O!Batch, O!UidsOf, O!Paused
  <2> QED BY <1>1, <2>1, <2>2 DEF OutcomeInv, Elements
<1>3. CASE OpStep
  <2>1. LeavesOutcomes /\ step # "done"
      BY <1>3, OpLeaves, OpKeeps DEF OpStep
  <2>2. stopped = "nil" /\ \A u \in DOMAIN outcome : outcome[u] # "401"
      BY <1>1, <2>1 DEF IInv, TypeOK, OutcomeInv
  <2> QED BY <2>1, <2>2 DEF LeavesOutcomes, OutcomeInv, Waits
<1> QED BY <1>2, <1>3, Frames

-----------------------------------------------------------------------------
(* Exit statuses                                                           *)

\* Of an error with one type in its chain.
LEMMA FirstOfOne ==
    ASSUME NEW e, NEW i, E!Finds(i, <<e>>) # {}
    PROVE  E!First(i, <<e>>) = e /\ e \in E!Converters[i]
<1>1. E!Finds(i, <<e>>) = {1} /\ e \in E!Converters[i]
    BY DEF E!Finds
<1>2. E!Min({1}) = 1
    BY DEF E!Min
<1> QED BY <1>1, <1>2 DEF E!First

LEMMA StatusOfOne ==
    /\ \A e : e \notin E!SessionErrors => E!ExitStatus(<<e>>) = "1"
    /\ E!ExitStatus(<<>>) = "1"
    /\ E!ExitStatus(<<"APIError 401">>) = "2"
<1>1. DOMAIN E!Converters = 1..10
    BY DEF E!Converters
<1>2. ASSUME NEW e, e \notin E!SessionErrors PROVE E!ExitStatus(<<e>>) = "1"
  <2>1. \A i \in E!Converting(<<e>>) : E!First(i, <<e>>) = e
      BY FirstOfOne DEF E!Converting
  <2> QED BY <1>2, <2>1 DEF E!ExitStatus
<1>3. E!ExitStatus(<<>>) = "1"
  <2>1. \A i : E!Finds(i, <<>>) = {}
      BY DEF E!Finds
  <2> QED BY <2>1 DEF E!ExitStatus, E!Converting
<1>4. ASSUME NEW e, e = "APIError 401" PROVE E!ExitStatus(<<e>>) = "2"
  <2>1. e \in E!Converters[8] /\ e # "APIError" /\ e # "DetailedError" /\ e \in E!SessionErrors
      BY <1>4 DEF E!Converters, E!Auth, E!SessionErrors
  <2>2. 8 \in E!Converting(<<e>>) /\ E!First(8, <<e>>) = e
    <3>1. 1 \in DOMAIN <<e>> /\ <<e>>[1] = e
        OBVIOUS
    <3>2. E!Finds(8, <<e>>) # {}
        BY <2>1, <3>1 DEF E!Finds
    <3> QED BY <1>1, <2>1, <3>2, FirstOfOne DEF E!Converting
  <2>3. ASSUME NEW j \in 1..7 PROVE e \notin E!Converters[j]
    <3>1. E!Converters[j] \in {E!Config, E!SessionBinding, E!FS, E!Resources, E!Alerts,
                               E!ServerPolicy, E!Network}
        BY DEF E!Converters
    <3>2. e \notin E!Config \cup E!SessionBinding \cup E!FS \cup E!Resources \cup E!Alerts
                   \cup E!ServerPolicy \cup E!Network
        BY <1>4 DEF E!Config, E!SessionBinding, E!FS, E!Resources, E!Alerts, E!ServerPolicy,
                    E!Network
    <3> QED BY <3>1, <3>2
  <2>4. \A j \in E!Converting(<<e>>) : 8 <= j
      BY <1>1, <2>3, FirstOfOne DEF E!Converting
  <2>5. ~E!Contains(<<e>>, "DetailedError")
    <3>1. \A i \in 1..Len(<<e>>) : <<e>>[i] = e
        OBVIOUS
    <3> QED BY <2>1, <3>1 DEF E!Contains
  <2> QED BY <2>1, <2>2, <2>4, <2>5 DEF E!ExitStatus
<1> QED BY <1>2, <1>3, <1>4

LEMMA ErrorExitsAre ==
    /\ ErrorExits("nil") = {"0"} /\ ErrorExits("401") = {"2"}
    /\ \A err : err \notin {"nil", "401"} => ErrorExits(err) = {"1"}
<1>1. ErrorExits("nil") = {"0"}
    BY DEF ErrorExits
<1>2. ErrorExits("401") = {"2"}
    BY StatusOfOne DEF ErrorExits, Chains
<1>3. ASSUME NEW err, err \notin {"nil", "401"} PROVE ErrorExits(err) = {"1"}
  <2>1. \A e \in {"url.Error", "APIError 403", "APIError", "ErrRuleNotFound"} :
           e \notin E!SessionErrors
      BY DEF E!SessionErrors
  <2>2. \A error \in Chains(err) : error = <<>> \/
           \E e \in {"url.Error", "APIError 403", "APIError", "ErrRuleNotFound"} : error = <<e>>
      BY <1>3 DEF Chains
  <2>3. \A error \in Chains(err) : E!ExitStatus(error) = "1"
      BY <2>1, <2>2, StatusOfOne
  <2>4. Chains(err) # {}
      BY <1>3 DEF Chains
  <2> QED BY <1>3, <2>3, <2>4 DEF ErrorExits
<1> QED BY <1>1, <1>2, <1>3

\* Of the failed changes there is a first one in the order of the plan.
LEMMA FirstFailedIs ==
    ASSUME IInv, phase = "done", failed # {}
    PROVE  FirstFailed \in failed
<1>1. \A f \in failed : Rank(f.change) \in Nat
  <2> TAKE f \in failed
  <2>1. f.change \in plan
      BY DEF IInv, ResultAccounts, FailedChanges
  <2> QED BY <2>1, RankIs DEF IInv, PlanInv
<1> DEFINE ranks == {Rank(f.change) : f \in failed}
<1>2. \E n \in ranks : \A m \in ranks : n <= m
    BY <1>1, Least
<1>3. \E f \in failed : \A h \in failed : Rank(f.change) <= Rank(h.change)
    BY <1>2
<1> QED BY <1>3 DEF FirstFailed

LEMMA PushExitsAre ==
    ASSUME IInv, phase = "done", NEW failOnErrors \in BOOLEAN, NEW exit \in PushExits(failOnErrors)
    PROVE  /\ exit = "2" <=> returned = "401" \/ \E f \in failed : f.err = "401"
           /\ exit = "0" /\ failOnErrors /\ ~options.dryRun => applied = plan
<1>1. /\ returned \in {"nil", "error", "401"}
      /\ (\E f \in failed : f.err = "401") => returned = "401"
      /\ returned = "nil" => applied \cup FailedChanges = plan
      /\ \A f \in failed : f.err # "nil"
    BY DEF IInv, TypeOK, ResultAccounts
<1>2. CASE returned = "401"
  <2>1. exit = "2"
      BY <1>2, ErrorExitsAre DEF PushExits
  <2> QED BY <1>2, <2>1
<1>3. CASE returned = "error"
  <2>1. exit = "1"
      BY <1>3, ErrorExitsAre DEF PushExits
  <2> QED BY <1>1, <1>3, <2>1
<1>4. CASE returned = "nil" /\ failOnErrors /\ ~options.dryRun /\ failed # {}
  <2>1. FirstFailed.err \notin {"nil", "401"}
      BY <1>1, <1>4, FirstFailedIs
  <2>2. exit = "1"
      BY <1>4, <2>1, ErrorExitsAre DEF PushExits
  <2> QED BY <1>1, <1>4, <2>2
<1>5. CASE returned = "nil" /\ ~(failOnErrors /\ ~options.dryRun /\ failed # {})
  <2>1. exit = "0"
      BY <1>5 DEF PushExits
  <2>2. failed = {} => FailedChanges = {}
      BY DEF FailedChanges
  <2> QED BY <1>1, <1>5, <2>1, <2>2
<1> QED BY <1>1, <1>2, <1>3, <1>4, <1>5

LEMMA RuleOpExitsAre ==
    ASSUME IInv, step = "done", NEW exit \in RuleOpExits
    PROVE  /\ exit = "2" <=> \E u \in DOMAIN outcome : outcome[u] = "401"
           /\ exit = "0" => \A u \in DOMAIN outcome : outcome[u] \in {"changed", "unchanged"}
<1> DEFINE kept == {i \in DOMAIN request.uids : outcome[request.uids[i]] \in {"error", "401"}}
           failures == Those(request.uids, kept)
<1>1. /\ OutcomeInv /\ stopped \in {"nil", "401"} /\ request.uids \in Seq(Texts \ {NoUid})
      /\ outcome \in [Elements(request.uids) -> OutcomeKinds]
    BY DEF IInv, TypeOK, OutcomeKinds, GrafanaInv, RuleRequest
<1>2. CASE stopped = "401"
  <2>1. exit = "2"
      BY <1>2, ErrorExitsAre DEF RuleOpExits
  <2> QED BY <1>1, <1>2, <2>1 DEF OutcomeInv
<1>3. CASE stopped = "nil"
  <2>1. \A u \in DOMAIN outcome : outcome[u] \notin {"none", "401"}
      BY <1>1, <1>3 DEF OutcomeInv, Elements
  <2>2. failures \in Seq(Texts \ {NoUid})
        /\ \A k \in DOMAIN failures : \E i \in DOMAIN request.uids :
              i \in kept /\ failures[k] = request.uids[i]
    <3> HIDE DEF kept
    <3> QED BY <1>1, ThoseAre
  <2>3. \A i \in DOMAIN request.uids : i \in kept => failures # <<>>
    <3> TAKE i \in DOMAIN request.uids
    <3> HIDE DEF kept
    <3>1. i \in kept => \E k \in DOMAIN failures : failures[k] = request.uids[i]
        BY <1>1, ThoseHave
    <3> QED BY <3>1
  <2>4. RuleOpExits = IF failures # <<>> THEN ErrorExits(outcome[Head(failures)]) ELSE {"0"}
      BY <1>3 DEF RuleOpExits
  <2> HIDE DEF failures
  <2>5. CASE failures # <<>>
    <3>1. 1 \in DOMAIN failures /\ Head(failures) = failures[1]
        BY <2>2, <2>5
    <3>2. outcome[Head(failures)] \in {"error", "401"} /\ Head(failures) \in DOMAIN outcome
        BY <1>1, <2>2, <3>1 DEF Elements
    <3>3. outcome[Head(failures)] = "error"
        BY <2>1, <3>2
    <3>4. exit = "1"
        BY <2>4, <2>5, <3>3, ErrorExitsAre
    <3> QED BY <2>1, <3>4
  <2>6. CASE failures = <<>>
    <3>1. exit = "0"
        BY <2>4, <2>6
    <3>2. \A u \in DOMAIN outcome : outcome[u] \notin {"error", "401"}
        BY <1>1, <2>3, <2>6 DEF Elements
    <3>3. \A u \in DOMAIN outcome : outcome[u] \in {"changed", "unchanged"}
        BY <1>1, <2>1, <3>2 DEF OutcomeKinds
    <3> QED BY <3>1, <3>2, <3>3
  <2> QED BY <2>5, <2>6
<1> QED BY <1>1, <1>2, <1>3

-----------------------------------------------------------------------------
(* What a plan says of a rule group                                        *)

\* Two sequences of the same texts, none of them twice, that put no two of them in
\* different orders, are the same.
Agree(m, n, s, t) ==
    /\ \A i, j \in 1..m : s[i] = s[j] => i = j
    /\ \A i, j \in 1..n : t[i] = t[j] => i = j
    /\ \A i \in 1..m : \E j \in 1..n : t[j] = s[i]
    /\ \A j \in 1..n : \E i \in 1..m : s[i] = t[j]
    /\ \A i, j \in 1..m, k, l \in 1..n : i < j /\ s[i] = t[l] /\ s[j] = t[k] => ~ (k < l)

LEMMA SameOrder ==
    ASSUME NEW U, NEW m \in Nat, NEW n \in Nat, NEW s \in [1..m -> U], NEW t \in [1..n -> U],
           Agree(m, n, s, t)
    PROVE  s = t
<1>0. /\ \A i, j \in 1..m : s[i] = s[j] => i = j
      /\ \A i, j \in 1..n : t[i] = t[j] => i = j
      /\ \A i \in 1..m : \E j \in 1..n : t[j] = s[i]
      /\ \A j \in 1..n : \E i \in 1..m : s[i] = t[j]
      /\ \A i, j \in 1..m, k, l \in 1..n : i < j /\ s[i] = t[l] /\ s[j] = t[k] => ~ (k < l)
    BY DEF Agree
<1> DEFINE Same(k) == k \in 1..m /\ k \in 1..n /\ s[k] = t[k]
           Bad == {k \in Nat : (k \in 1..m \/ k \in 1..n) /\ ~Same(k)}
<1>1. ASSUME Bad # {} PROVE FALSE
  <2>1. PICK k \in Bad : \A j \in Bad : k <= j
      BY <1>1, Least
  <2>2. ASSUME NEW j \in Nat, j < k, j \in 1..m \/ j \in 1..n PROVE Same(j)
      BY <2>1, <2>2
  <2>3. k \in Nat /\ (k \in 1..m \/ k \in 1..n) /\ ~Same(k)
      BY <2>1
  <2>4. ASSUME k \in 1..m
        PROVE  k \in 1..n /\ \E p \in 1..n : t[p] = s[k] /\ k < p
    <3>1. PICK p \in 1..n : t[p] = s[k]
        BY <1>0, <2>4
    <3>2. CASE p < k
      <4>1. Same(p)
          BY <2>2, <3>2
      <4>2. p = k
          BY <1>0, <2>4, <3>1, <4>1
      <4> QED BY <3>2, <4>2
    <3>3. CASE p = k
      <4>1. k \in 1..n /\ t[k] = s[k]
          BY <3>1, <3>3
      <4> QED BY <2>3, <2>4, <4>1
    <3>4. CASE k < p
      <4>1. k \in 1..n
          BY <2>3, <3>4
      <4> QED BY <3>1, <3>4, <4>1
    <3> QED BY <2>3, <3>2, <3>3, <3>4
  <2>5. ASSUME k \in 1..n
        PROVE  k \in 1..m /\ \E q \in 1..m : s[q] = t[k] /\ k < q
    <3>1. PICK q \in 1..m : s[q] = t[k]
        BY <1>0, <2>5
    <3>2. CASE q < k
      <4>1. Same(q)
          BY <2>2, <3>2
      <4>2. q = k
          BY <1>0, <2>5, <3>1, <4>1
      <4> QED BY <3>2, <4>2
    <3>3. CASE q = k
      <4>1. k \in 1..m /\ s[k] = t[k]
          BY <3>1, <3>3
      <4> QED BY <2>3, <2>5, <4>1
    <3>4. CASE k < q
      <4>1. k \in 1..m
          BY <2>3, <3>4
      <4> QED BY <3>1, <3>4, <4>1
    <3> QED BY <2>3, <3>2, <3>3, <3>4
  <2>6. k \in 1..m /\ k \in 1..n
      BY <2>3, <2>4, <2>5
  <2>7. PICK p \in 1..n : t[p] = s[k] /\ k < p
      BY <2>4, <2>6
  <2>8. PICK q \in 1..m : s[q] = t[k] /\ k < q
      BY <2>5, <2>6
  <2> QED BY <1>0, <2>6, <2>7, <2>8
<1>2. \A k \in Nat : k \in 1..m \/ k \in 1..n => Same(k)
    BY <1>1
<1>3. m = n
  <2>1. m \in 1..m => m \in 1..n
      BY <1>2
  <2>2. n \in 1..n => n \in 1..m
      BY <1>2
  <2> QED BY <2>1, <2>2
<1>4. \A k \in 1..m : s[k] = t[k]
    BY <1>2
<1> QED BY <1>3, <1>4

\* What a rule of the bundle and one of Grafana have in common are their uids, none of
\* which either has twice, nor is one that Grafana will give.
Meets(ours, theirs) ==
    /\ ours \in Seq(BundleRule) /\ theirs \in Seq(GrafanaRule)
    /\ \A i, j \in DOMAIN theirs : theirs[i].uid = theirs[j].uid => i = j
    /\ \A i, j \in DOMAIN ours : Stored(ours[i], "omit").uid = Stored(ours[j], "omit").uid => i = j
    /\ \A i \in DOMAIN ours : ours[i].uid = NoUid =>
          \A j \in DOMAIN theirs : theirs[j].uid # ours[i].title

LEMMA MeetIs ==
    ASSUME NEW ours, NEW theirs, Meets(ours, theirs)
    PROVE  /\ DOMAIN ours = 1..Len(ours) /\ DOMAIN theirs = 1..Len(theirs)
           /\ Len(ours) \in Nat /\ Len(theirs) \in Nat
           /\ \A i \in DOMAIN ours : ours[i] \in BundleRule
           /\ \A i \in DOMAIN theirs : theirs[i] \in GrafanaRule /\ theirs[i].uid # NoUid
           /\ \A i \in DOMAIN ours : ours[i].uid \in Uids(theirs)
                                     <=> \E j \in DOMAIN theirs : theirs[j].uid = ours[i].uid
           /\ \A i \in DOMAIN theirs : theirs[i].uid \in Uids(ours)
                                       <=> \E j \in DOMAIN ours : ours[j].uid = theirs[i].uid
           /\ \A i \in DOMAIN ours, j \in DOMAIN ours : ours[i].uid # NoUid /\ ours[i].uid = ours[j].uid => i = j
<1>1. /\ DOMAIN ours = 1..Len(ours) /\ DOMAIN theirs = 1..Len(theirs)
      /\ Len(ours) \in Nat /\ Len(theirs) \in Nat
      /\ \A i \in DOMAIN ours : ours[i] \in BundleRule
      /\ \A i \in DOMAIN theirs : theirs[i] \in GrafanaRule
    BY DEF Meets
<1>2. \A r \in GrafanaRule : r.uid # NoUid
    BY DEF GrafanaRule
<1>3. \A i \in DOMAIN ours : ours[i].uid \in Uids(theirs)
                             <=> \E j \in DOMAIN theirs : theirs[j].uid = ours[i].uid
    BY <1>1, <1>2 DEF Uids, RuleSet
<1>4. \A i \in DOMAIN theirs : theirs[i].uid \in Uids(ours)
                               <=> \E j \in DOMAIN ours : ours[j].uid = theirs[i].uid
    BY <1>1, <1>2 DEF Uids, RuleSet
<1>5. \A i \in DOMAIN ours : ours[i].uid # NoUid => Stored(ours[i], "omit").uid = ours[i].uid
    BY <1>1, StoredIs
<1>6. \A i \in DOMAIN ours, j \in DOMAIN ours : ours[i].uid # NoUid /\ ours[i].uid = ours[j].uid => i = j
    BY <1>5 DEF Meets
<1> QED BY <1>1, <1>2, <1>3, <1>4, <1>6

\* The uids of the rules that both have.
SharedAt(rules_, other, m, at) ==
    /\ m \in Nat /\ at \in [1..m -> DOMAIN rules_]
    /\ \A j, k \in 1..m : j < k => at[j] < at[k]
    /\ \A k \in 1..m : rules_[at[k]].uid \in Uids(other)
    /\ \A i \in DOMAIN rules_ : rules_[i].uid \in Uids(other) => \E k \in 1..m : at[k] = i
    /\ SharedRuleUIDs(rules_, other) = [k \in 1..m |-> rules_[at[k]].uid]

LEMMA SharedAre ==
    ASSUME NEW R, NEW rules_ \in Seq(R), NEW other
    PROVE  \E m, at : SharedAt(rules_, other, m, at)
<1> DEFINE kept == {i \in DOMAIN rules_ : rules_[i].uid \in Uids(other)}
           shared == Those(rules_, kept)
<1>1. SharedRuleUIDs(rules_, other) = [i \in DOMAIN shared |-> shared[i].uid]
    BY DEF SharedRuleUIDs
<1>2. Takes(shared, Len(rules_), R, rules_, kept)
    BY ThoseTakes
<1> HIDE DEF shared
<1>3. PICK m \in Nat : \E at \in [1..m -> 1..Len(rules_)] :
        /\ \A k \in 1..m : at[k] \in kept
        /\ \A j, k \in 1..m : j < k => at[j] < at[k]
        /\ \A i \in 1..Len(rules_) : i \in kept => \E k \in 1..m : at[k] = i
        /\ shared \in Seq(R) /\ Len(shared) = m /\ \A k \in 1..m : shared[k] = rules_[at[k]]
    BY <1>2 DEF Takes
<1>4. PICK at \in [1..m -> 1..Len(rules_)] :
        /\ \A k \in 1..m : at[k] \in kept
        /\ \A j, k \in 1..m : j < k => at[j] < at[k]
        /\ \A i \in 1..Len(rules_) : i \in kept => \E k \in 1..m : at[k] = i
        /\ shared \in Seq(R) /\ Len(shared) = m /\ \A k \in 1..m : shared[k] = rules_[at[k]]
    BY <1>3
<1>5. DOMAIN shared = 1..m /\ DOMAIN rules_ = 1..Len(rules_)
    BY <1>4
<1>6. SharedRuleUIDs(rules_, other) = [k \in 1..m |-> rules_[at[k]].uid]
    BY <1>1, <1>4, <1>5
<1>7. \A k \in 1..m : rules_[at[k]].uid \in Uids(other)
    BY <1>4
<1>8. \A i \in DOMAIN rules_ : rules_[i].uid \in Uids(other) => \E k \in 1..m : at[k] = i
    BY <1>4, <1>5
<1>9. at \in [1..m -> DOMAIN rules_]
    BY <1>5
<1>10. SharedAt(rules_, other, m, at)
    BY <1>4, <1>6, <1>7, <1>8, <1>9 DEF SharedAt
<1> QED BY <1>10

\* Two rules are in one order before, and in the other after.
Inverted(before, after) ==
    \E i, j \in DOMAIN before, k, l \in DOMAIN after :
        i < j /\ k < l /\ before[i].uid = after[l].uid /\ before[j].uid = after[k].uid

LEMMA OrderIs ==
    ASSUME NEW ours, NEW theirs, Meets(ours, theirs)
    PROVE  SameRuleOrder(ours, theirs) <=> ~Inverted(theirs, ours)
<1>1. PICK m, at : SharedAt(ours, theirs, m, at)
    BY SharedAre DEF Meets
<1>2. PICK n, to : SharedAt(theirs, ours, n, to)
    BY SharedAre DEF Meets
<1> DEFINE s == [k \in 1..m |-> ours[at[k]].uid]
           t == [k \in 1..n |-> theirs[to[k]].uid]
<1>3. SameRuleOrder(ours, theirs) <=> s = t
    BY <1>1, <1>2 DEF SharedAt, SameRuleOrder
<1>4. /\ m \in Nat /\ at \in [1..m -> DOMAIN ours]
      /\ \A j, k \in 1..m : j < k => at[j] < at[k]
      /\ \A k \in 1..m : s[k] = ours[at[k]].uid
    BY <1>1 DEF SharedAt
<1>5. /\ n \in Nat /\ to \in [1..n -> DOMAIN theirs]
      /\ \A j, k \in 1..n : j < k => to[j] < to[k]
      /\ \A k \in 1..n : t[k] = theirs[to[k]].uid
    BY <1>2 DEF SharedAt
<1>6. /\ DOMAIN ours = 1..Len(ours) /\ DOMAIN theirs = 1..Len(theirs)
      /\ \A i \in DOMAIN theirs : theirs[i].uid # NoUid
      /\ \A i \in DOMAIN theirs, j \in DOMAIN theirs : theirs[i].uid = theirs[j].uid => i = j
      /\ \A i \in DOMAIN ours, j \in DOMAIN ours : ours[i].uid # NoUid /\ ours[i].uid = ours[j].uid => i = j
    BY MeetIs DEF Meets
<1>7. \A k \in 1..m : \E j \in DOMAIN theirs : theirs[j].uid = ours[at[k]].uid
  <2> TAKE k \in 1..m
  <2>1. at[k] \in DOMAIN ours /\ ours[at[k]].uid \in Uids(theirs)
      BY <1>1 DEF SharedAt
  <2> QED BY <2>1, MeetIs
<1>8. \A k \in 1..n : \E j \in DOMAIN ours : ours[j].uid = theirs[to[k]].uid
  <2> TAKE k \in 1..n
  <2>1. to[k] \in DOMAIN theirs /\ theirs[to[k]].uid \in Uids(ours)
      BY <1>2 DEF SharedAt
  <2> QED BY <2>1, MeetIs
<1>9. ASSUME NEW i \in DOMAIN ours, NEW j \in DOMAIN theirs, ours[i].uid = theirs[j].uid
      PROVE  (\E k \in 1..m : at[k] = i) /\ \E k \in 1..n : to[k] = j
  <2>1. ours[i].uid \in Uids(theirs) /\ theirs[j].uid \in Uids(ours)
      BY <1>9, MeetIs
  <2> QED BY <1>1, <1>2, <2>1 DEF SharedAt
<1> DEFINE U == {s[k] : k \in 1..m} \cup {t[k] : k \in 1..n}
<1>10. s \in [1..m -> U] /\ t \in [1..n -> U]
    OBVIOUS
<1> HIDE DEF s, t, U
<1>11. ASSUME NEW i \in 1..m PROVE s[i] # NoUid /\ s[i] = ours[at[i]].uid /\ at[i] \in DOMAIN ours
  <2>1. s[i] = ours[at[i]].uid /\ at[i] \in DOMAIN ours
      BY <1>4
  <2>2. PICK j \in DOMAIN theirs : theirs[j].uid = ours[at[i]].uid
      BY <1>7
  <2> QED BY <1>6, <2>1, <2>2
<1>12. \A i, j \in 1..m : s[i] = s[j] => i = j
  <2> SUFFICES ASSUME NEW i \in 1..m, NEW j \in 1..m, s[i] = s[j] PROVE i = j
      OBVIOUS
  <2>1. at[i] = at[j]
    <3>1. s[i] # NoUid /\ s[i] = ours[at[i]].uid /\ at[i] \in DOMAIN ours
        BY <1>11
    <3>2. s[j] = ours[at[j]].uid /\ at[j] \in DOMAIN ours
        BY <1>11
    <3> QED BY <1>6, <3>1, <3>2
  <2>2. at[i] \in Nat /\ at[j] \in Nat
      BY <1>4, <1>6
  <2> QED BY <1>4, <2>1, <2>2
<1>13. \A i, j \in 1..n : t[i] = t[j] => i = j
  <2> SUFFICES ASSUME NEW i \in 1..n, NEW j \in 1..n, t[i] = t[j] PROVE i = j
      OBVIOUS
  <2>1. to[i] = to[j]
      BY <1>5, <1>6
  <2>2. to[i] \in Nat /\ to[j] \in Nat
      BY <1>5, <1>6
  <2> QED BY <1>5, <2>1, <2>2
<1>14. ASSUME s = t, Inverted(theirs, ours) PROVE FALSE
  <2>1. PICK i \in DOMAIN theirs, j \in DOMAIN theirs, k \in DOMAIN ours, l \in DOMAIN ours :
           i < j /\ k < l /\ theirs[i].uid = ours[l].uid /\ theirs[j].uid = ours[k].uid
      BY <1>14 DEF Inverted
  <2>2. PICK a \in 1..m : at[a] = k
      BY <1>9, <2>1
  <2>3. PICK b \in 1..m : at[b] = l
      BY <1>9, <2>1
  <2>4. PICK c \in 1..n : to[c] = i
      BY <1>9, <2>1
  <2>5. PICK d \in 1..n : to[d] = j
      BY <1>9, <2>1
  <2>6. s[a] = t[d] /\ s[b] = t[c]
      BY <1>4, <1>5, <2>1, <2>2, <2>3, <2>4, <2>5
  <2>7. DOMAIN s = 1..m /\ DOMAIN t = 1..n
      BY <1>10
  <2>8. a = d /\ b = c
      BY <1>13, <1>14, <2>6, <2>7
  <2>9. k \in Nat /\ l \in Nat /\ i \in Nat /\ j \in Nat
      BY <1>6
  <2>10. a < b
      BY <1>4, <2>1, <2>2, <2>3, <2>9
  <2>11. c < d
      BY <1>5, <2>1, <2>4, <2>5, <2>9
  <2> QED BY <2>8, <2>10, <2>11
<1>15. ASSUME ~Inverted(theirs, ours) PROVE s = t
  <2>1. \A i \in 1..m : \E j \in 1..n : t[j] = s[i]
    <3> TAKE i \in 1..m
    <3>1. PICK j \in DOMAIN theirs : theirs[j].uid = ours[at[i]].uid
        BY <1>7
    <3>2. PICK k \in 1..n : to[k] = j
        BY <1>4, <1>9, <3>1
    <3> QED BY <1>4, <1>5, <3>1, <3>2
  <2>2. \A j \in 1..n : \E i \in 1..m : s[i] = t[j]
    <3> TAKE j \in 1..n
    <3>1. PICK i \in DOMAIN ours : ours[i].uid = theirs[to[j]].uid
        BY <1>8
    <3>2. PICK k \in 1..m : at[k] = i
        BY <1>5, <1>9, <3>1
    <3> QED BY <1>4, <1>5, <3>1, <3>2
  <2>3. \A i, j \in 1..m, k, l \in 1..n : i < j /\ s[i] = t[l] /\ s[j] = t[k] => ~ (k < l)
    <3> SUFFICES ASSUME NEW i \in 1..m, NEW j \in 1..m, NEW k \in 1..n, NEW l \in 1..n,
                        i < j, s[i] = t[l], s[j] = t[k], k < l
                 PROVE  FALSE
        OBVIOUS
    <3>1. /\ at[i] \in DOMAIN ours /\ at[j] \in DOMAIN ours /\ at[i] < at[j]
          /\ to[k] \in DOMAIN theirs /\ to[l] \in DOMAIN theirs /\ to[k] < to[l]
        BY <1>4, <1>5
    <3>2. theirs[to[k]].uid = ours[at[j]].uid /\ theirs[to[l]].uid = ours[at[i]].uid
        BY <1>4, <1>5
    <3>3. Inverted(theirs, ours)
        BY <3>1, <3>2 DEF Inverted
    <3> QED BY <1>15, <3>3
  <2>4. m \in Nat /\ n \in Nat
      BY <1>4, <1>5
  <2>5. Agree(m, n, s, t)
      BY <1>12, <1>13, <2>1, <2>2, <2>3 DEF Agree
  <2> QED BY <1>10, <2>4, <2>5, SameOrder
<1> QED BY <1>3, <1>14, <1>15

\* The rules that a PUT of ours leaves.
Leaves(ours, header, left) ==
    /\ left \in Seq(GrafanaRule) /\ DOMAIN left = DOMAIN ours
    /\ \A i \in DOMAIN ours : left[i] = Stored(ours[i], header)

LEMMA LeftIs ==
    ASSUME NEW ours, NEW theirs, Meets(ours, theirs), NEW header, NEW left, Leaves(ours, header, left)
    PROVE  /\ \A i \in DOMAIN ours :
                 /\ left[i].title = ours[i].title /\ left[i].uid # NoUid
                 /\ \A j \in DOMAIN theirs : left[i].uid = theirs[j].uid <=> ours[i].uid = theirs[j].uid
                 /\ left[i].uid \in Uids(theirs) <=> ours[i].uid \in Uids(theirs)
                 /\ ours[i].uid # NoUid => Content(left[i]) = Content(ours[i])
                 /\ Content(Stored(left[i], "omit")) = Content(left[i])
           /\ \A j \in DOMAIN theirs :
                 /\ theirs[j].uid \in Uids(left) <=> theirs[j].uid \in Uids(ours)
                 /\ Content(Stored(theirs[j], "omit")) = Content(theirs[j])
           /\ Inverted(theirs, left) <=> Inverted(theirs, ours)
<1>0. /\ \A i \in DOMAIN ours : ours[i] \in BundleRule
      /\ \A i \in DOMAIN theirs : theirs[i] \in GrafanaRule /\ theirs[i].uid # NoUid
      /\ \A i \in DOMAIN ours : left[i] \in GrafanaRule
    BY MeetIs DEF Leaves
<1>1. ASSUME NEW r \in GrafanaRule
      PROVE  r.uid # NoUid /\ Content(Stored(r, "omit")) = Content(r)
  <2>1. r.uid # NoUid
      BY DEF GrafanaRule
  <2> QED BY <2>1 DEF Content, Stored
<1>2. ASSUME NEW i \in DOMAIN ours
      PROVE  /\ left[i].title = ours[i].title /\ left[i].uid # NoUid
             /\ left[i].uid = IF ours[i].uid = NoUid THEN ours[i].title ELSE ours[i].uid
             /\ ours[i].uid # NoUid => Content(left[i]) = Content(ours[i])
  <2>1. /\ left[i].uid = IF ours[i].uid = NoUid THEN ours[i].title ELSE ours[i].uid
        /\ left[i].title = ours[i].title /\ left[i].val = ours[i].val
        /\ left[i].paused = ours[i].paused
      BY <1>0, StoredIs DEF Leaves
  <2> QED BY <1>0, <1>1, <2>1 DEF Content
<1>3. ASSUME NEW i \in DOMAIN ours, NEW j \in DOMAIN theirs
      PROVE  left[i].uid = theirs[j].uid <=> ours[i].uid = theirs[j].uid
  <2>1. CASE ours[i].uid = NoUid
      BY <1>0, <1>2, <2>1 DEF Meets
  <2>2. CASE ours[i].uid # NoUid
      BY <1>2, <2>2
  <2> QED BY <2>1, <2>2
<1>4. ASSUME NEW i \in DOMAIN ours
      PROVE  left[i].uid \in Uids(theirs) <=> ours[i].uid \in Uids(theirs)
  <2>1. left[i].uid \in Uids(theirs) <=> \E j \in DOMAIN theirs : theirs[j].uid = left[i].uid
      BY <1>2 DEF Uids, RuleSet
  <2>2. ours[i].uid \in Uids(theirs) <=> \E j \in DOMAIN theirs : theirs[j].uid = ours[i].uid
      BY MeetIs
  <2> QED BY <1>3, <2>1, <2>2
<1>5. ASSUME NEW j \in DOMAIN theirs
      PROVE  theirs[j].uid \in Uids(left) <=> theirs[j].uid \in Uids(ours)
  <2>1. theirs[j].uid \in Uids(left) <=> \E i \in DOMAIN ours : left[i].uid = theirs[j].uid
      BY <1>0 DEF Uids, RuleSet, Leaves
  <2>2. theirs[j].uid \in Uids(ours) <=> \E i \in DOMAIN ours : ours[i].uid = theirs[j].uid
      BY MeetIs
  <2> QED BY <1>3, <2>1, <2>2
<1>6. Inverted(theirs, left) <=> Inverted(theirs, ours)
    BY <1>3 DEF Inverted, Leaves
<1> QED BY <1>0, <1>1, <1>2, <1>3, <1>4, <1>5, <1>6

\* The lines of a plan without what they are about.
Lines(detail) == {<<l[1], l[2]>> : l \in detail}

AddedLines(ours, theirs) ==
    {<<"+", r.title, r.uid>> : r \in {r \in RuleSet(ours) : r.uid \notin Uids(theirs)}}
ReplacedLines(ours, theirs) ==
    {<<"!", r.title, r.uid>> : r \in UNION {ReplacedRules(rule, ours, theirs) : rule \in RuleSet(ours)}}
ChangedLines(ours, theirs) ==
    {<<"~", r.title, r.uid>> :
        r \in {r \in RuleSet(ours) :
                  r.uid \in Uids(theirs) /\ Content(r) # Content(RuleWith(theirs, r.uid))}}
RemovedLines(ours, theirs) ==
    {<<"-", r.title, r.uid>> : r \in {r \in RuleSet(theirs) : r.uid \notin Uids(ours)}}

LEMMA DetailIs ==
    ASSUME NEW ours, NEW theirs
    PROVE  RuleDetails(ours, theirs) =
              AddedLines(ours, theirs) \cup ReplacedLines(ours, theirs)
              \cup ChangedLines(ours, theirs) \cup RemovedLines(ours, theirs)
BY DEF RuleDetails, AddedLines, ReplacedLines, ChangedLines, RemovedLines

\* The rule that has a uid.
LEMMA RuleWithIs ==
    ASSUME NEW ours, NEW theirs, Meets(ours, theirs), NEW j \in DOMAIN theirs, NEW uid,
           uid = theirs[j].uid
    PROVE  RuleWith(theirs, uid) = theirs[j]
<1>1. theirs[j] \in RuleSet(theirs)
    BY DEF RuleSet
<1>2. \A r \in RuleSet(theirs) : r.uid = uid => r = theirs[j]
    BY DEF Meets, RuleSet
<1> QED BY <1>1, <1>2 DEF RuleWith

LEMMA AddedForetold ==
    ASSUME NEW ours, NEW theirs, Meets(ours, theirs), NEW header, NEW left, Leaves(ours, header, left)
    PROVE  {<<"+", r.title>> : r \in {r \in RuleSet(left) : r.uid \notin Uids(theirs)}}
              = Lines(AddedLines(ours, theirs))
<1> DEFINE before == {<<"+", r.title>> : r \in {r \in RuleSet(left) : r.uid \notin Uids(theirs)}}
<1>0. DOMAIN left = DOMAIN ours
    BY DEF Leaves
<1>1. \A i \in DOMAIN ours : left[i].title = ours[i].title
                             /\ (left[i].uid \in Uids(theirs) <=> ours[i].uid \in Uids(theirs))
    BY LeftIs
<1>2. ASSUME NEW x \in before PROVE x \in Lines(AddedLines(ours, theirs))
  <2>1. PICK i \in DOMAIN ours : x = <<"+", left[i].title>> /\ left[i].uid \notin Uids(theirs)
      BY <1>0, <1>2 DEF RuleSet
  <2> DEFINE line == <<"+", ours[i].title, ours[i].uid>>
  <2>2. line \in AddedLines(ours, theirs)
      BY <1>1, <2>1 DEF AddedLines, RuleSet
  <2>3. x = <<line[1], line[2]>>
      BY <1>1, <2>1
  <2> HIDE DEF line
  <2> QED BY <2>2, <2>3 DEF Lines
<1>3. ASSUME NEW x \in Lines(AddedLines(ours, theirs)) PROVE x \in before
  <2>1. PICK l \in AddedLines(ours, theirs) : x = <<l[1], l[2]>>
      BY <1>3 DEF Lines
  <2>2. PICK i \in DOMAIN ours : l = <<"+", ours[i].title, ours[i].uid>> /\ ours[i].uid \notin Uids(theirs)
      BY <2>1 DEF AddedLines, RuleSet
  <2>3. x = <<"+", left[i].title>> /\ left[i].uid \notin Uids(theirs) /\ left[i] \in RuleSet(left)
      BY <1>0, <1>1, <2>1, <2>2 DEF RuleSet
  <2> QED BY <2>3
<1> QED BY <1>2, <1>3

LEMMA RemovedForetold ==
    ASSUME NEW ours, NEW theirs, Meets(ours, theirs), NEW header, NEW left, Leaves(ours, header, left)
    PROVE  {<<"-", r.title>> : r \in {r \in RuleSet(theirs) : r.uid \notin Uids(left)}}
              = Lines(RemovedLines(ours, theirs))
<1> DEFINE before == {<<"-", r.title>> : r \in {r \in RuleSet(theirs) : r.uid \notin Uids(left)}}
<1>1. \A r \in RuleSet(theirs) : r.uid \in Uids(left) <=> r.uid \in Uids(ours)
    BY LeftIs DEF RuleSet
<1>2. ASSUME NEW x \in before PROVE x \in Lines(RemovedLines(ours, theirs))
  <2>1. PICK r \in RuleSet(theirs) : x = <<"-", r.title>> /\ r.uid \notin Uids(left)
      BY <1>2
  <2> DEFINE line == <<"-", r.title, r.uid>>
  <2>2. line \in RemovedLines(ours, theirs)
      BY <1>1, <2>1 DEF RemovedLines
  <2>3. x = <<line[1], line[2]>>
      BY <2>1
  <2> HIDE DEF line
  <2> QED BY <2>2, <2>3 DEF Lines
<1>3. ASSUME NEW x \in Lines(RemovedLines(ours, theirs)) PROVE x \in before
  <2>1. PICK l \in RemovedLines(ours, theirs) : x = <<l[1], l[2]>>
      BY <1>3 DEF Lines
  <2>2. PICK r \in RuleSet(theirs) : l = <<"-", r.title, r.uid>> /\ r.uid \notin Uids(ours)
      BY <2>1 DEF RemovedLines
  <2>3. x = <<"-", r.title>> /\ r.uid \notin Uids(left)
      BY <1>1, <2>1, <2>2
  <2> QED BY <2>3
<1> QED BY <1>2, <1>3

LEMMA ChangedForetold ==
    ASSUME NEW ours, NEW theirs, Meets(ours, theirs), NEW header, NEW left, Leaves(ours, header, left)
    PROVE  {<<"~", r.title>> :
               r \in {r \in RuleSet(left) :
                         \E q \in RuleSet(theirs) : q.uid = r.uid /\ Content(q) # Content(r)}}
              = Lines(ChangedLines(ours, theirs))
<1> DEFINE before == {<<"~", r.title>> :
               r \in {r \in RuleSet(left) :
                         \E q \in RuleSet(theirs) : q.uid = r.uid /\ Content(q) # Content(r)}}
<1>0. DOMAIN left = DOMAIN ours
    BY DEF Leaves
<1>1. ASSUME NEW i \in DOMAIN ours
      PROVE  /\ left[i].title = ours[i].title
             /\ \A j \in DOMAIN theirs : left[i].uid = theirs[j].uid <=> ours[i].uid = theirs[j].uid
             /\ ours[i].uid # NoUid => Content(left[i]) = Content(ours[i])
    BY LeftIs
<1>2. /\ \A i \in DOMAIN ours : ours[i].uid \in Uids(theirs)
                                <=> \E j \in DOMAIN theirs : theirs[j].uid = ours[i].uid
      /\ \A i \in DOMAIN theirs : theirs[i].uid # NoUid
    BY MeetIs
<1>3. ASSUME NEW x \in before PROVE x \in Lines(ChangedLines(ours, theirs))
  <2>1. PICK i \in DOMAIN ours : x = <<"~", left[i].title>>
           /\ \E q \in RuleSet(theirs) : q.uid = left[i].uid /\ Content(q) # Content(left[i])
      BY <1>0, <1>3 DEF RuleSet
  <2>2. PICK j \in DOMAIN theirs : theirs[j].uid = left[i].uid /\ Content(theirs[j]) # Content(left[i])
      BY <2>1 DEF RuleSet
  <2>3. theirs[j].uid = ours[i].uid /\ ours[i].uid # NoUid /\ ours[i].uid \in Uids(theirs)
      BY <1>1, <1>2, <2>2
  <2>4. RuleWith(theirs, ours[i].uid) = theirs[j]
      BY <2>3, RuleWithIs
  <2>5. Content(ours[i]) # Content(RuleWith(theirs, ours[i].uid))
      BY <1>1, <2>2, <2>3, <2>4
  <2> DEFINE line == <<"~", ours[i].title, ours[i].uid>>
  <2>6. line \in ChangedLines(ours, theirs)
      BY <2>3, <2>5 DEF ChangedLines, RuleSet
  <2>7. x = <<line[1], line[2]>>
      BY <1>1, <2>1
  <2> HIDE DEF line
  <2> QED BY <2>6, <2>7 DEF Lines
<1>4. ASSUME NEW x \in Lines(ChangedLines(ours, theirs)) PROVE x \in before
  <2>1. PICK l \in ChangedLines(ours, theirs) : x = <<l[1], l[2]>>
      BY <1>4 DEF Lines
  <2>2. PICK i \in DOMAIN ours : /\ l = <<"~", ours[i].title, ours[i].uid>> /\ ours[i].uid \in Uids(theirs)
                                 /\ Content(ours[i]) # Content(RuleWith(theirs, ours[i].uid))
      BY <2>1 DEF ChangedLines, RuleSet
  <2>3. PICK j \in DOMAIN theirs : theirs[j].uid = ours[i].uid
      BY <1>2, <2>2
  <2>4. RuleWith(theirs, ours[i].uid) = theirs[j] /\ ours[i].uid # NoUid
      BY <1>2, <2>3, RuleWithIs
  <2>5. theirs[j].uid = left[i].uid /\ Content(theirs[j]) # Content(left[i])
      BY <1>1, <2>2, <2>3, <2>4
  <2>6. x = <<"~", left[i].title>> /\ left[i] \in RuleSet(left) /\ theirs[j] \in RuleSet(theirs)
      BY <1>0, <1>1, <2>1, <2>2 DEF RuleSet
  <2> QED BY <2>5, <2>6
<1> QED BY <1>3, <1>4

LEMMA OneLine ==
    /\ Lines({}) = {}
    /\ \A a, b, c : Lines({<<a, b, c>>}) = {<<a, b>>}
<1>1. ASSUME NEW a, NEW b, NEW c PROVE Lines({<<a, b, c>>}) = {<<a, b>>}
  <2>1. PICK l : l = <<a, b, c>>
      OBVIOUS
  <2>2. <<l[1], l[2]>> = <<a, b>>
      BY <2>1
  <2>3. Lines({l}) = {<<l[1], l[2]>>}
      BY DEF Lines
  <2> QED BY <2>1, <2>2, <2>3
<1> QED BY <1>1 DEF Lines

\* The plan of a group says what its PUT does to the group.
LEMMA GroupForetold ==
    ASSUME NEW g, NEW held, Meets(g.rules, held.rules), NEW header, NEW put,
           Leaves(g.rules, header, put.rules), put.interval = g.interval
    PROVE  Effect(held, put) = Lines({l \in GroupDetail(g, held) : l[1] # "!"})
<1> DEFINE added == AddedLines(g.rules, held.rules)
           replaced == ReplacedLines(g.rules, held.rules)
           changed == ChangedLines(g.rules, held.rules)
           removed == RemovedLines(g.rules, held.rules)
           interval == IF g.interval # held.interval THEN {<<"~", "interval", "">>} ELSE {}
           order == IF SameRuleOrder(g.rules, held.rules) THEN {} ELSE {<<"~", "rule order", "">>}
<1>1. /\ \A l \in added : l[1] # "!"
      /\ \A l \in replaced : l[1] = "!"
      /\ \A l \in changed : l[1] # "!"
      /\ \A l \in removed : l[1] # "!"
      /\ \A l \in interval : l[1] # "!"
      /\ \A l \in order : l[1] # "!"
  <2>1. \A l \in added : l[1] # "!"
      BY DEF AddedLines
  <2>2. \A l \in replaced : l[1] = "!"
      BY DEF ReplacedLines
  <2>3. \A l \in changed : l[1] # "!"
      BY DEF ChangedLines
  <2>4. \A l \in removed : l[1] # "!"
      BY DEF RemovedLines
  <2>5. ASSUME NEW l \in interval PROVE l[1] # "!"
    <3>1. l = <<"~", "interval", "">>
        BY <2>5
    <3> QED BY <3>1
  <2>6. ASSUME NEW l \in order PROVE l[1] # "!"
    <3>1. l = <<"~", "rule order", "">>
        BY <2>6
    <3> QED BY <3>1
  <2> HIDE DEF added, replaced, changed, removed, interval, order
  <2> QED BY <2>1, <2>2, <2>3, <2>4, <2>5, <2>6
<1>2. GroupDetail(g, held) = added \cup replaced \cup changed \cup removed \cup interval \cup order
    BY DetailIs DEF GroupDetail
<1>3. Lines(interval) = IF held.interval = put.interval THEN {} ELSE {<<"~", "interval">>}
    BY OneLine
<1>4. Lines(order) = IF Inverted(held.rules, put.rules) THEN {<<"~", "rule order">>} ELSE {}
  <2>1. Inverted(held.rules, put.rules) <=> Inverted(held.rules, g.rules)
      BY LeftIs
  <2>2. SameRuleOrder(g.rules, held.rules) <=> ~Inverted(held.rules, g.rules)
      BY OrderIs
  <2> QED BY <2>1, <2>2, OneLine
<1>5. Effect(held, put) = Lines(added) \cup Lines(removed) \cup Lines(changed)
                          \cup Lines(interval) \cup Lines(order)
  <2>1. Inverted(held.rules, put.rules) <=>
           \E i, j \in DOMAIN held.rules, k, l \in DOMAIN put.rules :
                /\ i < j /\ k < l
                /\ held.rules[i].uid = put.rules[l].uid
                /\ held.rules[j].uid = put.rules[k].uid
      BY DEF Inverted
  <2> HIDE DEF added, changed, removed, interval, order
  <2>2. Lines(added) = {<<"+", r.title>> : r \in {r \in RuleSet(put.rules) : r.uid \notin Uids(held.rules)}}
      BY AddedForetold DEF added
  <2>3. Lines(removed) = {<<"-", r.title>> : r \in {r \in RuleSet(held.rules) : r.uid \notin Uids(put.rules)}}
      BY RemovedForetold DEF removed
  <2>4. Lines(changed) = {<<"~", r.title>> :
               r \in {r \in RuleSet(put.rules) :
                         \E q \in RuleSet(held.rules) : q.uid = r.uid /\ Content(q) # Content(r)}}
      BY ChangedForetold DEF changed
  <2> QED BY <1>3, <1>4, <2>1, <2>2, <2>3, <2>4 DEF Effect
<1> HIDE DEF added, replaced, changed, removed, interval, order
<1>6. {l \in GroupDetail(g, held) : l[1] # "!"} = added \cup changed \cup removed \cup interval \cup order
    BY <1>1, <1>2
<1>7. Lines(added \cup changed \cup removed \cup interval \cup order)
         = Lines(added) \cup Lines(removed) \cup Lines(changed) \cup Lines(interval) \cup Lines(order)
    BY DEF Lines
<1> QED BY <1>5, <1>6, <1>7

\* A plan has nothing to say of a group exactly if its PUT sends what is there.
LEMMA SentIs ==
    ASSUME NEW ours, NEW theirs, Meets(ours, theirs), NEW header, NEW left, Leaves(ours, header, left)
    PROVE  Sent(left) = Sent(theirs) <=>
              /\ DOMAIN ours = DOMAIN theirs
              /\ \A i \in DOMAIN ours : i \in DOMAIN theirs => Content(left[i]) = Content(theirs[i])
<1>1. Sent(left) = [i \in DOMAIN left |-> Content(Stored(left[i], "omit"))]
      /\ Sent(theirs) = [i \in DOMAIN theirs |-> Content(Stored(theirs[i], "omit"))]
    BY DEF Sent
<1>2. /\ \A i \in DOMAIN ours : Content(Stored(left[i], "omit")) = Content(left[i])
      /\ \A i \in DOMAIN theirs : Content(Stored(theirs[i], "omit")) = Content(theirs[i])
    BY LeftIs
<1>3. DOMAIN left = DOMAIN ours
    BY DEF Leaves
<1> DEFINE a == Sent(left)
           b == Sent(theirs)
<1>4. /\ a = [i \in DOMAIN a |-> a[i]] /\ b = [i \in DOMAIN b |-> b[i]]
      /\ DOMAIN a = DOMAIN ours /\ DOMAIN b = DOMAIN theirs
      /\ \A i \in DOMAIN ours : a[i] = Content(left[i])
      /\ \A i \in DOMAIN theirs : b[i] = Content(theirs[i])
    BY <1>1, <1>2, <1>3
<1> HIDE DEF a, b
<1>5. a = b <=> /\ DOMAIN ours = DOMAIN theirs
                /\ \A i \in DOMAIN ours : i \in DOMAIN theirs => Content(left[i]) = Content(theirs[i])
    BY <1>4
<1> QED BY <1>5 DEF a, b

LEMMA NothingToSay ==
    ASSUME NEW ours, NEW theirs, Meets(ours, theirs), NEW header, NEW left, Leaves(ours, header, left)
    PROVE  RuleDetails(ours, theirs) = {} /\ SameRuleOrder(ours, theirs)
              <=> Sent(left) = Sent(theirs)
<1>0. /\ DOMAIN ours = 1..Len(ours) /\ DOMAIN theirs = 1..Len(theirs)
      /\ Len(ours) \in Nat /\ Len(theirs) \in Nat
      /\ \A i \in DOMAIN theirs : theirs[i].uid # NoUid
      /\ \A i \in DOMAIN ours : ours[i].uid \in Uids(theirs)
                                <=> \E j \in DOMAIN theirs : theirs[j].uid = ours[i].uid
      /\ \A i \in DOMAIN theirs : theirs[i].uid \in Uids(ours)
                                  <=> \E j \in DOMAIN ours : ours[j].uid = theirs[i].uid
      /\ \A i \in DOMAIN ours, j \in DOMAIN ours : ours[i].uid # NoUid /\ ours[i].uid = ours[j].uid => i = j
    BY MeetIs
<1>1. ASSUME NEW i \in DOMAIN ours
      PROVE  /\ ours[i].uid # NoUid => Content(left[i]) = Content(ours[i])
             /\ \A j \in DOMAIN theirs : left[i].uid = theirs[j].uid <=> ours[i].uid = theirs[j].uid
    BY LeftIs
<1>2. ASSUME RuleDetails(ours, theirs) = {}, SameRuleOrder(ours, theirs)
      PROVE  Sent(left) = Sent(theirs)
  <2>1. AddedLines(ours, theirs) = {} /\ ChangedLines(ours, theirs) = {} /\ RemovedLines(ours, theirs) = {}
      BY <1>2, DetailIs
  <2>2. ASSUME NEW i \in DOMAIN ours PROVE ours[i].uid \in Uids(theirs)
    <3>1. ours[i].uid \notin Uids(theirs) =>
             <<"+", ours[i].title, ours[i].uid>> \in AddedLines(ours, theirs)
        BY DEF AddedLines, RuleSet
    <3> QED BY <2>1, <3>1
  <2>3. ASSUME NEW i \in DOMAIN theirs PROVE theirs[i].uid \in Uids(ours)
    <3>1. theirs[i].uid \notin Uids(ours) =>
             <<"-", theirs[i].title, theirs[i].uid>> \in RemovedLines(ours, theirs)
        BY DEF RemovedLines, RuleSet
    <3> QED BY <2>1, <3>1
  <2>4. SharedRuleUIDs(ours, theirs) = [i \in DOMAIN ours |-> ours[i].uid]
    <3> DEFINE kept == {i \in DOMAIN ours : ours[i].uid \in Uids(theirs)}
    <3>1. Those(ours, kept) = ours
        BY <2>2, ThoseAll DEF Meets
    <3>2. SharedRuleUIDs(ours, theirs) = [i \in DOMAIN Those(ours, kept) |-> Those(ours, kept)[i].uid]
        BY DEF SharedRuleUIDs
    <3> HIDE DEF kept
    <3> QED BY <3>1, <3>2
  <2>5. SharedRuleUIDs(theirs, ours) = [i \in DOMAIN theirs |-> theirs[i].uid]
    <3> DEFINE kept == {i \in DOMAIN theirs : theirs[i].uid \in Uids(ours)}
    <3>1. Those(theirs, kept) = theirs
        BY <2>3, ThoseAll DEF Meets
    <3>2. SharedRuleUIDs(theirs, ours) = [i \in DOMAIN Those(theirs, kept) |-> Those(theirs, kept)[i].uid]
        BY DEF SharedRuleUIDs
    <3> HIDE DEF kept
    <3> QED BY <3>1, <3>2
  <2>6. DOMAIN ours = DOMAIN theirs /\ \A i \in DOMAIN ours : ours[i].uid = theirs[i].uid
    <3> DEFINE s == [i \in DOMAIN ours |-> ours[i].uid]
               t == [i \in DOMAIN theirs |-> theirs[i].uid]
    <3>1. s = t
        BY <1>2, <2>4, <2>5 DEF SameRuleOrder
    <3>2. DOMAIN s = DOMAIN ours /\ DOMAIN t = DOMAIN theirs
          /\ (\A i \in DOMAIN ours : s[i] = ours[i].uid) /\ \A i \in DOMAIN theirs : t[i] = theirs[i].uid
        OBVIOUS
    <3> HIDE DEF s, t
    <3> QED BY <3>1, <3>2
  <2>7. ASSUME NEW i \in DOMAIN ours PROVE Content(left[i]) = Content(theirs[i])
    <3>1. i \in DOMAIN theirs /\ ours[i].uid = theirs[i].uid /\ ours[i].uid # NoUid
        BY <1>0, <2>6
    <3>2. RuleWith(theirs, ours[i].uid) = theirs[i]
        BY <3>1, RuleWithIs
    <3>3. Content(ours[i]) # Content(RuleWith(theirs, ours[i].uid)) =>
             <<"~", ours[i].title, ours[i].uid>> \in ChangedLines(ours, theirs)
        BY <2>2 DEF ChangedLines, RuleSet
    <3> QED BY <1>1, <2>1, <3>1, <3>2, <3>3
  <2> QED BY <2>6, <2>7, SentIs
<1>3. ASSUME Sent(left) = Sent(theirs)
      PROVE  RuleDetails(ours, theirs) = {} /\ SameRuleOrder(ours, theirs)
  <2>1. DOMAIN ours = DOMAIN theirs /\ \A i \in DOMAIN ours : Content(left[i]) = Content(theirs[i])
      BY <1>3, SentIs
  <2>2. ASSUME NEW i \in DOMAIN ours
        PROVE  ours[i].uid = theirs[i].uid /\ ours[i].uid # NoUid /\ Content(ours[i]) = Content(theirs[i])
    <3>1. left[i].uid = theirs[i].uid
        BY <2>1 DEF Content
    <3>2. ours[i].uid = theirs[i].uid /\ ours[i].uid # NoUid
        BY <1>0, <1>1, <2>1, <3>1
    <3> QED BY <1>1, <2>1, <3>2
  <2>3. AddedLines(ours, theirs) = {}
    <3>1. \A r \in RuleSet(ours) : r.uid \in Uids(theirs)
        BY <1>0, <2>1, <2>2 DEF RuleSet
    <3> QED BY <3>1 DEF AddedLines
  <2>4. RemovedLines(ours, theirs) = {}
    <3>1. \A r \in RuleSet(theirs) : r.uid \in Uids(ours)
        BY <1>0, <2>1, <2>2 DEF RuleSet
    <3> QED BY <3>1 DEF RemovedLines
  <2>5. ChangedLines(ours, theirs) = {}
    <3>1. ASSUME NEW i \in DOMAIN ours PROVE Content(ours[i]) = Content(RuleWith(theirs, ours[i].uid))
      <4>1. RuleWith(theirs, ours[i].uid) = theirs[i]
          BY <2>1, <2>2, RuleWithIs
      <4> QED BY <2>2, <4>1
    <3>2. \A r \in RuleSet(ours) : Content(r) = Content(RuleWith(theirs, r.uid))
        BY <3>1 DEF RuleSet
    <3> QED BY <3>2 DEF ChangedLines
  <2>6. ReplacedLines(ours, theirs) = {}
    <3>1. \A rule \in RuleSet(ours) : rule.uid # NoUid
        BY <2>2 DEF RuleSet
    <3>2. \A rule \in RuleSet(ours) : ReplacedRules(rule, ours, theirs) = {}
        BY <3>1 DEF ReplacedRules
    <3> QED BY <3>2 DEF ReplacedLines
  <2>7. ~Inverted(theirs, ours)
    <3> SUFFICES ASSUME NEW i \in DOMAIN theirs, NEW j \in DOMAIN theirs,
                        NEW k \in DOMAIN ours, NEW l \in DOMAIN ours,
                        i < j, k < l, theirs[i].uid = ours[l].uid, theirs[j].uid = ours[k].uid
                 PROVE  FALSE
        BY DEF Inverted
    <3>1. ours[i].uid = ours[l].uid /\ ours[j].uid = ours[k].uid /\ ours[i].uid # NoUid /\ ours[j].uid # NoUid
        BY <2>1, <2>2
    <3>2. i = l /\ j = k
        BY <1>0, <2>1, <3>1
    <3>3. i \in Nat /\ j \in Nat
        BY <1>0
    <3> QED BY <3>2, <3>3
  <2> QED BY <2>3, <2>4, <2>5, <2>6, <2>7, DetailIs, OrderIs
<1> QED BY <1>2, <1>3

SendsSame(put, held) == [put EXCEPT !.rules = Sent(@)] = [held EXCEPT !.rules = Sent(@)]

LEMMA NothingForGroup ==
    ASSUME NEW g, NEW held \in GrafanaGroup, Meets(g.rules, held.rules), NEW header,
           NEW put \in GrafanaGroup, Leaves(g.rules, header, put.rules), put.interval = g.interval
    PROVE  GroupDetail(g, held) = {} <=> SendsSame(put, held)
<1>1. GroupDetail(g, held) = {} <=>
         /\ RuleDetails(g.rules, held.rules) = {} /\ SameRuleOrder(g.rules, held.rules)
         /\ g.interval = held.interval
  <2> DEFINE interval == IF g.interval # held.interval THEN {<<"~", "interval", "">>} ELSE {}
             order == IF SameRuleOrder(g.rules, held.rules) THEN {} ELSE {<<"~", "rule order", "">>}
  <2>1. GroupDetail(g, held) = RuleDetails(g.rules, held.rules) \cup interval \cup order
      BY DEF GroupDetail
  <2>2. interval = {} <=> g.interval = held.interval
      OBVIOUS
  <2>3. order = {} <=> SameRuleOrder(g.rules, held.rules)
      OBVIOUS
  <2> HIDE DEF interval, order
  <2> QED BY <2>1, <2>2, <2>3
<1>2. RuleDetails(g.rules, held.rules) = {} /\ SameRuleOrder(g.rules, held.rules)
         <=> Sent(put.rules) = Sent(held.rules)
    BY NothingToSay
<1>3. \A group \in GrafanaGroup : [group EXCEPT !.rules = Sent(@)] =
                                     [interval |-> group.interval, rules |-> Sent(group.rules)]
    BY DEF GrafanaGroup
<1>4. [put EXCEPT !.rules = Sent(@)] = [held EXCEPT !.rules = Sent(@)] <=>
         put.interval = held.interval /\ Sent(put.rules) = Sent(held.rules)
    BY <1>3
<1> QED BY <1>1, <1>2, <1>4 DEF SendsSame

\* Until the first write of a rule group: Grafana has not given the uids that it will
\* give, and what was fetched is what it holds, unless others have written.
Unwritten == phase \notin {"groups", "done"}
OldIn(bundle, group) == \A i \in DOMAIN group.rules : IsOld(bundle, group.rules[i].uid)

ForeseenInv ==
    /\ Unwritten =>
          /\ \A g \in DOMAIN groups : OldIn(local, groups[g])
          /\ step = "put" => OldIn(local, body)
    /\ Unwritten /\ ~disturbed =>
          \A g \in DOMAIN remote.groups : groups[g] = remote.groups[g]
    /\ \E case \in Cases : local = case.local

LEMMA ForeseenStart == AlertInit => ForeseenInv
<1> SUFFICES ASSUME AlertInit PROVE ForeseenInv
    OBVIOUS
<1>1. PICK case \in Cases : local = case.local /\ groups = case.groups
    BY DEF AlertInit
<1>2. \A g \in DOMAIN groups : OldIn(local, groups[g])
    BY <1>1, CasesAssumption DEF IsCase, OldIn
<1>3. step # "put"
    BY DEF AlertInit, O!Init
<1>4. DOMAIN remote.groups = {}
    BY DEF AlertInit, Init
<1> QED BY <1>1, <1>2, <1>3, <1>4 DEF ForeseenInv

\* The rules are written last.
LEMMA StaysWritten ==
    ASSUME IInv, [AlertNext]_vars, ~Unwritten
    PROVE  ~Unwritten'
<1>1. CASE UNCHANGED pushVars
    BY <1>1 DEF Unwritten, pushVars
<1>2. CASE PushStep
  <2>1. ~Early
      BY DEF Unwritten, Early
  <2>2. CASE \E c \in todo : \E err : Written(c, err)
    <3>1. phase' \in {phase, "done"}
        BY <2>2 DEF Written, Recorded
    <3> QED BY <3>1 DEF Unwritten
  <2>3. CASE Between
      BY <2>3 DEF Between, Unwritten
  <2> QED BY <1>2, <2>1, <2>2, <2>3, PushCases
<1> QED BY <1>1, <1>2, Frames

LEMMA OldWithout ==
    ASSUME NEW bundle, NEW group \in GrafanaGroup, OldIn(bundle, group), NEW uids
    PROVE  OldIn(bundle, Without(group, uids))
BY WithoutIs DEF OldIn

\* Nobody but the push brings a new uid.
LEMMA StaysOld ==
    ASSUME IInv, ForeseenInv, [AlertNext]_vars, Unwritten
    PROVE  \A g \in DOMAIN groups : OldIn(local, groups'[g])
<1>0. /\ \A g \in DOMAIN groups : OldIn(local, groups[g]) /\ groups[g] \in GrafanaGroup
      /\ step = "put" => OldIn(local, body)
      /\ IsGrafana(groups, local)
    BY DEF ForeseenInv, IInv, GrafanaInv, IsGrafana, HeldIn
<1>1. CASE groups' = groups
    BY <1>0, <1>1
<1>2. ~PushRuleGroup
    BY DEF PushRuleGroup, Unwritten
<1>3. ASSUME NEW uid, groups' = DeleteRule(groups, uid)
      PROVE  \A g \in DOMAIN groups : OldIn(local, groups'[g])
  <2>1. \A g \in DOMAIN groups : groups'[g] = Without(groups[g], {uid})
      BY <1>3 DEF DeleteRule
  <2> QED BY <1>0, <2>1, OldWithout
<1>4. CASE O!DeleteNamedRule
    BY <1>1, <1>3, <1>4, DeleteNamedIs
<1>5. CASE O!PutBatch
  <2>1. step = "put"
      BY <1>5 DEF O!PutBatch
  <2>2. PICK id : id = O!Ref
      OBVIOUS
  <2>3. PICK f : f = O!Flipped(body)
      OBVIOUS
  <2>4. PICK header : header = GroupProvenanceHeader(body.rules)
      OBVIOUS
  <2>5. id \in DOMAIN groups /\ HeldIn(local, id, body)
      BY <2>1, <2>2, RefIs DEF IInv, OpInv
  <2>6. /\ f.interval \in Nat /\ f.rules \in Seq(BundleRule) /\ DOMAIN f.rules = DOMAIN body.rules
        /\ \A i \in DOMAIN body.rules : f.rules[i].uid = body.rules[i].uid /\ f.rules[i] \in BundleRule
      BY <2>3, <2>5, FlippedIs
  <2>7. \A i \in DOMAIN body.rules : body.rules[i].uid # NoUid
    <3>1. body.rules \in Seq(GrafanaRule)
        BY <2>5 DEF HeldIn, GrafanaGroup
    <3>2. \A i \in DOMAIN body.rules : body.rules[i] \in GrafanaRule
        BY <3>1
    <3> QED BY <3>2 DEF GrafanaRule
  <2>8. CASE groups' = PutGroup(groups, id, f, header)
    <3>1. /\ DOMAIN groups'[id].rules = DOMAIN f.rules
          /\ \A i \in DOMAIN f.rules : groups'[id].rules[i] = Stored(f.rules[i], header)
          /\ \A h \in DOMAIN groups \ {id} : groups'[h] = Without(groups[h], Uids(f.rules))
        BY <2>5, <2>6, <2>8, PutIs
    <3>2. ASSUME NEW i \in DOMAIN body.rules PROVE groups'[id].rules[i].uid = body.rules[i].uid
      <4>1. Stored(f.rules[i], header).uid = body.rules[i].uid
          BY <2>6, <2>7, StoredIs
      <4> QED BY <2>6, <3>1, <4>1
    <3>3. OldIn(local, groups'[id])
        BY <1>0, <2>1, <2>6, <3>1, <3>2 DEF OldIn
    <3>4. \A h \in DOMAIN groups \ {id} : OldIn(local, groups'[h])
        BY <1>0, <3>1, OldWithout
    <3> QED BY <3>3, <3>4
  <2> QED BY <1>1, <1>5, <2>2, <2>3, <2>4, <2>8, PutBatchIs
<1>6. CASE Edit
  <2>1. PICK g \in DOMAIN groups :
          \/ \E i \in DOMAIN groups[g].rules : groups' = [groups EXCEPT ![g].rules[i].val = 9]
          \/ \E r \in RuleSet(groups[g].rules) : groups' = DeleteRule(groups, r.uid)
      BY <1>6 DEF Edit
  <2>2. ASSUME NEW i \in DOMAIN groups[g].rules, groups' = [groups EXCEPT ![g].rules[i].val = 9]
        PROVE  \A h \in DOMAIN groups : OldIn(local, groups'[h])
    <3>1. \A h \in DOMAIN groups : \A k \in DOMAIN groups'[h].rules :
             k \in DOMAIN groups[h].rules /\ groups'[h].rules[k].uid = groups[h].rules[k].uid
        BY <1>0, <2>2, EditIs
    <3> QED BY <1>0, <3>1 DEF OldIn
  <2> QED BY <1>3, <2>1, <2>2
<1> QED BY <1>1, <1>2, <1>4, <1>5, <1>6, GroupSteps

\* A fetch adds what Grafana holds.
LEMMA RemoteGrows ==
    ASSUME IInv, [AlertNext]_vars, PushStep, NEW g \in DOMAIN remote'.groups
    PROVE  \/ g \in DOMAIN remote.groups /\ remote'.groups[g] = remote.groups[g]
           \/ remote'.groups[g] = groups[g]
<1>0. remote = [groups |-> remote.groups, points |-> remote.points, tree |-> remote.tree]
    BY DEF IInv, FetchedInv
<1>1. CASE remote' = remote
    BY <1>1
<1>2. CASE FetchGroup
  <2>1. CASE RequestFails
      BY <1>1, <2>1 DEF RequestFails
  <2>2. CASE ~RequestFails
    <3>1. PICK h \in todo : remote' = [remote EXCEPT !.groups =
                 [k \in DOMAIN @ \cup {h} |-> IF k = h THEN groups[h] ELSE @[k]]]
        BY <1>2, <2>2 DEF FetchGroup
    <3>2. remote'.groups = [k \in DOMAIN remote.groups \cup {h} |->
                               IF k = h THEN groups[h] ELSE remote.groups[k]]
        BY <1>0, <3>1
    <3> QED BY <3>2
  <2> QED BY <2>1, <2>2
<1>3. CASE FetchPoints \/ FetchTree
  <2>1. \/ remote' = remote \/ remote' = [remote EXCEPT !.points = points]
        \/ remote' = [remote EXCEPT !.tree = tree]
      BY <1>3 DEF FetchPoints, FetchTree, RequestFails
  <2>2. remote'.groups = remote.groups
      BY <1>0, <2>1
  <2> QED BY <2>2
<1>4. CASE Start \/ Lookup \/ MakePlan
    BY <1>1, <1>4 DEF Start, Lookup, MakePlan, RequestFails
<1>5. CASE \E c \in todo : \E err : Written(c, err)
    BY <1>1, <1>5 DEF Written, WriteUnchanged
<1>6. CASE Between
    BY <1>1, <1>6 DEF Between
<1> QED BY <1>2, <1>3, <1>4, <1>5, <1>6, PushCases DEF Fetch

LEMMA ForeseenStep ==
    ASSUME IInv, ForeseenInv, [AlertNext]_vars
    PROVE  ForeseenInv'
<1>0. local' = local /\ DOMAIN groups' = DOMAIN groups /\ (Unwritten' => Unwritten)
    BY Frames, GroupsKept, StaysWritten DEF inputVars
<1>1. (\E case \in Cases : local = case.local)'
    BY <1>0 DEF ForeseenInv
<1>2. ASSUME Unwritten' PROVE (\A g \in DOMAIN groups : OldIn(local, groups[g]))'
  <2>1. \A g \in DOMAIN groups : OldIn(local, groups'[g])
      BY <1>0, <1>2, StaysOld
  <2> QED BY <1>0, <2>1 DEF OldIn, IsOld, Elements, RuleSet
<1>3. ASSUME Unwritten', step' = "put" PROVE OldIn(local, body)'
  <2>1. OldIn(local, body')
    <3>1. CASE UNCHANGED opVars
        BY <1>0, <1>3, <3>1 DEF opVars, ForeseenInv
    <3>2. CASE OpStep
      <4>1. body' = groups[O!Ref] /\ rules # <<>>
          BY <1>3, <3>2, PutStarts DEF OpStep
      <4>2. O!Ref \in DOMAIN groups
          BY <4>1, RefIs DEF IInv
      <4> QED BY <1>0, <1>3, <4>1, <4>2 DEF ForeseenInv
    <3> QED BY <3>1, <3>2, Frames
  <2> QED BY <1>0, <2>1 DEF OldIn, IsOld, Elements, RuleSet
<1>4. ASSUME Unwritten', ~disturbed', NEW g \in DOMAIN remote'.groups
      PROVE  groups'[g] = remote'.groups[g]
  <2>0. Unwritten
      BY <1>0, <1>4
  <2>1. CASE UNCHANGED pushVars /\ (disturbed => disturbed')
             /\ (groups' = groups \/ phase = "start" \/ disturbed')
    <3>1. phase = "start" => DOMAIN remote.groups = {}
        BY DEF IInv, FetchedInv
    <3>2. remote' = remote /\ ~disturbed
        BY <1>4, <2>1 DEF pushVars
    <3> QED BY <1>4, <2>0, <2>1, <3>1, <3>2 DEF ForeseenInv
  <2>2. CASE PushStep /\ UNCHANGED disturbed
    <3>1. groups' = groups \/ (phase = "start" /\ UNCHANGED pushVars)
      <4>1. ~PushRuleGroup
          BY <2>0 DEF PushRuleGroup, Unwritten
      <4>2. CASE OpStep \/ Edit
          BY <1>4, <2>2, <4>2 DEF OpStep, Edit, Disturb
      <4> QED BY <4>1, <4>2, GroupSteps
    <3>2. g \in DOMAIN remote.groups => remote'.groups[g] = remote.groups[g] \/ remote'.groups[g] = groups[g]
        BY <1>4, <2>2, RemoteGrows
    <3>3. g \notin DOMAIN remote.groups => remote'.groups[g] = groups[g]
        BY <1>4, <2>2, RemoteGrows
    <3>4. g \in DOMAIN remote.groups => groups[g] = remote.groups[g]
        BY <1>4, <2>0, <2>2 DEF ForeseenInv
    <3>5. ~(phase = "start" /\ UNCHANGED pushVars)
        BY <1>4 DEF pushVars, IInv, FetchedInv
    <3> QED BY <3>1, <3>2, <3>3, <3>4, <3>5
  <2> QED BY <2>1, <2>2, DisturbIs
<1> QED BY <1>1, <1>2, <1>3, <1>4 DEF ForeseenInv

\* A group that is pushed, if it was there when it was fetched.
LEMMA MeetsHeld ==
    ASSUME IInv, ForeseenInv, BundlesAreFull, Writing, Unwritten, ~disturbed, plan # {},
           NEW n \in DOMAIN Pushed.groups, NEW g, g = Pushed.groups[n],
           NEW id, id = g.id, NEW held, held = remote.groups[id], held # NoGroup
    PROVE  /\ id \in DOMAIN groups /\ groups[id] = held /\ held \in GrafanaGroup
           /\ g.interval \in Nat /\ g.rules # <<>>
           /\ Meets(g.rules, held.rules)
<1>1. phase \notin {"start", "done"}
    BY DEF Writing
<1>2. refs \subseteq DOMAIN remote.groups /\ refs \subseteq DOMAIN groups
    BY DEF IInv, FetchedInv, TypeOK
<1>3. id \in DOMAIN groups /\ Fits(local, id, g)
    BY <1>1, <1>2, PushedFits DEF IInv
<1>4. id \in refs
  <2>1. CASE Scoped
      BY <2>1, ScopedGroups DEF IInv
  <2>2. CASE ~Scoped
    <3>1. g \in Elements(local.groups)
        BY <2>2 DEF Pushed, Elements
    <3> QED BY <1>1, <2>2, <3>1 DEF IInv, FetchedInv
  <2> QED BY <2>1, <2>2
<1>5. groups[id] = held /\ HeldIn(local, id, held)
    BY <1>2, <1>4 DEF ForeseenInv, IInv, FetchedInv
<1>6. held \in GrafanaGroup /\ held.rules # <<>>
      /\ \A i, j \in DOMAIN held.rules : held.rules[i].uid = held.rules[j].uid => i = j
    BY <1>5 DEF HeldIn
<1>7. /\ g.interval \in Nat /\ g.rules \in Seq(BundleRule)
      /\ \A i, j \in DOMAIN g.rules :
            Stored(g.rules[i], "omit").uid = Stored(g.rules[j], "omit").uid => i = j
    BY <1>3 DEF Fits
<1>8. held.rules \in Seq(GrafanaRule)
    BY <1>6 DEF GrafanaGroup
<1>9. g.rules # <<>> /\ \A i \in DOMAIN g.rules : g.rules[i].uid = NoUid =>
         \A j \in DOMAIN held.rules : held.rules[j].uid # g.rules[i].title
  <2>1. CASE Scoped
    <3>1. g = SyntheticGroup(id, held, local, options.ruleUIDs)
        BY <2>1, ScopedGroups DEF IInv
    <3>2. \A uid \in options.ruleUIDs : Holders(local, uid) # {}
        BY <1>1, <2>1 DEF IInv, FetchedInv
    <3>3. IsBundle(local, DOMAIN groups)
        BY DEF IInv, GrafanaInv
    <3>4. /\ DOMAIN g.rules = DOMAIN held.rules
          /\ \A i \in DOMAIN held.rules : g.rules[i].uid = held.rules[i].uid
      <4>1. PICK h : h = g
          OBVIOUS
      <4>2. PICK k : k = held
          OBVIOUS
      <4>3. HeldIn(local, id, k) /\ h = SyntheticGroup(id, k, local, options.ruleUIDs)
          BY <1>5, <3>1, <4>1, <4>2
      <4>4. /\ h.interval \in Nat /\ h.rules \in Seq(BundleRule)
            /\ DOMAIN h.rules = DOMAIN k.rules
            /\ \A i \in DOMAIN k.rules : h.rules[i].uid = k.rules[i].uid
          BY <3>2, <3>3, <4>3, SyntheticIs
      <4> QED BY <4>1, <4>2, <4>4
    <3>5. \A i \in DOMAIN held.rules : held.rules[i] \in GrafanaRule
        BY <1>8
    <3>6. \A i \in DOMAIN held.rules : held.rules[i].uid # NoUid
        BY <3>5 DEF GrafanaRule
    <3>7. g.rules # <<>>
      <4>1. Len(g.rules) = Len(held.rules)
          BY <1>7, <1>8, <3>4
      <4> QED BY <1>6, <1>7, <1>8, <4>1
    <3>8. \A i \in DOMAIN g.rules : g.rules[i].uid # NoUid
        BY <3>4, <3>6
    <3> QED BY <3>7, <3>8
  <2>2. CASE ~Scoped
    <3>1. g \in Elements(local.groups)
        BY <2>2 DEF Pushed, Elements
    <3>2. g.rules # <<>>
        BY <3>1 DEF ForeseenInv, BundlesAreFull
    <3>3. OldIn(local, held)
        BY <1>3, <1>5 DEF ForeseenInv
    <3>4. \A i \in DOMAIN g.rules : g.rules[i] \in RuleSet(g.rules)
        BY DEF RuleSet
    <3> QED BY <3>1, <3>2, <3>3, <3>4 DEF OldIn, IsOld
  <2> QED BY <2>1, <2>2
<1>10. Meets(g.rules, held.rules)
    BY <1>6, <1>7, <1>8, <1>9 DEF Meets
<1> QED BY <1>3, <1>5, <1>6, <1>7, <1>9, <1>10

\* What a plan says of one of its rule groups.
Foretold(c) ==
    LET g == Group(c.id)
        lines == GroupDetail(g, groups[c.id])
        put == PutGroup(groups, c.id, g, GroupHeader(g))[c.id]
    IN  /\ Effect(groups[c.id], put) =
              {<<line[1], line[2]>> : line \in {l \in lines : l[1] # "!"}}
        /\ (c.action = "Unchanged") <=> [put EXCEPT !.rules = Sent(@)] =
              [groups[c.id] EXCEPT !.rules = Sent(@)]

LEMMA PlanForetold ==
    ASSUME IInv, ForeseenInv, BundlesAreFull,
           phase \in {"points", "tree", "folders", "blocked"}, ~disturbed,
           NEW c \in plan, c.kind = "RuleGroup", c.action # "Create"
    PROVE  Foretold(c)
<1>1. PICK n \in DOMAIN Pushed.groups :
         c = PlanGroup(Pushed.groups[n], remote.groups[Pushed.groups[n].id])
    BY PlanHas DEF IInv, PlanInv
<1>2. PICK g : g = Pushed.groups[n]
    OBVIOUS
<1>3. PICK id : id = g.id
    OBVIOUS
<1>4. PICK held : held = remote.groups[id]
    OBVIOUS
<1>5. c.id = id /\ held # NoGroup /\ (c.action = "Unchanged" <=> GroupDetail(g, held) = {})
    BY <1>1, <1>2, <1>3, <1>4 DEF PlanGroup, ActionFor
<1>6. Group(id) = g
  <2>1. \A h \in Elements(Pushed.groups) : h.id = id => h = g
      BY <1>2, <1>3, LocalApart DEF Elements, IInv
  <2>2. g \in Elements(Pushed.groups)
      BY <1>2 DEF Elements
  <2> QED BY <1>3, <2>1, <2>2 DEF Group
<1>7. /\ id \in DOMAIN groups /\ groups[id] = held /\ held \in GrafanaGroup
      /\ g.interval \in Nat /\ g.rules # <<>> /\ Meets(g.rules, held.rules)
    BY <1>2, <1>3, <1>4, <1>5, MeetsHeld DEF Writing, Unwritten
<1>8. PICK header : header = GroupHeader(g)
    OBVIOUS
<1>9. PICK put : put = PutGroup(groups, id, g, header)[id]
    OBVIOUS
<1>10. g.rules \in Seq(BundleRule)
    BY <1>7 DEF Meets
<1>11. /\ put \in GrafanaGroup /\ put.interval = g.interval /\ DOMAIN put.rules = DOMAIN g.rules
       /\ \A i \in DOMAIN g.rules : put.rules[i] = Stored(g.rules[i], header)
    BY <1>7, <1>9, <1>10, PutIs
<1>12. Leaves(g.rules, header, put.rules)
    BY <1>11 DEF Leaves, GrafanaGroup
<1>13. Effect(held, put) = Lines({l \in GroupDetail(g, held) : l[1] # "!"})
    BY <1>7, <1>11, <1>12, GroupForetold
<1>14. GroupDetail(g, held) = {} <=> SendsSame(put, held)
    BY <1>7, <1>11, <1>12, NothingForGroup
<1> QED BY <1>5, <1>6, <1>7, <1>8, <1>9, <1>13, <1>14 DEF Foretold, Lines, SendsSame

-----------------------------------------------------------------------------
(* What a push leaves                                                      *)

LEMMA PushWrites ==
    ASSUME IInv, PushStep
    PROVE  \/ Fetch /\ Early
           \/ Writing /\ \E c \in TodoOf("ContactPoint"), err \in WriteErrors : PointWritten(c, err)
           \/ Writing /\ \E c \in TodoOf("PolicyTree"), err \in WriteErrors : TreeWritten(c, err)
           \/ Writing /\ \E c \in TodoOf("RuleGroup") : GroupBlocked(c)
           \/ Writing /\ \E g \in NextGroups, c \in TodoOf("RuleGroup"), err \in WriteErrors : GroupWritten(g, c, err)
           \/ Writing /\ Between
<1>1. CASE phase \in {"start", "lookup", "fetch", "fetchTree", "plan", "done"}
  <2>1. ~Apply
      BY <1>1 DEF Apply, PushContactPoint, PushPolicyTree, NextPhase, CheckFolders, RecordBlocked,
                  PushRuleGroup, Finish
  <2>2. Fetch => phase # "done"
      BY DEF Fetch, Start, Lookup, FetchGroup, FetchPoints, FetchTree, MakePlan
  <2> QED BY <1>1, <2>1, <2>2 DEF PushStep, Next, Early
<1>2. CASE Writing
  <2>1. IsBundle(local, DOMAIN groups) /\ \A c \in todo : c \in Plan(Pushed, remote)
      BY <1>2, WritingHas
  <2>2. ~Fetch
      BY <1>2 DEF Writing, Fetch, Start, Lookup, FetchGroup, FetchPoints, FetchTree, MakePlan
  <2> QED BY <1>2, <2>1, <2>2, PushSteps
<1> QED BY <1>1, <1>2 DEF IInv, TypeOK, Writing

\* A step of a push before its first write.
Planned ==
    /\ plan' = Plan(Pushed, remote) /\ applied' = {c \in plan' : c.action = "Unchanged"}
    /\ todo' = plan' \ applied' /\ phase' = "points" /\ UNCHANGED <<refs, remote, failed>>
    /\ phase = "plan" \/ Scoped
    /\ ~Scoped => ~PlanPointsFails(local.points, remote.points)
    /\ Scoped => /\ \A c \in plan' : c.action # "Create"
                 /\ \A uid \in options.ruleUIDs : Holders(local, uid) # {}

Fetched ==
    /\ plan' = {} /\ applied' = {} /\ failed' = {}
    /\ Early' \/ phase' = "done"
    /\ phase' = "fetchTree" => remote'.points = points /\ ~Scoped
    /\ phase' = "plan" =>
          phase = "fetchTree" /\ remote'.tree = tree /\ remote'.points = remote.points

LEMMA FetchIs ==
    ASSUME IInv, PushStep, Fetch, Early
    PROVE  /\ UNCHANGED <<local, options, grafanaVars, disturbed, opVars>>
           /\ Planned \/ Fetched
<1>0. plan = {} /\ applied = {} /\ failed = {}
      /\ remote = [groups |-> remote.groups, points |-> remote.points, tree |-> remote.tree]
    BY DEF IInv, PlanInv, FetchedInv
<1>1. UNCHANGED <<local, options, grafanaVars, disturbed, opVars>>
    BY DEF PushStep, Fetch, inputVars
<1> SUFFICES Planned \/ Fetched
    BY <1>1
<1>2. CASE RequestFails
    BY <1>0, <1>2 DEF RequestFails, Return, Fetched
<1>3. CASE Start
    BY <1>0, <1>3 DEF Start, Return, Fetched, Early
<1>4. CASE Lookup /\ ~RequestFails
    BY <1>0, <1>4 DEF Lookup, Return, Fetched, Early
<1>5. CASE FetchGroup /\ ~RequestFails
    BY <1>0, <1>5 DEF FetchGroup, Fetched, Early
<1>6. CASE FetchPoints /\ ~RequestFails
    BY <1>0, <1>6 DEF FetchPoints, Fetched, Early
<1>7. CASE FetchTree /\ ~RequestFails
    BY <1>0, <1>7 DEF FetchTree, Fetched, Early
<1>8. CASE MakePlan
  <2>1. Scoped => \A uid \in options.ruleUIDs : Holders(local, uid) # {}
      BY <1>8 DEF MakePlan, IInv, FetchedInv
  <2> QED BY <1>0, <1>8, <2>1 DEF MakePlan, Return, Planned, Fetched, Early, Offends, ScopedOffence
<1> QED BY <1>2, <1>3, <1>4, <1>5, <1>6, <1>7, <1>8 DEF Fetch

\* The plan is kept.
PlanIs ==
    plan # {} =>
        /\ plan = Plan(Pushed, remote)
        /\ ~Scoped => ~PlanPointsFails(local.points, remote.points)
        /\ Scoped => /\ \A c \in plan : c.action # "Create"
                     /\ \A uid \in options.ruleUIDs : Holders(local, uid) # {}

LEMMA PlanStays ==
    ASSUME IInv, [AlertNext]_vars
    PROVE  \/ PushStep /\ Fetch /\ Early
           \/ /\ UNCHANGED <<plan, remote, refs, local, options>>
              /\ Pushed' = Pushed /\ Plan(Pushed, remote)' = Plan(Pushed, remote)
              /\ Scoped' = Scoped /\ StopOnError' = StopOnError
<1>0. UNCHANGED <<local, options>>
    BY Frames DEF inputVars
<1>1. CASE UNCHANGED <<plan, remote, refs>>
    BY <1>0, <1>1, SamePushed
<1>2. CASE PushStep /\ ~(Fetch /\ Early)
  <2>1. UNCHANGED <<plan, remote, refs>>
      BY <1>2, PushWrites
         DEF PointWritten, TreeWritten, GroupBlocked, GroupWritten, Between, WriteUnchanged
  <2> QED BY <1>1, <2>1
<1> QED BY <1>1, <1>2, Frames DEF pushVars

LEMMA PlanIsStep ==
    ASSUME IInv, PlanIs, [AlertNext]_vars
    PROVE  PlanIs'
<1>1. CASE PushStep /\ Fetch /\ Early
  <2>1. UNCHANGED <<local, options>> /\ (Planned \/ Fetched)
      BY <1>1, FetchIs
  <2>2. CASE Planned
    <3>1. UNCHANGED <<local, options, refs, remote>>
        BY <2>1, <2>2 DEF Planned
    <3> QED BY <2>2, <3>1, SamePushed DEF Planned, PlanIs
  <2> QED BY <2>1, <2>2 DEF Fetched, PlanIs
<1> QED BY <1>1, PlanStays DEF PlanIs

\* A push of named rules is about rule groups only.
LEMMA ScopedPlan ==
    ASSUME Scoped, NEW c \in Plan(Pushed, remote)
    PROVE  c.kind = "RuleGroup"
<1>1. Pushed.points = <<>> /\ Pushed.tree = NoTree
    BY DEF Pushed
<1>2. \A g, held : PlanGroup(g, held).kind = "RuleGroup"
    BY DEF PlanGroup
<1> QED BY <1>1, <1>2 DEF Plan, Elements

\* The policy tree is what was fetched until it is written.
TreeInv ==
    /\ phase = "plan" => remote.tree = tree
    /\ Writing /\ TodoOf("PolicyTree") # {} => tree = remote.tree
    /\ ~options.dryRun => \A c \in applied : c.kind = "PolicyTree" =>
          tree.val = local.tree.val /\ tree.routes = local.tree.routes

LEMMA TreeStep ==
    ASSUME IInv, TreeInv, [AlertNext]_vars
    PROVE  TreeInv'
<1>0. UNCHANGED <<local, options>>
    BY Frames DEF inputVars
<1>1. CASE UNCHANGED <<pushVars, tree>>
    BY <1>0, <1>1 DEF pushVars, TreeInv, Writing, TodoOf
<1>2. CASE PushStep /\ Fetch /\ Early
  <2>1. UNCHANGED <<local, options, tree>> /\ (Planned \/ Fetched)
      BY <1>2, FetchIs DEF grafanaVars
  <2>2. CASE Fetched
      BY <2>1, <2>2 DEF Fetched, TreeInv, Early, Writing
  <2>3. CASE Planned
    <3>1. ASSUME NEW c \in plan', c.kind = "PolicyTree"
          PROVE  tree = remote.tree /\ c = PlanTree(local.tree, remote.tree)
      <4>1. c \in Plan(Pushed, remote)
          BY <2>3, <3>1 DEF Planned
      <4>2. c = PlanTree(local.tree, remote.tree)
          BY <3>1, <4>1, PlanHas
      <4>3. ~Scoped
          BY <3>1, <4>1, ScopedPlan
      <4> QED BY <2>3, <4>2, <4>3 DEF Planned, TreeInv
    <3>2. remote' = remote /\ todo' \subseteq plan' /\ applied' \subseteq plan'
          /\ (\A c \in applied' : c.action = "Unchanged") /\ phase' = "points"
        BY <2>3 DEF Planned
    <3>3. \A c \in applied' : c.kind = "PolicyTree" =>
             tree.val = local.tree.val /\ tree.routes = local.tree.routes
        BY <3>1, <3>2 DEF PlanTree, ActionFor
    <3> QED BY <2>1, <3>1, <3>2, <3>3 DEF TreeInv, TodoOf
  <2> QED BY <2>1, <2>2, <2>3
<1>3. CASE PushStep /\ ~(Fetch /\ Early)
  <2>0. UNCHANGED remote
      BY <1>3, PlanStays
  <2>1. CASE Writing /\ \E c \in TodoOf("PolicyTree"), err \in WriteErrors : TreeWritten(c, err)
    <3>1. PICK c \in TodoOf("PolicyTree"), err \in WriteErrors : TreeWritten(c, err)
        BY <2>1
    <3>2. \A d \in plan : d.kind = "PolicyTree" => d = PlanTree(local.tree, remote.tree)
        BY <2>1, WritingHas, PlanHas
    <3>3. todo \subseteq plan /\ applied \cap todo = {}
        BY <2>1 DEF IInv, PlanInv
    <3>4. \A d \in todo : d.kind = "PolicyTree" => d = c
        BY <3>2, <3>3 DEF TodoOf
    <3>5. applied \subseteq plan
        BY <2>1 DEF IInv, PlanInv
    <3>6. c \in todo /\ c.kind = "PolicyTree" /\ Recorded(c, err) /\ phase = "tree"
        BY <3>1 DEF TreeWritten, TodoOf
    <3>7. \A d \in applied : d.kind # "PolicyTree"
        BY <3>2, <3>3, <3>5, <3>6
    <3>8. TodoOf("PolicyTree")' = {} /\ phase' # "plan"
        BY <3>4, <3>6 DEF Recorded, TodoOf
    <3>9. ASSUME NEW d \in applied', d.kind = "PolicyTree", ~options.dryRun
          PROVE  tree'.val = local.tree.val /\ tree'.routes = local.tree.routes
      <4>1. err = "nil"
          BY <3>6, <3>7, <3>9 DEF Recorded
      <4>2. tree' = PutTree(local.tree, ProvenanceHeader(remote.tree.prov))
          BY <3>1, <3>9, <4>1 DEF TreeWritten
      <4> QED BY <4>2 DEF PutTree
    <3> QED BY <1>0, <3>8, <3>9 DEF TreeInv
  <2>2. CASE /\ Writing /\ UNCHANGED tree /\ todo' \subseteq todo
             /\ \A c \in applied' : c \in applied \/ c.kind # "PolicyTree"
             /\ phase' # "plan"
      BY <1>0, <2>0, <2>2 DEF TreeInv, TodoOf
  <2>3. ASSUME Writing, NEW c \in TodoOf("ContactPoint"), NEW err \in WriteErrors, PointWritten(c, err)
        PROVE  TreeInv'
      BY <2>2, <2>3 DEF PointWritten, Recorded, TodoOf
  <2>4. ASSUME Writing, NEW c \in TodoOf("RuleGroup"), GroupBlocked(c)
        PROVE  TreeInv'
      BY <2>2, <2>4 DEF GroupBlocked, Recorded, TodoOf
  <2>5. ASSUME Writing, NEW g \in NextGroups, NEW c \in TodoOf("RuleGroup"), NEW err \in WriteErrors,
               GroupWritten(g, c, err)
        PROVE  TreeInv'
      BY <2>2, <2>5 DEF GroupWritten, Recorded, TodoOf
  <2>6. CASE Writing /\ Between
      BY <2>2, <2>6 DEF Between, grafanaVars
  <2> QED BY <1>3, <2>1, <2>3, <2>4, <2>5, <2>6, PushWrites
<1> QED BY <1>1, <1>2, <1>3, Frames

\* A folder that is not there blocks its groups.
FolderInv ==
    phase \in {"blocked", "groups"} =>
        \A c \in TodoOf("RuleGroup") : FolderOf(c) \in folders \cup blocked

LEMMA FoldersStay ==
    ASSUME [AlertNext]_vars
    PROVE  UNCHANGED folders
<1>1. Fetch => UNCHANGED folders
    BY DEF Fetch, grafanaVars
<1>2. Apply => UNCHANGED folders
    BY DEF Apply, PushContactPoint, PushPolicyTree, NextPhase, CheckFolders, RecordBlocked, PushRuleGroup,
           Finish, grafanaVars
<1> QED BY <1>1, <1>2
        DEF AlertNext, vars, grafanaVars, PushStep, Next, OpStep, QueryStep, Edit, Evaluate, SessionDies

LEMMA FolderStep ==
    ASSUME IInv, FolderInv, [AlertNext]_vars
    PROVE  FolderInv'
<1>0. UNCHANGED folders
    BY FoldersStay
<1>1. CASE UNCHANGED pushVars
    BY <1>0, <1>1 DEF pushVars, FolderInv, TodoOf, FolderOf
<1>2. CASE phase' \notin {"blocked", "groups"}
    BY <1>2 DEF FolderInv
<1>3. CASE phase' = phase /\ todo' \subseteq todo /\ blocked' = blocked
    BY <1>0, <1>3 DEF FolderInv, TodoOf, FolderOf
<1>4. ASSUME PushStep, Fetch, Early PROVE FolderInv'
  <2>1. phase' \notin {"blocked", "groups"}
      BY <1>4, FetchIs DEF Planned, Fetched, Early
  <2> QED BY <1>2, <2>1
<1>5. ASSUME NEW c, NEW err, Recorded(c, err), WriteUnchanged PROVE FolderInv'
  <2>1. todo' \subseteq todo /\ blocked' = blocked /\ phase' \in {phase, "done"}
      BY <1>5 DEF Recorded, WriteUnchanged
  <2> QED BY <1>2, <1>3, <2>1
<1>6. CASE Between
  <2>1. todo' = todo
      BY <1>6 DEF Between
  <2>2. CASE phase' = "blocked"
      BY <1>0, <1>6, <2>1, <2>2 DEF Between, FolderInv, TodoOf, FolderOf
  <2>3. CASE phase' = "groups"
      BY <1>0, <1>6, <2>1, <2>3 DEF Between, FolderInv, TodoOf, FolderOf
  <2> QED BY <1>2, <2>2, <2>3
<1> QED BY <1>1, <1>4, <1>5, <1>6, PushWrites, Frames
        DEF PointWritten, TreeWritten, GroupBlocked, GroupWritten

-----------------------------------------------------------------------------
(* Contact points                                                          *)

UidsApart(held) == IsFiniteSet(held) /\ \A p, q \in held : p.uid = q.uid => p = q

\* The uid under which Grafana has a contact point of the bundle, once it is written.
Target(p) ==
    IF Matches(p, remote.points) = {} THEN PointID(p)[1] ELSE FoundUid(p)

PointsKnown ==
    /\ UidsApart(remote.points) /\ NamesApart(local, remote.points)
    /\ ~PlanPointsFails(local.points, remote.points)

LEMMA MatchIs ==
    ASSUME PointsKnown, NEW i \in DOMAIN local.points
    PROVE  \/ /\ Matches(local.points[i], remote.points) = {}
              /\ Target(local.points[i]) = PointID(local.points[i])[1]
              /\ \A q \in remote.points : q.uid # Target(local.points[i])
           \/ \E only \in remote.points :
                 /\ Matches(local.points[i], remote.points) = {only}
                 /\ Target(local.points[i]) = only.uid /\ FoundUid(local.points[i]) = only.uid
<1> DEFINE p == local.points[i]
           found == Matches(p, remote.points)
<1>1. CASE found = {}
  <2>1. Target(p) = IF p.uid # NoUid THEN p.uid ELSE p.name
      BY <1>1 DEF Target, PointID
  <2>2. \A q \in remote.points : q.uid # Target(p)
      BY <1>1, <2>1 DEF Matches, PointsKnown, NamesApart
  <2> QED BY <1>1, <2>2 DEF Target
<1>2. CASE found # {}
  <2>1. found \subseteq remote.points
      BY DEF Matches
  <2>2. IsFiniteSet(found)
      BY <2>1, FS_Subset DEF PointsKnown, UidsApart
  <2>3. ~(Cardinality(found) > 1)
      BY DEF PointsKnown, PlanPointsFails
  <2> HIDE DEF found
  <2>4. Cardinality(found) \in Nat /\ Cardinality(found) # 0
      BY <1>2, <2>2, FS_CardinalityType, FS_EmptySet
  <2>5. PICK only : found = {only}
    <3>1. PICK n \in Nat : n = Cardinality(found)
        BY <2>4
    <3>2. n = 1
        BY <2>3, <2>4, <3>1
    <3> QED BY <2>2, <3>1, <3>2, FS_Singleton
  <2>6. only \in remote.points
      BY <2>1, <2>5
  <2>7. FoundUid(p) = only.uid
      BY <2>5 DEF FoundUid, found
  <2>8. Target(p) = only.uid
      BY <2>5, <2>7 DEF Target, found
  <2> QED BY <2>5, <2>6, <2>7, <2>8 DEF found
<1> QED BY <1>1, <1>2

LEMMA TargetsApart ==
    ASSUME PointsKnown, NEW ids, IsBundle(local, ids),
           NEW i \in DOMAIN local.points, NEW j \in DOMAIN local.points,
           Target(local.points[i]) = Target(local.points[j])
    PROVE  i = j
<1> DEFINE at(k) == local.points[k]
<1>1. CASE Matches(at(i), remote.points) = {} /\ Matches(at(j), remote.points) = {}
  <2>1. PointID(at(i))[1] = PointID(at(j))[1]
      BY <1>1 DEF Target
  <2>2. PointID(at(i)) = PointID(at(j))
      BY <2>1 DEF PointID
  <2> QED BY <2>2 DEF IsBundle
<1>2. CASE Matches(at(i), remote.points) # {} /\ Matches(at(j), remote.points) # {}
  <2>1. PICK p \in remote.points : Matches(at(i), remote.points) = {p} /\ Target(at(i)) = p.uid
      BY <1>2, MatchIs
  <2>2. PICK q \in remote.points : Matches(at(j), remote.points) = {q} /\ Target(at(j)) = q.uid
      BY <1>2, MatchIs
  <2>3. p = q
      BY <2>1, <2>2 DEF PointsKnown, UidsApart
  <2> QED BY <2>1, <2>2, <2>3 DEF PointsKnown, PlanPointsFails
<1>3. CASE Matches(at(i), remote.points) # {} /\ Matches(at(j), remote.points) = {}
  <2>1. PICK p \in remote.points : Target(at(i)) = p.uid
      BY <1>3, MatchIs
  <2>2. \A q \in remote.points : q.uid # Target(at(j))
      BY <1>3, MatchIs
  <2> QED BY <2>1, <2>2
<1>4. CASE Matches(at(i), remote.points) = {} /\ Matches(at(j), remote.points) # {}
  <2>1. PICK p \in remote.points : Target(at(j)) = p.uid
      BY <1>4, MatchIs
  <2>2. \A q \in remote.points : q.uid # Target(at(i))
      BY <1>4, MatchIs
  <2> QED BY <2>1, <2>2
<1> QED BY <1>1, <1>2, <1>3, <1>4

\* A write of one contact point leaves those with other uids alone.
Rewrites(before, after, uid) == \A q : q.uid # uid => (q \in after <=> q \in before)

LEMMA PointPut ==
    ASSUME NEW before, UidsApart(before), NEW p, NEW uid, NEW header, NEW after,
           \/ /\ \A q \in before : q.uid # uid
              /\ uid = PointID(p)[1] /\ after = PostPoint(before, p, header)
           \/ MayPutPoint(before, uid, header) /\ after = PutPoint(before, uid, p, header)
    PROVE  /\ UidsApart(after) /\ Rewrites(before, after, uid)
           /\ \E q \in after : q.uid = uid /\ EqualPoints(p, q)
<1>0. IsFiniteSet(before) /\ \A q, r \in before : q.uid = r.uid => q = r
    BY DEF UidsApart
<1>1. ASSUME NEW new, NEW rest, after = rest \cup {new}, rest \subseteq before, new.uid = uid,
             \A q \in rest : q.uid # uid, \A q \in before : q \in rest \/ q.uid = uid,
             EqualPoints(p, new)
      PROVE  /\ UidsApart(after) /\ Rewrites(before, after, uid)
             /\ \E q \in after : q.uid = uid /\ EqualPoints(p, q)
  <2>1. IsFiniteSet(after)
      BY <1>0, <1>1, FS_Subset, FS_AddElement
  <2>2. \A q, r \in after : q.uid = r.uid => q = r
      BY <1>0, <1>1
  <2>3. Rewrites(before, after, uid)
      BY <1>1 DEF Rewrites
  <2> QED BY <1>1, <2>1, <2>2, <2>3 DEF UidsApart
<1>2. CASE /\ \A q \in before : q.uid # uid
           /\ uid = PointID(p)[1] /\ after = PostPoint(before, p, header)
  <2> DEFINE new == [uid |-> IF p.uid = NoUid THEN p.name ELSE p.uid,
                     name |-> p.name, val |-> p.val, secret |-> p.secret, prov |-> Stamp(header)]
  <2>1. after = before \cup {new} /\ new.uid = uid
      BY <1>2 DEF PostPoint, PointID
  <2>2. EqualPoints(p, new)
      BY DEF EqualPoints
  <2> HIDE DEF new
  <2> QED BY <1>1, <1>2, <2>1, <2>2
<1>3. CASE MayPutPoint(before, uid, header) /\ after = PutPoint(before, uid, p, header)
  <2> DEFINE old == CHOOSE q \in before : q.uid = uid
             new == [uid |-> uid, name |-> p.name, val |-> p.val,
                     secret |-> IF p.secret = Redacted THEN old.secret ELSE p.secret,
                     prov |-> Stamp(header)]
  <2>1. after = (before \ {old}) \cup {new} /\ new.uid = uid
      BY <1>3 DEF PutPoint
  <2>2. EqualPoints(p, new)
      BY DEF EqualPoints
  <2>3. old \in before /\ old.uid = uid
      BY <1>3 DEF MayPutPoint
  <2> HIDE DEF old, new
  <2>4. \A q \in before \ {old} : q.uid # uid
      BY <1>0, <2>3
  <2> QED BY <1>1, <2>1, <2>2, <2>3, <2>4
<1> QED BY <1>2, <1>3

IsAdded(q) == q \in remote.points \/ \E i \in DOMAIN local.points : q.uid = Target(local.points[i])
Untouched(p) ==
    \A q \in points \cup remote.points : q.uid = Target(p) => (q \in points <=> q \in remote.points)
IsThere(p) == \E q \in points : q.uid = Target(p) /\ EqualPoints(p, q)

\* What is still to be written is as it was fetched, and what was applied is there.
PointsInv ==
    /\ UidsApart(points)
    /\ Early => NamesApart(local, points)
    /\ phase \in {"fetchTree", "plan"} => remote.points = points /\ ~Scoped
    /\ ~Scoped /\ plan # {} =>
          /\ UidsApart(remote.points) /\ NamesApart(local, remote.points)
          /\ \A q \in points : IsAdded(q)
          /\ \A i \in DOMAIN local.points : \A c \in plan :
                c.kind = "ContactPoint" /\ c.id = PointID(local.points[i]) =>
                   /\ c \in todo => Untouched(local.points[i])
                   /\ c \in applied /\ ~options.dryRun => IsThere(local.points[i])

\* The same for what does not change.
LEMMA SameTargets ==
    ASSUME UNCHANGED <<local, options, remote>>
    PROVE  /\ \A p : Target(p)' = Target(p)
           /\ Scoped' = Scoped
           /\ NamesApart(local, remote.points)' = NamesApart(local, remote.points)
           /\ UidsApart(remote.points)' = UidsApart(remote.points)
           /\ points' = points =>
                 /\ \A p : Untouched(p)' = Untouched(p) /\ IsThere(p)' = IsThere(p) /\ IsAdded(p)' = IsAdded(p)
                 /\ NamesApart(local, points)' = NamesApart(local, points)
                 /\ UidsApart(points)' = UidsApart(points)
<1>1. \A p : Target(p)' = Target(p)
    BY DEF Target, Matches, PointID, FoundUid
<1>2. /\ Scoped' = Scoped
      /\ NamesApart(local, remote.points)' = NamesApart(local, remote.points)
      /\ UidsApart(remote.points)' = UidsApart(remote.points)
    BY DEF Scoped, NamesApart, UidsApart
<1>3. ASSUME points' = points
      PROVE  /\ \A p : Untouched(p)' = Untouched(p) /\ IsThere(p)' = IsThere(p) /\ IsAdded(p)' = IsAdded(p)
             /\ NamesApart(local, points)' = NamesApart(local, points)
             /\ UidsApart(points)' = UidsApart(points)
  <2>1. ASSUME NEW p
        PROVE  /\ Untouched(p)' = Untouched(p) /\ IsThere(p)' = IsThere(p) /\ IsAdded(p)' = IsAdded(p)
      BY <1>1, <1>3 DEF Untouched, IsThere, IsAdded
  <2>2. NamesApart(local, points)' = NamesApart(local, points) /\ UidsApart(points)' = UidsApart(points)
      BY <1>3 DEF NamesApart, UidsApart
  <2> QED BY <2>1, <2>2
<1> QED BY <1>1, <1>2, <1>3

\* A write of the contact point n of the bundle.
LEMMA PointWrite ==
    ASSUME IInv, PlanIs, PointsInv, Writing, ~Scoped, NEW c, NEW err, PointWritten(c, err)
    PROVE  \E n \in DOMAIN local.points :
              /\ c.id = PointID(local.points[n]) /\ c \in todo /\ c \in plan /\ c.kind = "ContactPoint"
              /\ PointsKnown
              /\ \/ points' = points /\ (err = "nil" => options.dryRun)
                 \/ /\ UidsApart(points') /\ Rewrites(points, points', Target(local.points[n]))
                    /\ \E q \in points' : /\ q.uid = Target(local.points[n])
                                          /\ EqualPoints(local.points[n], q)
<1>1. IsBundle(local, DOMAIN groups) /\ (\A d \in todo : d \in Plan(Pushed, remote)) /\ todo \subseteq plan
    BY WritingHas
<1>2. c \in TodoOf("ContactPoint") /\ c \in todo /\ c \in plan /\ c.kind = "ContactPoint" /\ c.id = PointID(NextPoint)
    BY <1>1 DEF PointWritten, TodoOf
<1>3. PICK n \in DOMAIN local.points : NextPoint = local.points[n]
    BY <1>1, <1>2, NextPointIs
<1>4. PICK p : p = local.points[n]
    OBVIOUS
<1>5. PointsKnown
    BY <1>2 DEF PointsKnown, PointsInv, PlanIs
<1>6. UidsApart(points) /\ Untouched(p)
    BY <1>2, <1>3, <1>4 DEF PointsInv
<1>7. PICK header : header = PointHeader(p)
    OBVIOUS
<1>8. CASE Matches(p, remote.points) = {} /\ points' = PostPoint(points, p, header)
  <2>1. Target(p) = PointID(p)[1] /\ \A q \in remote.points : q.uid # Target(p)
      BY <1>4, <1>5, <1>8, MatchIs
  <2>2. \A q \in points : q.uid # Target(p)
      BY <1>6, <2>1 DEF Untouched
  <2>3. PICK uid : uid = Target(p)
      OBVIOUS
  <2>4. PICK after : after = points'
      OBVIOUS
  <2>5. /\ UidsApart(after) /\ Rewrites(points, after, uid)
        /\ \E q \in after : q.uid = uid /\ EqualPoints(p, q)
      BY <1>6, <1>8, <2>1, <2>2, <2>3, <2>4, PointPut
  <2> QED BY <1>2, <1>3, <1>4, <1>5, <2>3, <2>4, <2>5
<1>9. CASE /\ Matches(p, remote.points) # {}
           /\ MayPutPoint(points, FoundUid(p), header)
           /\ points' = PutPoint(points, FoundUid(p), p, header)
  <2>1. Target(p) = FoundUid(p)
      BY <1>9 DEF Target
  <2>3. PICK uid : uid = Target(p)
      OBVIOUS
  <2>4. PICK after : after = points'
      OBVIOUS
  <2>5. /\ UidsApart(after) /\ Rewrites(points, after, uid)
        /\ \E q \in after : q.uid = uid /\ EqualPoints(p, q)
      BY <1>6, <1>9, <2>1, <2>3, <2>4, PointPut
  <2> QED BY <1>2, <1>3, <1>4, <1>5, <2>3, <2>4, <2>5
<1>10. CASE points' = points /\ (err = "nil" => options.dryRun)
    BY <1>2, <1>3, <1>5, <1>10
<1> QED BY <1>3, <1>4, <1>7, <1>8, <1>9, <1>10 DEF PointWritten

LEMMA PointsStep ==
    ASSUME IInv, PlanIs, PointsInv, [AlertNext]_vars
    PROVE  PointsInv'
<1>0. UNCHANGED <<local, options>>
    BY Frames DEF inputVars
<1>1. ASSUME UNCHANGED <<points, plan, remote>>, Early' => Early, phase' \in {"fetchTree", "plan"} => phase' = phase,
             todo' \subseteq todo, \A c \in applied' : c \in applied \/ c.kind # "ContactPoint"
      PROVE  PointsInv'
  <2>1. UidsApart(points)'
      BY <1>0, <1>1, SameTargets DEF PointsInv
  <2>2. (Early => NamesApart(local, points))'
      BY <1>0, <1>1, SameTargets DEF PointsInv
  <2>3. (phase \in {"fetchTree", "plan"} => remote.points = points /\ ~Scoped)'
      BY <1>0, <1>1, SameTargets DEF PointsInv
  <2>4. ~Scoped /\ plan # {} =>
           (UidsApart(remote.points) /\ NamesApart(local, remote.points) /\ \A q \in points : IsAdded(q))'
      BY <1>0, <1>1, SameTargets DEF PointsInv
  <2>5. ASSUME ~Scoped, plan # {}, NEW i \in DOMAIN local.points, NEW c \in plan,
               c.kind = "ContactPoint", c.id = PointID(local.points[i])
        PROVE  /\ c \in todo' => Untouched(local.points[i])'
               /\ c \in applied' /\ ~options.dryRun => IsThere(local.points[i])'
    <3>1. PICK p : p = local.points[i]
        OBVIOUS
    <3>2. (c \in todo => Untouched(p)) /\ (c \in applied /\ ~options.dryRun => IsThere(p))
        BY <2>5, <3>1 DEF PointsInv
    <3>3. Untouched(p)' = Untouched(p) /\ IsThere(p)' = IsThere(p)
        BY <1>0, <1>1, SameTargets
    <3>4. (Untouched(p)' <=> Untouched(local.points[i])') /\ (IsThere(p)' <=> IsThere(local.points[i])')
        BY <1>0, <3>1
    <3> QED BY <1>1, <2>5, <3>2, <3>3, <3>4
  <2> QED BY <1>0, <1>1, <2>1, <2>2, <2>3, <2>4, <2>5, SameTargets DEF PointsInv, PointID, Scoped
<1>2. CASE UNCHANGED <<pushVars, points>>
    BY <1>1, <1>2 DEF pushVars, Early
<1>3. CASE PushStep /\ Fetch /\ Early
  <2>1. UNCHANGED points /\ (Planned \/ Fetched)
      BY <1>3, FetchIs DEF grafanaVars
  <2>2. UidsApart(points) /\ NamesApart(local, points)
      BY <1>3 DEF PointsInv
  <2>3. UidsApart(points)' /\ NamesApart(local, points)'
      BY <1>0, <2>1, <2>2 DEF UidsApart, NamesApart
  <2>4. CASE Fetched
    <3>1. plan' = {} /\ (phase' \in {"fetchTree", "plan"} => remote'.points = points /\ ~Scoped)
        BY <2>4 DEF Fetched, PointsInv
    <3> QED BY <1>0, <2>1, <2>3, <3>1 DEF PointsInv, Scoped
  <2>5. CASE Planned
    <3>1. UNCHANGED remote /\ phase' = "points"
          /\ applied' = {c \in plan' : c.action = "Unchanged"} /\ plan' = Plan(Pushed, remote)
        BY <2>5 DEF Planned
    <3>2. CASE Scoped
        BY <1>0, <2>3, <3>1, <3>2 DEF PointsInv, Scoped
    <3>3. CASE ~Scoped
      <4>1. remote.points = points /\ PointsKnown
          BY <2>2, <2>5, <3>3 DEF Planned, PointsInv, PointsKnown
      <4>2. \A q \in points : IsAdded(q)
          BY <4>1 DEF IsAdded
      <4>3. \A p : Untouched(p)
          BY <4>1 DEF Untouched
      <4>4. ASSUME NEW i \in DOMAIN local.points, NEW c \in plan', c.kind = "ContactPoint",
                   c.id = PointID(local.points[i]), c.action = "Unchanged"
            PROVE  IsThere(local.points[i])
        <5>1. PICK j \in DOMAIN local.points : c = PlanPoint(local.points[j], remote.points)
            BY <3>1, <4>4, PlanHas
        <5>2. i = j
          <6>1. PointID(local.points[i]) = PointID(local.points[j])
              BY <4>4, <5>1 DEF PlanPoint
          <6> QED BY <6>1 DEF IInv, GrafanaInv, IsBundle
        <5>3. PICK p : p = local.points[i]
            OBVIOUS
        <5>4. Matches(p, remote.points) # {} /\ \A q \in Matches(p, remote.points) : EqualPoints(p, q)
            BY <4>4, <5>1, <5>2, <5>3 DEF PlanPoint, ActionFor
        <5>5. PICK only \in remote.points : Matches(p, remote.points) = {only} /\ Target(p) = only.uid
            BY <4>1, <5>3, <5>4, MatchIs
        <5>6. IsThere(p)
            BY <4>1, <5>4, <5>5 DEF IsThere
        <5> QED BY <5>3, <5>6
      <4>5. \A p : Untouched(p)' /\ (IsThere(p) => IsThere(p)')
          BY <1>0, <2>1, <3>1, <4>3, SameTargets
      <4>6. (\A q \in points : IsAdded(q))'
          BY <1>0, <2>1, <3>1, <4>2, SameTargets
      <4>7. UidsApart(remote.points)' /\ NamesApart(local, remote.points)'
          BY <1>0, <3>1, <4>1, SameTargets DEF PointsKnown
      <4>8. (\A i \in DOMAIN local.points : \A c \in plan :
                c.kind = "ContactPoint" /\ c.id = PointID(local.points[i]) =>
                   /\ c \in todo => Untouched(local.points[i])
                   /\ c \in applied /\ ~options.dryRun => IsThere(local.points[i]))'
        <5>1. SUFFICES ASSUME NEW i \in DOMAIN local.points, NEW c \in plan',
                              c.kind = "ContactPoint", c.id = PointID(local.points[i])
                       PROVE  /\ c \in todo' => Untouched(local.points[i])'
                              /\ c \in applied' /\ ~options.dryRun => IsThere(local.points[i])'
            BY <1>0 DEF PointID
        <5>2. PICK p : p = local.points[i]
            OBVIOUS
        <5>3. c \in applied' => IsThere(p)
            BY <3>1, <4>4, <5>1, <5>2
        <5>4. (Untouched(p)' <=> Untouched(local.points[i])') /\ (IsThere(p)' <=> IsThere(local.points[i])')
            BY <1>0, <5>2
        <5> QED BY <4>5, <5>3, <5>4
      <4> QED BY <2>3, <3>1, <4>6, <4>7, <4>8 DEF PointsInv, Early
    <3> QED BY <3>2, <3>3
  <2> QED BY <2>1, <2>4, <2>5
<1>4. ASSUME Writing, ~Scoped, NEW c, NEW err, PointWritten(c, err)
      PROVE  PointsInv'
  <2>1. PICK n \in DOMAIN local.points :
           /\ c.id = PointID(local.points[n]) /\ c \in todo /\ c \in plan /\ c.kind = "ContactPoint"
           /\ PointsKnown
           /\ \/ points' = points /\ (err = "nil" => options.dryRun)
              \/ /\ UidsApart(points') /\ Rewrites(points, points', Target(local.points[n]))
                 /\ \E q \in points' : /\ q.uid = Target(local.points[n])
                                       /\ EqualPoints(local.points[n], q)
      BY <1>4, PointWrite
  <2>2. /\ UNCHANGED <<plan, remote>> /\ phase = "points" /\ phase' \in {"points", "done"}
        /\ todo' = todo \ {c} /\ applied' = IF err = "nil" THEN applied \cup {c} ELSE applied
      BY <1>4 DEF PointWritten, Recorded, WriteUnchanged
  <2>3. /\ IsBundle(local, DOMAIN groups) /\ \A d \in plan : d \in Plan(Pushed, remote)
        /\ c \notin applied
      BY <1>4, <2>1, WritingHas DEF IInv, PlanInv
  <2>4. /\ UidsApart(points')
        /\ points' = points \/ Rewrites(points, points', Target(local.points[n]))
      BY <2>1 DEF PointsInv
  <2>5. (\A q \in points : IsAdded(q))'
    <3> SUFFICES ASSUME NEW q \in points' PROVE IsAdded(q)'
        OBVIOUS
    <3>1. q \in points \/ q.uid = Target(local.points[n])
        BY <2>4 DEF Rewrites
    <3>2. \A p \in points : IsAdded(p)
        BY <1>4, <2>1 DEF PointsInv
    <3>3. IsAdded(q)
        BY <3>1, <3>2 DEF IsAdded
    <3>4. \A p : Target(p)' = Target(p)
        BY <1>0, <2>2, SameTargets
    <3> QED BY <1>0, <2>2, <3>3, <3>4 DEF IsAdded
  <2>6. ASSUME NEW i \in DOMAIN local.points, NEW d \in plan,
               d.kind = "ContactPoint", d.id = PointID(local.points[i]), NEW p, p = local.points[i]
        PROVE  (d \in todo' => Untouched(p)') /\ (d \in applied' /\ ~options.dryRun => IsThere(p)')
    <3>0. Target(p)' = Target(p)
        BY <1>0, <2>2, SameTargets
    <3>1. CASE i = n
      <4>1. d = c
          BY <2>1, <2>3, <2>6, <3>1, PlanApart DEF IInv
      <4>2. d \in applied' /\ ~options.dryRun => \E q \in points' : q.uid = Target(p) /\ EqualPoints(p, q)
          BY <2>1, <2>2, <2>3, <2>6, <3>1, <4>1
      <4> QED BY <2>2, <3>0, <4>1, <4>2 DEF IsThere
    <3>2. CASE i # n
      <4>1. d # c
        <5>1. PointID(local.points[i]) # PointID(local.points[n])
            BY <2>3, <3>2 DEF IsBundle
        <5> QED BY <2>1, <2>6, <5>1
      <4>2. Target(p) # Target(local.points[n])
          BY <2>1, <2>3, <2>6, <3>2, TargetsApart
      <4>3. \A q : q.uid = Target(p) => (q \in points' <=> q \in points)
          BY <2>4, <4>2 DEF Rewrites
      <4>4. (d \in todo => Untouched(p)) /\ (d \in applied /\ ~options.dryRun => IsThere(p))
          BY <1>4, <2>6 DEF PointsInv
      <4>5. d \in todo' => Untouched(p)'
          BY <2>2, <3>0, <4>3, <4>4 DEF Untouched
      <4>6. d \in applied' /\ ~options.dryRun => IsThere(p)'
          BY <2>2, <3>0, <4>1, <4>3, <4>4 DEF IsThere
      <4> QED BY <4>5, <4>6
    <3> QED BY <3>1, <3>2
  <2>7. (\A i \in DOMAIN local.points : \A d \in plan :
            d.kind = "ContactPoint" /\ d.id = PointID(local.points[i]) =>
               /\ d \in todo => Untouched(local.points[i])
               /\ d \in applied /\ ~options.dryRun => IsThere(local.points[i]))'
    <3>1. SUFFICES ASSUME NEW i \in DOMAIN local.points, NEW d \in plan,
                          d.kind = "ContactPoint", d.id = PointID(local.points[i])
                   PROVE  /\ d \in todo' => Untouched(local.points[i])'
                          /\ d \in applied' /\ ~options.dryRun => IsThere(local.points[i])'
        BY <1>0, <2>2 DEF PointID
    <3>2. PICK p : p = local.points[i]
        OBVIOUS
    <3>3. (Untouched(p)' <=> Untouched(local.points[i])') /\ (IsThere(p)' <=> IsThere(local.points[i])')
        BY <1>0, <3>2
    <3> QED BY <2>6, <3>1, <3>2, <3>3
  <2>8. UidsApart(points)' /\ UidsApart(remote.points)' /\ NamesApart(local, remote.points)'
    <3>1. UidsApart(remote.points) /\ NamesApart(local, remote.points)
        BY <2>1 DEF PointsKnown
    <3> QED BY <1>0, <2>2, <2>4, <3>1, SameTargets DEF UidsApart
  <2> QED BY <2>2, <2>5, <2>7, <2>8 DEF PointsInv, Early
<1>5. CASE PushStep /\ ~(Fetch /\ Early)
  <2>1. UNCHANGED <<plan, remote>>
      BY <1>5, PlanStays
  <2>2. CASE /\ Writing /\ UNCHANGED points /\ todo' \subseteq todo
             /\ \A c \in applied' : c \in applied \/ c.kind # "ContactPoint"
             /\ phase' \in {"points", "tree", "folders", "blocked", "groups", "done"}
      BY <1>1, <2>1, <2>2 DEF Early
  <2>3. ASSUME Writing, NEW c \in TodoOf("ContactPoint"), NEW err \in WriteErrors, PointWritten(c, err)
        PROVE  PointsInv'
    <3>1. ~Scoped
        BY <2>3, WritingHas, ScopedPlan DEF TodoOf
    <3> QED BY <1>4, <2>3, <3>1
  <2>4. ASSUME Writing, NEW c \in TodoOf("PolicyTree"), NEW err \in WriteErrors, TreeWritten(c, err)
        PROVE  PointsInv'
      BY <2>2, <2>4 DEF TreeWritten, Recorded, TodoOf
  <2>5. ASSUME Writing, NEW c \in TodoOf("RuleGroup"), GroupBlocked(c)
        PROVE  PointsInv'
      BY <2>2, <2>5 DEF GroupBlocked, Recorded, TodoOf
  <2>6. ASSUME Writing, NEW g \in NextGroups, NEW c \in TodoOf("RuleGroup"), NEW err \in WriteErrors,
               GroupWritten(g, c, err)
        PROVE  PointsInv'
      BY <2>2, <2>6 DEF GroupWritten, Recorded, TodoOf
  <2>7. CASE Writing /\ Between
      BY <2>2, <2>7 DEF Between, grafanaVars
  <2> QED BY <1>5, <2>3, <2>4, <2>5, <2>6, <2>7, PushWrites
<1> QED BY <1>2, <1>3, <1>5, Frames

-----------------------------------------------------------------------------
(* Rule groups                                                             *)

LEMMA MovesSame ==
    ASSUME NEW bundle, NEW g, NEW old, NEW new, MovesFreely(bundle, g, old),
           \A r \in RuleSet(new) : \E q \in RuleSet(old) : q.uid = r.uid /\ q.prov = r.prov
    PROVE  MovesFreely(bundle, g, new)
BY DEF MovesFreely

LEMMA MovesWithout ==
    ASSUME NEW bundle, NEW g, NEW group \in GrafanaGroup, MovesFreely(bundle, g, group.rules), NEW uids
    PROVE  MovesFreely(bundle, g, Without(group, uids).rules)
<1>1. RuleSet(Without(group, uids).rules) \subseteq RuleSet(group.rules)
    BY WithoutIs DEF RuleSet
<1> QED BY <1>1, MovesSame

\* A group of the bundle has no rule of another.
LEMMA MovesNone ==
    ASSUME NEW bundle, NEW ids, IsBundle(bundle, ids), NEW n \in DOMAIN bundle.groups, NEW header,
           NEW left, Leaves(bundle.groups[n].rules, header, left)
    PROVE  MovesFreely(bundle, bundle.groups[n].id, left)
<1>1. SUFFICES ASSUME NEW m \in DOMAIN bundle.groups, NEW i \in DOMAIN left, NEW q \in RuleSet(bundle.groups[m].rules),
                      q.uid # NoUid, q.uid = left[i].uid
               PROVE  m = n
  <2>1. ASSUME NEW h \in Elements(bundle.groups), NEW r \in RuleSet(left), h.id # bundle.groups[n].id,
               r.uid \in Uids(h.rules)
        PROVE  FALSE
    <3>1. PICK m \in DOMAIN bundle.groups : h = bundle.groups[m]
        BY DEF Elements
    <3>2. PICK i \in DOMAIN left : r = left[i]
        BY DEF RuleSet
    <3>3. PICK q \in RuleSet(h.rules) : q.uid = r.uid /\ q.uid # NoUid
        BY <2>1 DEF Uids
    <3>4. m = n
        BY <1>1, <3>1, <3>2, <3>3
    <3> QED BY <2>1, <3>1, <3>4
  <2> QED BY <2>1 DEF MovesFreely
<1>2. PICK j \in DOMAIN bundle.groups[m].rules : q = bundle.groups[m].rules[j]
    BY DEF RuleSet
<1>3. /\ bundle.groups[m].rules[j] \in BundleRule
      /\ i \in DOMAIN bundle.groups[n].rules /\ bundle.groups[n].rules[i] \in BundleRule
      /\ left[i] = Stored(bundle.groups[n].rules[i], header)
  <2>1. bundle.groups[m].rules \in Seq(BundleRule) /\ bundle.groups[n].rules \in Seq(BundleRule)
      BY BundleRules
  <2> QED BY <2>1 DEF Leaves
<1>4. Stored(bundle.groups[m].rules[j], "omit").uid = Stored(bundle.groups[n].rules[i], "omit").uid
    BY <1>1, <1>2, <1>3, StoredIs
<1> QED BY <1>4, <1>3 DEF IsBundle

MovesInv ==
    ~Scoped =>
        /\ \A g \in DOMAIN groups : MovesFreely(local, g, groups[g].rules)
        /\ step = "put" => MovesFreely(local, O!Ref, body.rules)

LEMMA MovesKept ==
    ASSUME IInv, MovesInv, ~Scoped, [AlertNext]_vars
    PROVE  \A g \in DOMAIN groups : MovesFreely(local, g, groups'[g].rules)
<1>0. /\ \A g \in DOMAIN groups : MovesFreely(local, g, groups[g].rules) /\ groups[g] \in GrafanaGroup
      /\ step = "put" => MovesFreely(local, O!Ref, body.rules)
      /\ IsGrafana(groups, local) /\ IsBundle(local, DOMAIN groups)
    BY DEF MovesInv, IInv, GrafanaInv, IsGrafana, HeldIn
<1>1. CASE groups' = groups
    BY <1>0, <1>1
<1>2. CASE PushRuleGroup
  <2>1. PICK g \in NextGroups, c \in TodoOf("RuleGroup"), err \in WriteErrors : GroupWritten(g, c, err)
      BY <1>2, GroupWrites
  <2>2. PICK n \in DOMAIN local.groups : g = local.groups[n]
      BY NextGroupIs DEF Pushed
  <2>3. PICK header : header = GroupHeader(g)
      OBVIOUS
  <2>4. CASE groups' = PutGroup(groups, g.id, g, header)
    <3>1. g.id \in DOMAIN groups /\ Fits(local, g.id, g)
        BY <2>1, WrittenFits DEF GroupWritten
    <3>2. /\ groups'[g.id] \in GrafanaGroup /\ DOMAIN groups'[g.id].rules = DOMAIN g.rules
          /\ \A i \in DOMAIN g.rules : groups'[g.id].rules[i] = Stored(g.rules[i], header)
          /\ \A h \in DOMAIN groups \ {g.id} : groups'[h] = Without(groups[h], Uids(g.rules))
        BY <2>4, <3>1, PutIs DEF Fits
    <3>3. MovesFreely(local, g.id, groups'[g.id].rules)
      <4>1. PICK left : left = groups'[g.id].rules
          OBVIOUS
      <4>2. Leaves(local.groups[n].rules, header, left)
          BY <2>2, <3>2, <4>1 DEF Leaves, GrafanaGroup
      <4> QED BY <1>0, <2>2, <4>1, <4>2, MovesNone
    <3>4. \A h \in DOMAIN groups \ {g.id} : MovesFreely(local, h, groups'[h].rules)
        BY <1>0, <3>2, MovesWithout
    <3> QED BY <3>3, <3>4
  <2> QED BY <1>1, <2>1, <2>3, <2>4 DEF GroupWritten
<1>3. ASSUME NEW uid, groups' = DeleteRule(groups, uid)
      PROVE  \A g \in DOMAIN groups : MovesFreely(local, g, groups'[g].rules)
  <2>1. \A g \in DOMAIN groups : groups'[g] = Without(groups[g], {uid})
      BY <1>3 DEF DeleteRule
  <2> QED BY <1>0, <2>1, MovesWithout
<1>4. CASE O!DeleteNamedRule
    BY <1>1, <1>3, <1>4, DeleteNamedIs
<1>5. CASE O!PutBatch
  <2>1. step = "put"
      BY <1>5 DEF O!PutBatch
  <2>2. PICK id : id = O!Ref
      OBVIOUS
  <2>3. PICK f : f = O!Flipped(body)
      OBVIOUS
  <2>4. PICK header : header = GroupProvenanceHeader(body.rules)
      OBVIOUS
  <2>5. id \in DOMAIN groups /\ HeldIn(local, id, body) /\ header # "refused"
      BY <2>1, <2>2, <2>4, RefIs DEF IInv, OpInv
  <2>6. /\ f.interval \in Nat /\ f.rules \in Seq(BundleRule) /\ DOMAIN f.rules = DOMAIN body.rules
        /\ \A i \in DOMAIN body.rules : f.rules[i].uid = body.rules[i].uid /\ f.rules[i] \in BundleRule
      BY <2>3, <2>5, FlippedIs
  <2>7. \A i \in DOMAIN body.rules : body.rules[i].uid # NoUid /\ Stamp(header) = body.rules[i].prov
    <3>1. body.rules \in Seq(GrafanaRule)
        BY <2>5 DEF HeldIn, GrafanaGroup
    <3>2. \A i \in DOMAIN body.rules : body.rules[i] \in GrafanaRule /\ body.rules[i] \in RuleSet(body.rules)
        BY <3>1 DEF RuleSet
    <3>3. \A r \in RuleSet(body.rules) : Stamp(header) = r.prov
        BY <2>4, <2>5, <3>1, HeaderKeeps
    <3> QED BY <3>2, <3>3 DEF GrafanaRule
  <2>8. CASE groups' = PutGroup(groups, id, f, header)
    <3>1. /\ DOMAIN groups'[id].rules = DOMAIN f.rules
          /\ \A i \in DOMAIN f.rules : groups'[id].rules[i] = Stored(f.rules[i], header)
          /\ \A h \in DOMAIN groups \ {id} : groups'[h] = Without(groups[h], Uids(f.rules))
        BY <2>5, <2>6, <2>8, PutIs
    <3>2. ASSUME NEW i \in DOMAIN body.rules
          PROVE  groups'[id].rules[i].uid = body.rules[i].uid /\ groups'[id].rules[i].prov = body.rules[i].prov
      <4>1. Stored(f.rules[i], header).uid = body.rules[i].uid /\ Stored(f.rules[i], header).prov = Stamp(header)
          BY <2>6, <2>7, StoredIs
      <4> QED BY <2>6, <2>7, <3>1, <4>1
    <3>3. \A r \in RuleSet(groups'[id].rules) : \E q \in RuleSet(body.rules) : q.uid = r.uid /\ q.prov = r.prov
        BY <2>6, <3>1, <3>2 DEF RuleSet
    <3>4. MovesFreely(local, id, groups'[id].rules)
      <4>1. PICK left : left = groups'[id].rules
          OBVIOUS
      <4>2. MovesFreely(local, id, body.rules)
          BY <1>0, <2>1, <2>2
      <4>3. \A r \in RuleSet(left) : \E q \in RuleSet(body.rules) : q.uid = r.uid /\ q.prov = r.prov
          BY <3>3, <4>1
      <4> QED BY <4>1, <4>2, <4>3, MovesSame
    <3>5. \A h \in DOMAIN groups \ {id} : MovesFreely(local, h, groups'[h].rules)
        BY <1>0, <3>1, MovesWithout
    <3> QED BY <3>4, <3>5
  <2> QED BY <1>1, <1>5, <2>2, <2>3, <2>4, <2>8, PutBatchIs
<1>6. CASE Edit
  <2>1. PICK g \in DOMAIN groups :
          \/ \E i \in DOMAIN groups[g].rules : groups' = [groups EXCEPT ![g].rules[i].val = 9]
          \/ \E r \in RuleSet(groups[g].rules) : groups' = DeleteRule(groups, r.uid)
      BY <1>6 DEF Edit
  <2>2. ASSUME NEW i \in DOMAIN groups[g].rules, groups' = [groups EXCEPT ![g].rules[i].val = 9]
        PROVE  \A h \in DOMAIN groups : MovesFreely(local, h, groups'[h].rules)
    <3>1. \A h \in DOMAIN groups : \A k \in DOMAIN groups'[h].rules :
             /\ k \in DOMAIN groups[h].rules /\ groups'[h].rules[k].uid = groups[h].rules[k].uid
             /\ groups'[h].rules[k].prov = groups[h].rules[k].prov
        BY <1>0, <2>2, EditIs
    <3>2. ASSUME NEW h \in DOMAIN groups PROVE MovesFreely(local, h, groups'[h].rules)
      <4>1. PICK left : left = groups'[h].rules
          OBVIOUS
      <4>2. \A r \in RuleSet(left) : \E q \in RuleSet(groups[h].rules) : q.uid = r.uid /\ q.prov = r.prov
          BY <3>1, <4>1 DEF RuleSet
      <4> QED BY <1>0, <4>1, <4>2, MovesSame
    <3> QED BY <3>2
  <2> QED BY <1>3, <2>1, <2>2
<1> QED BY <1>1, <1>2, <1>4, <1>5, <1>6, GroupSteps

LEMMA MovesStep ==
    ASSUME IInv, MovesInv, [AlertNext]_vars
    PROVE  MovesInv'
<1>0. local' = local /\ DOMAIN groups' = DOMAIN groups /\ Scoped' = Scoped
    BY Frames, GroupsKept DEF inputVars, Scoped
<1>1. ASSUME ~Scoped PROVE (\A g \in DOMAIN groups : MovesFreely(local, g, groups[g].rules))'
  <2>1. \A g \in DOMAIN groups : MovesFreely(local, g, groups'[g].rules)
      BY <1>1, MovesKept
  <2> QED BY <1>0, <2>1
<1>2. ASSUME ~Scoped, step' = "put" PROVE MovesFreely(local, O!Ref, body.rules)'
  <2>1. CASE UNCHANGED opVars
    <3>1. step = "put" /\ body' = body /\ O!Ref' = O!Ref
        BY <1>2, <2>1 DEF opVars, O!Ref
    <3> QED BY <1>0, <1>2, <3>1 DEF MovesInv
  <2>2. CASE OpStep
    <3>1. body' = groups[O!Ref] /\ rules # <<>> /\ O!Ref' = O!Ref
        BY <1>2, <2>2, PutStarts DEF OpStep, O!Ref
    <3>2. O!Ref \in DOMAIN groups
        BY <3>1, RefIs DEF IInv
    <3>3. MovesFreely(local, O!Ref, body'.rules)
        BY <1>2, <3>1, <3>2 DEF MovesInv
    <3> QED BY <1>0, <3>1, <3>3
  <2> QED BY <2>1, <2>2, Frames
<1> QED BY <1>0, <1>1, <1>2 DEF MovesInv

Placed(id) ==
    groups[id].interval = Group(id).interval /\ Sent(groups[id].rules) = Sent(Group(id).rules)

\* What Grafana stores of rules is what they say.
LEMMA SentStored ==
    ASSUME NEW ours \in Seq(BundleRule), NEW header, NEW left, Leaves(ours, header, left)
    PROVE  Sent(left) = Sent(ours)
<1>1. ASSUME NEW i \in DOMAIN ours
      PROVE  Content(Stored(left[i], "omit")) = Content(Stored(ours[i], "omit"))
  <2>1. ours[i] \in BundleRule /\ left[i] = Stored(ours[i], header)
      BY DEF Leaves
  <2>2. left[i] \in GrafanaRule
      BY <2>1, StoredIs
  <2>3. left[i] \in BundleRule /\ left[i].uid # NoUid
      BY <2>2, GrafanaInBundle DEF GrafanaRule
  <2>4. /\ Stored(left[i], "omit").uid = left[i].uid /\ Stored(left[i], "omit").title = left[i].title
        /\ Stored(left[i], "omit").val = left[i].val /\ Stored(left[i], "omit").paused = left[i].paused
      BY <2>3, StoredIs
  <2>5. /\ Stored(ours[i], "omit").uid = left[i].uid /\ Stored(ours[i], "omit").title = left[i].title
        /\ Stored(ours[i], "omit").val = left[i].val /\ Stored(ours[i], "omit").paused = left[i].paused
      BY <2>1, StoredIs
  <2> QED BY <2>4, <2>5 DEF Content
<1>2. DOMAIN left = DOMAIN ours
    BY DEF Leaves
<1> QED BY <1>1, <1>2 DEF Sent

\* A group of the plan is one of the groups that are pushed.
LEMMA PlannedGroup ==
    ASSUME IInv, PlanIs, NEW c \in plan, c.kind = "RuleGroup"
    PROVE  \E n \in DOMAIN Pushed.groups :
              /\ c.id = Pushed.groups[n].id /\ Group(c.id) = Pushed.groups[n]
              /\ c = PlanGroup(Pushed.groups[n], remote.groups[c.id])
              /\ c.id \in DOMAIN groups /\ c.id \in DOMAIN remote.groups
              /\ HeldIn(local, c.id, remote.groups[c.id])
<1>1. PICK n \in DOMAIN Pushed.groups :
         c = PlanGroup(Pushed.groups[n], remote.groups[Pushed.groups[n].id])
    BY PlanHas DEF IInv, PlanInv
<1>2. PICK g : g = Pushed.groups[n]
    OBVIOUS
<1>3. c.id = g.id
    BY <1>1, <1>2 DEF PlanGroup
<1>4. Group(g.id) = g
  <2>1. \A h \in Elements(Pushed.groups) : h.id = g.id => h = g
      BY <1>2, LocalApart DEF Elements, IInv
  <2>2. g \in Elements(Pushed.groups)
      BY <1>2 DEF Elements
  <2> QED BY <2>1, <2>2 DEF Group
<1>5. refs \subseteq DOMAIN remote.groups /\ refs \subseteq DOMAIN groups /\ phase # "start"
    BY DEF IInv, FetchedInv, TypeOK, PlanInv, Early
<1>6. g.id \in refs
  <2>1. CASE Scoped
      BY <1>2, <2>1, ScopedGroups DEF IInv
  <2>2. CASE ~Scoped
    <3>1. g \in Elements(local.groups)
        BY <1>2, <2>2 DEF Pushed, Elements
    <3> QED BY <1>5, <2>2, <3>1 DEF IInv, FetchedInv
  <2> QED BY <2>1, <2>2
<1>7. HeldIn(local, g.id, remote.groups[g.id])
    BY <1>5, <1>6 DEF IInv, FetchedInv
<1> QED BY <1>1, <1>2, <1>3, <1>4, <1>5, <1>6, <1>7

AllHeld(bundle, uids) == \A uid \in uids : Holders(bundle, uid) # {}

LEMMA SyntheticRules ==
    ASSUME NEW bundle, NEW ids, IsBundle(bundle, ids), NEW id, NEW held, HeldIn(bundle, id, held),
           NEW uids, AllHeld(bundle, uids),
           NEW g, g = SyntheticGroup(id, held, bundle, uids)
    PROVE  /\ g.interval \in Nat /\ g.rules \in Seq(BundleRule)
           /\ DOMAIN g.rules = DOMAIN held.rules
           /\ \A i \in DOMAIN held.rules : g.rules[i].uid = held.rules[i].uid
BY SyntheticIs DEF AllHeld

\* A group of a push of named rules.
LEMMA ScopedRules ==
    ASSUME IInv, PlanIs, Scoped, NEW c \in plan, c.kind = "RuleGroup", NEW g, g = Group(c.id),
           NEW held, held = remote.groups[c.id]
    PROVE  /\ g.rules \in Seq(BundleRule) /\ g.interval \in Nat
           /\ DOMAIN g.rules = DOMAIN held.rules /\ held.rules # <<>> /\ g.rules # <<>>
           /\ \A i \in DOMAIN g.rules : g.rules[i].uid = held.rules[i].uid /\ g.rules[i].uid # NoUid
<1>1. PICK n \in DOMAIN Pushed.groups :
         /\ c.id = Pushed.groups[n].id /\ g = Pushed.groups[n]
         /\ c = PlanGroup(g, held) /\ HeldIn(local, c.id, held)
    BY PlannedGroup
<1>2. PICK id : id = c.id
    OBVIOUS
<1>3. g = SyntheticGroup(id, held, local, options.ruleUIDs)
    BY <1>1, <1>2, ScopedGroups DEF IInv
<1>4. \A uid \in options.ruleUIDs : Holders(local, uid) # {}
    BY DEF PlanIs
<1>5. IsBundle(local, DOMAIN groups)
    BY DEF IInv, GrafanaInv
<1>6. /\ g.interval \in Nat /\ g.rules \in Seq(BundleRule)
      /\ DOMAIN g.rules = DOMAIN held.rules
      /\ \A i \in DOMAIN held.rules : g.rules[i].uid = held.rules[i].uid
  <2>1. PICK h, s : h = held /\ s = g
      OBVIOUS
  <2>2. PICK bundle, ids, uids : bundle = local /\ ids = DOMAIN groups /\ uids = options.ruleUIDs
      OBVIOUS
  <2>3. HeldIn(bundle, id, h) /\ s = SyntheticGroup(id, h, bundle, uids)
      BY <1>1, <1>2, <1>3, <2>1, <2>2
  <2>4. IsBundle(bundle, ids) /\ AllHeld(bundle, uids)
      BY <1>4, <1>5, <2>2 DEF AllHeld
  <2>5. /\ s.interval \in Nat /\ s.rules \in Seq(BundleRule)
        /\ DOMAIN s.rules = DOMAIN h.rules
        /\ \A i \in DOMAIN h.rules : s.rules[i].uid = h.rules[i].uid
      BY <2>3, <2>4, SyntheticRules
  <2> QED BY <2>1, <2>5
<1>7. held.rules # <<>>
  <2>1. c.action # "Create"
      BY DEF PlanIs
  <2>2. held # NoGroup
      BY <1>1, <2>1 DEF PlanGroup
  <2> QED BY <1>1, <2>2 DEF HeldIn
<1>8. held.rules \in Seq(GrafanaRule)
    BY <1>1 DEF HeldIn, GrafanaGroup
<1>9. \A i \in DOMAIN held.rules : held.rules[i] \in GrafanaRule
    BY <1>8
<1>10. g.rules # <<>>
  <2>1. Len(g.rules) = Len(held.rules)
      BY <1>6, <1>8
  <2> QED BY <1>6, <1>7, <1>8, <2>1
<1> QED BY <1>6, <1>7, <1>9, <1>10 DEF GrafanaRule

LEMMA GroupFull ==
    ASSUME IInv, ForeseenInv, PlanIs, BundlesAreFull, NEW c \in plan, c.kind = "RuleGroup"
    PROVE  /\ Group(c.id).rules \in Seq(BundleRule) /\ Group(c.id).rules # <<>>
           /\ Group(c.id).interval \in Nat
<1>1. CASE Scoped
    BY <1>1, ScopedRules
<1>2. CASE ~Scoped
  <2>1. PICK n \in DOMAIN Pushed.groups : Group(c.id) = Pushed.groups[n]
      BY PlannedGroup
  <2>2. n \in DOMAIN local.groups /\ Group(c.id) = local.groups[n] /\ Group(c.id) \in Elements(local.groups)
      BY <1>2, <2>1 DEF Pushed, Elements
  <2>3. Group(c.id).rules # <<>>
      BY <2>2 DEF ForeseenInv, BundlesAreFull
  <2>4. Fits(local, local.groups[n].id, local.groups[n])
      BY <2>2, BundleFits DEF IInv, GrafanaInv
  <2> QED BY <2>2, <2>3, <2>4 DEF Fits
<1> QED BY <1>1, <1>2

\* An unchanged group has in Grafana what it has in the bundle.
LEMMA UnchangedPlaced ==
    ASSUME IInv, ForeseenInv, PlanIs, BundlesAreFull, Writing, Unwritten, ~disturbed,
           NEW c \in plan, c.kind = "RuleGroup", c.action = "Unchanged"
    PROVE  Placed(c.id)
<1>1. PICK n \in DOMAIN Pushed.groups :
         /\ c.id = Pushed.groups[n].id /\ Group(c.id) = Pushed.groups[n]
         /\ c = PlanGroup(Pushed.groups[n], remote.groups[c.id])
    BY PlannedGroup
<1>2. PICK g : g = Pushed.groups[n]
    OBVIOUS
<1>3. PICK id : id = g.id
    OBVIOUS
<1>4. PICK held : held = remote.groups[id]
    OBVIOUS
<1>5. c.id = id /\ held # NoGroup /\ GroupDetail(g, held) = {}
    BY <1>1, <1>2, <1>3, <1>4 DEF PlanGroup, ActionFor
<1>6. /\ id \in DOMAIN groups /\ groups[id] = held /\ held \in GrafanaGroup
      /\ g.interval \in Nat /\ g.rules # <<>> /\ Meets(g.rules, held.rules)
    BY <1>2, <1>3, <1>4, <1>5, MeetsHeld
<1>7. g.rules \in Seq(BundleRule)
    BY <1>6 DEF Meets
<1>8. PICK put : put = PutGroup(groups, id, g, "omit")[id]
    OBVIOUS
<1>9. /\ put \in GrafanaGroup /\ put.interval = g.interval /\ DOMAIN put.rules = DOMAIN g.rules
      /\ \A i \in DOMAIN g.rules : put.rules[i] = Stored(g.rules[i], "omit")
    BY <1>6, <1>7, <1>8, PutIs
<1>10. Leaves(g.rules, "omit", put.rules)
    BY <1>9 DEF Leaves, GrafanaGroup
<1>11. SendsSame(put, held)
    BY <1>5, <1>6, <1>9, <1>10, NothingForGroup
<1>12. put.interval = held.interval /\ Sent(put.rules) = Sent(held.rules)
    BY <1>6, <1>9, <1>11 DEF SendsSame, GrafanaGroup
<1>13. Sent(put.rules) = Sent(g.rules)
    BY <1>7, <1>10, SentStored
<1> QED BY <1>1, <1>2, <1>3, <1>5, <1>6, <1>9, <1>12, <1>13 DEF Placed

\* A group that is to be written has no rule that it did not have when it was fetched; one
\* that is reported as applied is as in the bundle.
Left(id) == \A r \in RuleSet(groups[id].rules) : r \in RuleSet(remote.groups[id].rules)

GroupsInv ==
    /\ Writing /\ Unwritten => \A c \in applied : c.kind = "RuleGroup" => c.action = "Unchanged"
    /\ phase = "groups" /\ ~disturbed => \A c \in TodoOf("RuleGroup") : Left(c.id)
    /\ ~Unwritten /\ ~disturbed /\ ~options.dryRun =>
          \A c \in applied : c.kind = "RuleGroup" => Placed(c.id)

\* What is planned is still as it was fetched, until a group is written.
LEMMA StillHeld ==
    ASSUME IInv, ForeseenInv, PlanIs, Unwritten, ~disturbed, NEW c \in plan, c.kind = "RuleGroup"
    PROVE  groups[c.id] = remote.groups[c.id]
BY PlannedGroup DEF ForeseenInv

LEMMA SameGroups ==
    ASSUME UNCHANGED <<local, options, refs, remote, groups>>
    PROVE  \A id : Placed(id)' = Placed(id) /\ Left(id)' = Left(id)
<1>1. Pushed' = Pushed
    BY SamePushed
<1>2. \A id : Group(id)' = Group(id)
    BY <1>1 DEF Group
<1> QED BY <1>2 DEF Placed, Left

\* A rule of a group that is as in the bundle is in no other group of the bundle.
LEMMA PlacedApart ==
    ASSUME NEW bundle, NEW ids, IsBundle(bundle, ids),
           NEW m \in DOMAIN bundle.groups, NEW n \in DOMAIN bundle.groups, m # n,
           NEW held \in GrafanaGroup, Sent(held.rules) = Sent(bundle.groups[m].rules)
    PROVE  \A i \in DOMAIN held.rules : held.rules[i].uid \notin Uids(bundle.groups[n].rules)
<1> DEFINE ours == bundle.groups[m].rules
           others == bundle.groups[n].rules
<1>1. ours \in Seq(BundleRule) /\ others \in Seq(BundleRule) /\ held.rules \in Seq(GrafanaRule)
    BY BundleRules DEF GrafanaGroup
<1>2. DOMAIN held.rules = DOMAIN ours
  <2>1. DOMAIN Sent(held.rules) = DOMAIN Sent(ours)
      OBVIOUS
  <2> QED BY <2>1 DEF Sent
<1>3. SUFFICES ASSUME NEW i \in DOMAIN held.rules, NEW j \in DOMAIN others,
                      others[j].uid = held.rules[i].uid
               PROVE  FALSE
    BY DEF Uids, RuleSet
<1>4. held.rules[i] \in GrafanaRule /\ held.rules[i] \in BundleRule /\ ours[i] \in BundleRule
      /\ others[j] \in BundleRule
    BY <1>1, <1>2, <1>3, GrafanaInBundle
<1>5. held.rules[i].uid # NoUid
    BY <1>4 DEF GrafanaRule
<1>6. Stored(held.rules[i], "omit").uid = held.rules[i].uid
    BY <1>4, <1>5, StoredIs
<1>7. Stored(others[j], "omit").uid = held.rules[i].uid
    BY <1>3, <1>4, <1>5, StoredIs
<1>8. Content(Stored(held.rules[i], "omit")) = Content(Stored(ours[i], "omit"))
  <2>1. Sent(held.rules)[i] = Sent(ours)[i]
      OBVIOUS
  <2> QED BY <1>2, <2>1 DEF Sent
<1>9. Stored(held.rules[i], "omit").uid = Stored(ours[i], "omit").uid
    BY <1>8 DEF Content
<1> HIDE DEF ours, others
<1>10. Stored(ours[i], "omit").uid = Stored(others[j], "omit").uid
    BY <1>6, <1>7, <1>9
<1> QED BY <1>2, <1>10 DEF IsBundle, ours, others

LEMMA GroupsWritten ==
    ASSUME IInv, ForeseenInv, PlanIs, BundlesAreFull, GroupsInv, ~disturbed, [AlertNext]_vars,
           NEW g, NEW c, NEW err, GroupWritten(g, c, err)
    PROVE  /\ \A d \in todo' : d.kind = "RuleGroup" =>
                 \A r \in RuleSet(groups'[d.id].rules) : r \in RuleSet(remote.groups[d.id].rules)
           /\ ~options.dryRun => \A d \in applied' : d.kind = "RuleGroup" =>
                 /\ groups'[d.id].interval = Group(d.id).interval
                 /\ Sent(groups'[d.id].rules) = Sent(Group(d.id).rules)
<1>1. /\ phase = "groups" /\ c \in TodoOf("RuleGroup") /\ c \in todo /\ c.kind = "RuleGroup" /\ c.id = g.id
      /\ g \in NextGroups /\ todo' = todo \ {c}
      /\ applied' = IF err = "nil" THEN applied \cup {c} ELSE applied
    BY DEF GroupWritten, Recorded, TodoOf
<1>2. Writing /\ ~Unwritten
    BY <1>1 DEF Writing, Unwritten
<1>3. todo \subseteq plan /\ applied \subseteq plan /\ c \notin applied
      /\ (\A d \in plan : d \in Plan(Pushed, remote)) /\ GrafanaInv
    BY <1>1, <1>2 DEF IInv, PlanInv
<1>4. \A d \in plan : d.kind = "RuleGroup" /\ d # c => d.id # c.id
    BY <1>1, <1>3, PlanApart
<1>5. /\ \A d \in todo : d.kind = "RuleGroup" => Left(d.id)
      /\ ~options.dryRun => \A d \in applied : d.kind = "RuleGroup" => Placed(d.id)
    BY <1>1, <1>2 DEF GroupsInv, TodoOf
<1>6. CASE groups' = groups /\ (err = "nil" => options.dryRun)
    BY <1>1, <1>5, <1>6 DEF Left, Placed
<1>7. ASSUME GroupHeader(g) # "refused", groups' = PutGroup(groups, g.id, g, GroupHeader(g))
      PROVE  /\ \A d \in todo' : d.kind = "RuleGroup" =>
                   \A r \in RuleSet(groups'[d.id].rules) : r \in RuleSet(remote.groups[d.id].rules)
             /\ ~options.dryRun => \A d \in applied' : d.kind = "RuleGroup" =>
                   /\ groups'[d.id].interval = Group(d.id).interval
                   /\ Sent(groups'[d.id].rules) = Sent(Group(d.id).rules)
  <2>1. PICK n \in DOMAIN Pushed.groups :
           c.id = Pushed.groups[n].id /\ Group(c.id) = Pushed.groups[n] /\ c.id \in DOMAIN groups
      BY <1>1, <1>3, PlannedGroup
  <2>2. g = Pushed.groups[n] /\ g = Group(c.id)
    <3>1. PICK m \in DOMAIN Pushed.groups : g = Pushed.groups[m]
        BY <1>1, NextGroupIs
    <3> QED BY <1>1, <1>3, <2>1, <3>1, LocalApart
  <2>3. g.rules \in Seq(BundleRule) /\ g.rules # <<>> /\ g.interval \in Nat
      BY <1>1, <1>3, <2>2, GroupFull
  <2>4. PICK id, header : id = g.id /\ header = GroupHeader(g)
      OBVIOUS
  <2>5. id \in DOMAIN groups /\ id = c.id /\ groups' = PutGroup(groups, id, g, header)
      BY <1>1, <1>7, <2>1, <2>4
  <2>6. /\ groups'[id] \in GrafanaGroup /\ groups'[id].interval = g.interval
        /\ DOMAIN groups'[id].rules = DOMAIN g.rules
        /\ \A i \in DOMAIN g.rules : groups'[id].rules[i] = Stored(g.rules[i], header)
        /\ \A h \in DOMAIN groups \ {id} : groups'[h] = Without(groups[h], Uids(g.rules))
      BY <2>3, <2>5, PutIs
  <2>7. \A h \in DOMAIN groups : groups[h] \in GrafanaGroup /\ (groups[h].rules = <<>> => groups[h] = NoGroup)
      BY <1>3 DEF GrafanaInv, IsGrafana, HeldIn
  <2>8. Sent(groups'[id].rules) = Sent(g.rules)
    <3>1. PICK left : left = groups'[id].rules
        OBVIOUS
    <3>2. PICK ours : ours = g.rules
        OBVIOUS
    <3>3. Leaves(ours, header, left)
        BY <2>6, <3>1, <3>2 DEF Leaves, GrafanaGroup
    <3> QED BY <2>3, <3>1, <3>2, <3>3, SentStored
  <2>9. ASSUME NEW d \in todo', d.kind = "RuleGroup"
        PROVE  \A r \in RuleSet(groups'[d.id].rules) : r \in RuleSet(remote.groups[d.id].rules)
    <3>1. d \in plan /\ d # c /\ Left(d.id)
        BY <1>1, <1>3, <1>5, <2>9
    <3>2. d.id \in DOMAIN groups \ {id}
        BY <1>4, <2>5, <2>9, <3>1, PlannedGroup
    <3>3. RuleSet(groups'[d.id].rules) \subseteq RuleSet(groups[d.id].rules)
        BY <2>6, <2>7, <3>2, WithoutIs DEF RuleSet
    <3> QED BY <3>1, <3>3 DEF Left
  <2>10. ASSUME ~options.dryRun, NEW d \in applied', d.kind = "RuleGroup"
         PROVE  /\ groups'[d.id].interval = Group(d.id).interval
                /\ Sent(groups'[d.id].rules) = Sent(Group(d.id).rules)
    <3>1. CASE d = c
        BY <2>2, <2>5, <2>6, <2>8, <3>1
    <3>2. CASE d # c
      <4>1. d \in applied /\ d \in plan /\ Placed(d.id)
          BY <1>1, <1>3, <1>5, <2>10, <3>2
      <4>2. PICK m \in DOMAIN Pushed.groups :
               d.id = Pushed.groups[m].id /\ Group(d.id) = Pushed.groups[m] /\ d.id \in DOMAIN groups
          BY <2>10, <4>1, PlannedGroup
      <4>3. d.id # id
          BY <1>4, <2>5, <2>10, <3>2, <4>1
      <4>4. groups'[d.id] = groups[d.id]
        <5>1. CASE Scoped
          <6>1. \A h \in DOMAIN groups \ {g.id} : groups'[h] = groups[h]
              BY <5>1, ScopedWrite
          <6> QED BY <2>4, <4>2, <4>3, <6>1
        <5>2. CASE ~Scoped
          <6>1. Pushed = local /\ IsBundle(local, DOMAIN groups)
              BY <1>3, <5>2 DEF Pushed, GrafanaInv
          <6>2. PICK held : held = groups[d.id]
              OBVIOUS
          <6>3. /\ m \in DOMAIN local.groups /\ n \in DOMAIN local.groups /\ m # n
                /\ held \in GrafanaGroup /\ Sent(held.rules) = Sent(local.groups[m].rules)
              BY <2>1, <2>5, <2>7, <4>1, <4>2, <4>3, <6>1, <6>2 DEF Placed
          <6>4. \A i \in DOMAIN held.rules : held.rules[i].uid \notin Uids(local.groups[n].rules)
              BY <6>1, <6>3, PlacedApart
          <6>5. PICK uids : uids = Uids(g.rules)
              OBVIOUS
          <6>6. Without(held, uids) = held
              BY <2>2, <2>7, <4>2, <6>1, <6>2, <6>3, <6>4, <6>5, WithoutNone
          <6> QED BY <2>6, <4>2, <4>3, <6>2, <6>5, <6>6
        <5> QED BY <5>1, <5>2
      <4> QED BY <4>1, <4>4 DEF Placed
    <3> QED BY <3>1, <3>2
  <2> QED BY <2>9, <2>10
<1> QED BY <1>6, <1>7 DEF GroupWritten

LEMMA GroupsStep ==
    ASSUME IInv, ForeseenInv, PlanIs, BundlesAreFull, GroupsInv, [AlertNext]_vars
    PROVE  GroupsInv'
<1>0. UNCHANGED <<local, options>> /\ (~Unwritten => ~Unwritten')
    BY Frames, StaysWritten DEF inputVars
<1>1. ASSUME UNCHANGED <<refs, remote, groups>>, disturbed => disturbed', Writing, todo' \subseteq todo,
             \A c \in applied' : c \in applied \/ c.kind # "RuleGroup",
             phase' = "groups" => Writing'
      PROVE  GroupsInv'
  <2>1. \A id : Placed(id)' = Placed(id) /\ Left(id)' = Left(id)
      BY <1>0, <1>1, SameGroups
  <2>2. applied \subseteq plan /\ todo \subseteq plan
      BY <1>1 DEF IInv, PlanInv
  <2>3. Writing' /\ Unwritten' => \A c \in applied' : c.kind = "RuleGroup" => c.action = "Unchanged"
      BY <1>0, <1>1 DEF GroupsInv
  <2>4. ASSUME phase' = "groups", ~disturbed', NEW c \in todo', c.kind = "RuleGroup"
        PROVE  Left(c.id)
    <3>1. CASE Unwritten
      <4>1. groups[c.id] = remote.groups[c.id]
          BY <1>1, <2>2, <2>4, <3>1, StillHeld
      <4> QED BY <4>1 DEF Left
    <3>2. CASE ~Unwritten
      <4>1. phase = "groups"
          BY <1>1, <3>2 DEF Writing, Unwritten
      <4> QED BY <1>1, <2>4, <4>1 DEF GroupsInv, TodoOf
    <3> QED BY <3>1, <3>2
  <2>5. ASSUME ~disturbed', ~options.dryRun, NEW c \in applied', c.kind = "RuleGroup"
        PROVE  Placed(c.id)
    <3>1. c \in applied /\ c \in plan
        BY <1>1, <2>2, <2>5
    <3>2. CASE Unwritten
      <4>1. c.action = "Unchanged"
          BY <1>1, <2>5, <3>1, <3>2 DEF GroupsInv
      <4> QED BY <1>1, <2>5, <3>1, <3>2, <4>1, UnchangedPlaced
    <3>3. CASE ~Unwritten
        BY <1>1, <2>5, <3>1, <3>3 DEF GroupsInv
    <3> QED BY <3>2, <3>3
  <2> QED BY <1>0, <2>1, <2>3, <2>4, <2>5 DEF GroupsInv, TodoOf
<1>2. CASE UNCHANGED pushVars /\ (disturbed => disturbed') /\ (groups' = groups \/ phase = "start" \/ disturbed')
  <2>0. UNCHANGED <<phase, todo, applied, refs, remote>>
      BY <1>2 DEF pushVars
  <2>1. CASE Writing
    <3>1. CASE groups' = groups
        BY <1>1, <1>2, <2>0, <2>1, <3>1 DEF Writing
    <3>2. CASE disturbed'
        BY <2>0, <3>2 DEF GroupsInv, Writing, Unwritten
    <3> QED BY <1>2, <2>1, <3>1, <3>2 DEF Writing
  <2>2. CASE phase = "done"
    <3>1. CASE groups' = groups
      <4>1. \A id : Placed(id)' = Placed(id)
          BY <1>0, <2>0, <3>1, SameGroups
      <4> QED BY <1>0, <1>2, <2>0, <2>2, <4>1 DEF GroupsInv, Writing, Unwritten
    <3> QED BY <1>2, <2>0, <2>2, <3>1 DEF GroupsInv, Writing, Unwritten
  <2>3. CASE phase \notin {"groups", "done"} /\ ~Writing
      BY <2>0, <2>3 DEF GroupsInv, Writing, Unwritten
  <2> QED BY <2>1, <2>2, <2>3 DEF Writing
<1>3. CASE PushStep /\ UNCHANGED disturbed /\ Fetch /\ Early
  <2>1. CASE Fetched
    <3>1. applied' = {} /\ phase' # "groups"
        BY <2>1 DEF Fetched, Early
    <3> QED BY <3>1 DEF GroupsInv
  <2>2. CASE Planned
    <3>1. phase' = "points" /\ \A c \in applied' : c.action = "Unchanged"
        BY <2>2 DEF Planned
    <3> QED BY <3>1 DEF GroupsInv, Unwritten
  <2> QED BY <1>3, <2>1, <2>2, FetchIs
<1>4. CASE PushStep /\ UNCHANGED disturbed /\ ~(Fetch /\ Early)
  <2>0. UNCHANGED <<refs, remote>>
      BY <1>4, PlanStays
  <2>1. ASSUME Writing, NEW c \in TodoOf("ContactPoint"), NEW err \in WriteErrors, PointWritten(c, err)
        PROVE  GroupsInv'
    <3>1. /\ groups' = groups /\ todo' \subseteq todo /\ phase' # "groups"
          /\ \A d \in applied' : d \in applied \/ d.kind # "RuleGroup"
        BY <2>1 DEF PointWritten, Recorded, TodoOf
    <3> QED BY <1>1, <1>4, <2>0, <2>1, <3>1
  <2>2. ASSUME Writing, NEW c \in TodoOf("PolicyTree"), NEW err \in WriteErrors, TreeWritten(c, err)
        PROVE  GroupsInv'
    <3>1. /\ groups' = groups /\ todo' \subseteq todo /\ phase' # "groups"
          /\ \A d \in applied' : d \in applied \/ d.kind # "RuleGroup"
        BY <2>2 DEF TreeWritten, Recorded, TodoOf
    <3> QED BY <1>1, <1>4, <2>0, <2>2, <3>1
  <2>3. ASSUME Writing, NEW c \in TodoOf("RuleGroup"), GroupBlocked(c)
        PROVE  GroupsInv'
    <3>1. groups' = groups /\ todo' \subseteq todo /\ phase' # "groups" /\ applied' = applied
        BY <2>3 DEF GroupBlocked, Recorded, TodoOf
    <3> QED BY <1>1, <1>4, <2>0, <2>3, <3>1
  <2>4. CASE Writing /\ Between
    <3>1. groups' = groups /\ todo' = todo /\ applied' = applied /\ (phase' = "groups" => Writing')
        BY <2>4 DEF Between, grafanaVars, Writing
    <3> QED BY <1>1, <1>4, <2>0, <2>4, <3>1
  <2>5. ASSUME Writing, NEW g \in NextGroups, NEW c \in TodoOf("RuleGroup"), NEW err \in WriteErrors,
               GroupWritten(g, c, err)
        PROVE  GroupsInv'
    <3>1. ~Unwritten'
        BY <1>0, <2>5 DEF GroupWritten, Unwritten
    <3>2. CASE disturbed
        BY <1>4, <3>1, <3>2 DEF GroupsInv
    <3>3. CASE ~disturbed
      <4>1. /\ \A d \in todo' : d.kind = "RuleGroup" =>
                 \A r \in RuleSet(groups'[d.id].rules) : r \in RuleSet(remote.groups[d.id].rules)
            /\ ~options.dryRun => \A d \in applied' : d.kind = "RuleGroup" =>
                 /\ groups'[d.id].interval = Group(d.id).interval
                 /\ Sent(groups'[d.id].rules) = Sent(Group(d.id).rules)
          BY <2>5, <3>3, GroupsWritten
      <4>2. \A id : Group(id)' = Group(id)
          BY <1>0, <2>0, SamePushed DEF Group
      <4>3. \A id : /\ Placed(id)' <=> /\ groups'[id].interval = Group(id).interval
                                       /\ Sent(groups'[id].rules) = Sent(Group(id).rules)
                    /\ Left(id)' <=> \A r \in RuleSet(groups'[id].rules) : r \in RuleSet(remote.groups[id].rules)
          BY <2>0, <4>2 DEF Placed, Left
      <4> QED BY <1>0, <3>1, <4>1, <4>3 DEF GroupsInv, TodoOf
    <3> QED BY <3>2, <3>3
  <2> QED BY <1>4, <2>1, <2>2, <2>3, <2>4, <2>5, PushWrites
<1> QED BY <1>2, <1>3, <1>4, DisturbIs

LEMMA HeaderPermits ==
    ASSUME NEW rules_ \in Seq(GrafanaRule), NEW header, header = GroupProvenanceHeader(rules_),
           header # "refused", NEW r \in RuleSet(rules_)
    PROVE  Permits(r.prov, header)
<1>1. Stamp(header) = r.prov
    BY HeaderKeeps
<1>2. header \in {"true", "omit"}
    BY DEF GroupProvenanceHeader, ProvenanceHeader
<1> QED BY <1>1, <1>2 DEF Permits, Stamp

\* A policy tree is only refused where it routes to a contact point that is not there.
LEMMA TreeTaken ==
    ASSUME IInv, ForeseenInv, PlanIs, TreeInv, PointsInv, BundlesTakeable, Writing,
           NEW c, TreeWritten(c, "rejected")
    PROVE  FailedOf("ContactPoint") # {}
<1>1. phase = "tree" /\ c \in todo /\ c.kind = "PolicyTree" /\ c \in TodoOf("PolicyTree")
    BY DEF TreeWritten, TodoOf
<1>2. todo \subseteq plan /\ (\A d \in plan : d \in Plan(Pushed, remote))
    BY WritingHas
<1>3. ~Scoped /\ plan = Plan(local, remote)
  <2>1. ~Scoped
      BY <1>1, <1>2, ScopedPlan
  <2> QED BY <1>1, <1>2, <2>1 DEF PlanIs, Pushed
<1>4. tree = remote.tree
    BY <1>1 DEF TreeInv
<1>5. ~options.dryRun /\ Permits(tree.prov, ProvenanceHeader(remote.tree.prov))
  <2>1. ProvenanceHeader(remote.tree.prov) # "refused" /\ ~options.dryRun
      BY DEF TreeWritten
  <2> QED BY <1>4, <2>1 DEF ProvenanceHeader, Permits
<1>6. ~(local.tree.routes \subseteq {q.name : q \in points})
    BY <1>5 DEF TreeWritten, MayPutTree
<1>7. local.tree.routes \subseteq {p.name : p \in Elements(local.points)}
    BY DEF ForeseenInv, BundlesTakeable, IsTakeable
<1>8. PICK p \in Elements(local.points) : \A q \in points : q.name # p.name
    BY <1>6, <1>7
<1>9. PICK i \in DOMAIN local.points : p = local.points[i]
    BY DEF Elements
<1>10. PICK d : d = PlanPoint(p, remote.points)
    OBVIOUS
<1>11. d \in plan /\ d.kind = "ContactPoint" /\ d.id = PointID(p)
    BY <1>3, <1>10 DEF Plan, PlanPoint
<1>12. d \notin applied
  <2>1. ~IsThere(p)
      BY <1>8 DEF IsThere, EqualPoints
  <2> QED BY <1>3, <1>5, <1>9, <1>11, <2>1 DEF PointsInv
<1>13. d \notin todo
    BY <1>1, <1>11 DEF IInv, PlanInv, TodoOf, Writing
<1>14. d \in FailedChanges
    BY <1>11, <1>12, <1>13 DEF IInv, PlanInv
<1> QED BY <1>11, <1>14 DEF FailedChanges, FailedOf

\* A rule group is not refused at all.
LEMMA GroupTaken ==
    ASSUME IInv, ForeseenInv, PlanIs, FolderInv, MovesInv, GroupsInv, BundlesAreFull, ~disturbed,
           NEW g, NEW c, GroupWritten(g, c, "rejected")
    PROVE  FALSE
<1>1. /\ phase = "groups" /\ c \in TodoOf("RuleGroup") /\ c \in todo /\ c.kind = "RuleGroup" /\ c.id = g.id
      /\ g \in NextGroups /\ GroupHeader(g) # "refused"
      /\ ~MayPutGroup(groups, folders, g.id, g, GroupHeader(g))
    BY DEF GroupWritten, TodoOf
<1>2. Writing /\ todo \subseteq plan /\ GrafanaInv
    BY <1>1, WritingHas DEF Writing, IInv
<1>3. PICK n \in DOMAIN Pushed.groups :
         /\ c.id = Pushed.groups[n].id /\ Group(c.id) = Pushed.groups[n] /\ c.id \in DOMAIN groups
         /\ c.id \in DOMAIN remote.groups /\ HeldIn(local, c.id, remote.groups[c.id])
    BY <1>1, <1>2, PlannedGroup
<1>4. g = Pushed.groups[n] /\ g = Group(c.id)
  <2>1. PICK m \in DOMAIN Pushed.groups : g = Pushed.groups[m]
      BY <1>1, NextGroupIs
  <2> QED BY <1>1, <1>2, <1>3, <2>1, LocalApart
<1>5. PICK id, header, held : id = g.id /\ header = GroupHeader(g) /\ held = remote.groups[id]
    OBVIOUS
<1>6. id = c.id /\ id \in DOMAIN groups /\ id \in DOMAIN remote.groups /\ HeldIn(local, id, held)
      /\ ~MayPutGroup(groups, folders, id, g, header)
    BY <1>1, <1>3, <1>5
<1>7. id[1] \in folders
    BY <1>1, <1>2, <1>6 DEF FolderInv, FolderOf, InBlocked, IInv, PlanInv, TodoOf
<1>8. held.rules \in Seq(GrafanaRule)
    BY <1>6 DEF HeldIn, GrafanaGroup
<1>9. ASSUME NEW r \in RuleSet(groups[id].rules)
      PROVE  Permits(r.prov, header)
  <2>1. r \in RuleSet(held.rules)
      BY <1>1, <1>5, <1>6, <1>9 DEF GroupsInv, Left
  <2>2. held.rules # <<>>
      BY <2>1 DEF RuleSet
  <2>3. header = GroupProvenanceHeader(held.rules) /\ header # "refused"
      BY <1>1, <1>5, <2>2 DEF GroupHeader
  <2> QED BY <1>8, <2>1, <2>3, HeaderPermits
<1>10. ASSUME NEW h \in DOMAIN groups, NEW r \in RuleSet(groups[h].rules), r.uid \in Uids(g.rules), h # id
       PROVE  Permits(r.prov, header)
  <2>1. CASE ~Scoped
    <3>1. g \in Elements(local.groups) /\ MovesFreely(local, h, groups[h].rules)
        BY <1>4, <2>1 DEF Pushed, Elements, MovesInv
    <3>2. r.prov = ""
        BY <1>5, <1>10, <3>1 DEF MovesFreely
    <3> QED BY <3>2 DEF Permits
  <2>2. CASE Scoped
    <3>1. /\ DOMAIN g.rules = DOMAIN held.rules
          /\ \A i \in DOMAIN g.rules : g.rules[i].uid = held.rules[i].uid
        BY <1>1, <1>2, <1>4, <1>5, <1>6, <2>2, ScopedRules
    <3>2. groups[id] = held
        BY <1>1, <1>2, <1>5, <1>6, <2>2 DEF IInv, FetchedInv
    <3>3. PICK i \in DOMAIN g.rules : g.rules[i].uid = r.uid
        BY <1>10 DEF Uids, RuleSet
    <3>4. held.rules[i] \in RuleSet(groups[id].rules) /\ held.rules[i].uid = r.uid
        BY <3>1, <3>2, <3>3 DEF RuleSet
    <3> QED BY <1>2, <1>6, <1>10, <3>4 DEF GrafanaInv, IsGrafana, RulesApart
  <2> QED BY <2>1, <2>2
<1>11. MayPutGroup(groups, folders, id, g, header)
    BY <1>7, <1>9, <1>10 DEF MayPutGroup
<1> QED BY <1>6, <1>11

LEMMA RejectedStep ==
    ASSUME IInv, ForeseenInv, PlanIs, TreeInv, FolderInv, PointsInv, MovesInv, GroupsInv,
           BundlesAreFull, BundlesTakeable, NothingIsRejected, [AlertNext]_vars
    PROVE  NothingIsRejected'
<1>1. disturbed => disturbed'
    BY DisturbIs
<1>2. CASE failed' \subseteq failed /\ failed \subseteq failed'
    BY <1>1, <1>2 DEF NothingIsRejected, FailedOf
<1>3. CASE UNCHANGED pushVars
    BY <1>2, <1>3 DEF pushVars
<1>4. ASSUME NEW c, NEW err, Recorded(c, err),
             err = "rejected" /\ ~disturbed => c.kind = "ContactPoint" \/ FailedOf("ContactPoint") # {}
      PROVE  NothingIsRejected'
  <2>1. CASE err = "nil"
      BY <1>2, <1>4, <2>1 DEF Recorded
  <2>2. CASE err # "nil"
    <3>1. failed' = failed \cup {[change |-> c, err |-> err]}
        BY <1>4, <2>2 DEF Recorded
    <3>2. FailedOf("ContactPoint") \subseteq FailedOf("ContactPoint")'
        BY <3>1 DEF FailedOf
    <3>3. c.kind = "ContactPoint" => [change |-> c, err |-> err] \in FailedOf("ContactPoint")'
        BY <3>1 DEF FailedOf
    <3>4. (\E f \in failed' : f.err = "rejected") => (\E f \in failed : f.err = "rejected") \/ err = "rejected"
        BY <3>1
    <3> QED BY <1>1, <1>4, <3>2, <3>3, <3>4 DEF NothingIsRejected
  <2> QED BY <2>1, <2>2
<1>5. CASE PushStep /\ Fetch /\ Early
  <2>1. CASE Planned
      BY <1>2, <2>1 DEF Planned
  <2>2. CASE Fetched
      BY <2>2 DEF Fetched, NothingIsRejected
  <2> QED BY <1>5, <2>1, <2>2, FetchIs
<1>6. CASE PushStep /\ ~(Fetch /\ Early)
  <2>1. ASSUME Writing, NEW c \in TodoOf("ContactPoint"), NEW err \in WriteErrors, PointWritten(c, err)
        PROVE  NothingIsRejected'
      BY <1>4, <2>1 DEF PointWritten, TodoOf
  <2>2. ASSUME Writing, NEW c \in TodoOf("PolicyTree"), NEW err \in WriteErrors, TreeWritten(c, err)
        PROVE  NothingIsRejected'
    <3>1. Recorded(c, err) /\ (err = "rejected" => TreeWritten(c, "rejected"))
        BY <2>2 DEF TreeWritten
    <3>2. err = "rejected" => FailedOf("ContactPoint") # {}
        BY <2>2, <3>1, TreeTaken
    <3> QED BY <1>4, <3>1, <3>2
  <2>3. ASSUME Writing, NEW c \in TodoOf("RuleGroup"), GroupBlocked(c)
        PROVE  NothingIsRejected'
      BY <1>4, <2>3 DEF GroupBlocked
  <2>4. ASSUME Writing, NEW g \in NextGroups, NEW c \in TodoOf("RuleGroup"), NEW err \in WriteErrors,
               GroupWritten(g, c, err)
        PROVE  NothingIsRejected'
    <3>1. Recorded(c, err) /\ (err = "rejected" => GroupWritten(g, c, "rejected"))
        BY <2>4 DEF GroupWritten
    <3>2. ~(err = "rejected" /\ ~disturbed)
        BY <3>1, GroupTaken
    <3> QED BY <1>4, <3>1, <3>2
  <2>5. CASE Writing /\ Between
      BY <1>2, <2>5 DEF Between
  <2> QED BY <1>6, <2>1, <2>2, <2>3, <2>4, <2>5, PushWrites
<1> QED BY <1>3, <1>5, <1>6, Frames

DonePlan ==
    phase = "done" /\ ~disturbed /\ ~options.dryRun

\* What is reported as applied is what Grafana has.
LEMMA AppliedIs ==
    ASSUME IInv, PlanIs, TreeInv, PointsInv, GroupsInv, DonePlan, NEW c \in applied
    PROVE  /\ c \in plan /\ plan = Plan(Pushed, remote)
           /\ c.kind = "RuleGroup" => Placed(c.id)
           /\ c.kind = "PolicyTree" => tree.val = local.tree.val /\ tree.routes = local.tree.routes
           /\ c.kind = "ContactPoint" => ~Scoped /\
                 \A i \in DOMAIN local.points : c.id = PointID(local.points[i]) => IsThere(local.points[i])
<1>1. c \in plan /\ plan = Plan(Pushed, remote)
    BY DEF DonePlan, IInv, ResultAccounts, PlanIs
<1>2. c.kind = "RuleGroup" => Placed(c.id)
    BY DEF DonePlan, GroupsInv, Unwritten
<1>3. c.kind = "PolicyTree" => tree.val = local.tree.val /\ tree.routes = local.tree.routes
    BY DEF DonePlan, TreeInv
<1>4. c.kind = "ContactPoint" => ~Scoped
    BY <1>1, ScopedPlan
<1>5. c.kind = "ContactPoint" =>
         \A i \in DOMAIN local.points : c.id = PointID(local.points[i]) => IsThere(local.points[i])
    BY <1>1, <1>4 DEF DonePlan, PointsInv
<1> QED BY <1>1, <1>2, <1>3, <1>4, <1>5

LEMMA AppliedThere ==
    ASSUME IInv, PlanIs, TreeInv, PointsInv, GroupsInv, DonePlan, NEW c \in applied, c.kind = "ContactPoint"
    PROVE  \E p \in Elements(local.points), q \in points :
              PointID(p) = c.id /\ q.name = p.name /\ q.val = p.val
<1>1. PICK i \in DOMAIN local.points : c = PlanPoint(local.points[i], remote.points)
    BY AppliedIs, PlanHas
<1>2. PICK p : p = local.points[i]
    OBVIOUS
<1>3. PointID(p) = c.id /\ p \in Elements(local.points)
    BY <1>1, <1>2 DEF PlanPoint, Elements
<1>4. IsThere(p)
    BY <1>2, <1>3, AppliedIs
<1> QED BY <1>3, <1>4 DEF IsThere, EqualPoints

\* A contact point that was applied is found again, alone, and as it is in the bundle.
LEMMA PointConverged ==
    ASSUME IInv, PlanIs, TreeInv, PointsInv, GroupsInv, DonePlan, applied = plan, plan # {}, ~Scoped,
           NEW i \in DOMAIN local.points
    PROVE  PlanPoint(local.points[i], points).action = "Unchanged"
<1> DEFINE at(k) == local.points[k]
<1>1. ASSUME NEW j \in DOMAIN local.points PROVE IsThere(at(j))
  <2>1. PICK p, d : p = at(j) /\ d = PlanPoint(p, remote.points)
      OBVIOUS
  <2>2. p \in Elements(Pushed.points)
      BY <2>1 DEF Pushed, Elements
  <2>3. d \in Plan(Pushed, remote) /\ d.kind = "ContactPoint" /\ d.id = PointID(p)
      BY <2>1, <2>2 DEF Plan, PlanPoint
  <2>4. d \in applied
      BY <2>3 DEF PlanIs
  <2> QED BY <2>1, <2>3, <2>4, AppliedIs
<1>2. PointsKnown /\ UidsApart(points) /\ \A q \in points : IsAdded(q)
    BY DEF PointsKnown, PointsInv, PlanIs
<1>3. PICK p : p = at(i)
    OBVIOUS
<1>4. PICK q \in points : q.uid = Target(p) /\ EqualPoints(p, q)
    BY <1>1, <1>3 DEF IsThere
<1>5. CASE p.uid # NoUid
  <2>1. Target(p) = p.uid
    <3>1. CASE Matches(p, remote.points) = {}
        BY <1>5, <3>1 DEF Target, PointID
    <3>2. CASE Matches(p, remote.points) # {}
      <4>1. PICK only \in remote.points : Matches(p, remote.points) = {only} /\ Target(p) = only.uid
          BY <1>2, <1>3, <3>2, MatchIs
      <4>2. only \in Matches(p, remote.points)
          BY <4>1
      <4> QED BY <1>5, <4>1, <4>2 DEF Matches
    <3> QED BY <3>1, <3>2
  <2>2. Matches(p, points) = {q}
      BY <1>2, <1>4, <1>5, <2>1 DEF Matches, UidsApart
  <2> QED BY <1>3, <1>4, <2>2 DEF PlanPoint, ActionFor
<1>6. CASE p.uid = NoUid
  <2>1. q \in Matches(p, points)
      BY <1>4, <1>6 DEF Matches, EqualPoints
  <2>2. ASSUME NEW other \in Matches(p, points)
        PROVE  other = q
    <3>1. other \in points /\ other.name = p.name
        BY <1>6, <2>2 DEF Matches
    <3>2. CASE other \in remote.points
      <4>1. other \in Matches(p, remote.points)
          BY <1>6, <3>1, <3>2 DEF Matches
      <4>2. PICK only \in remote.points : Matches(p, remote.points) = {only} /\ Target(p) = only.uid
          BY <1>2, <1>3, <4>1, MatchIs
      <4> QED BY <1>2, <1>4, <3>1, <4>1, <4>2 DEF UidsApart
    <3>3. ASSUME NEW j \in DOMAIN local.points, other.uid = Target(at(j))
          PROVE  other = q
      <4>1. PICK third \in points : third.uid = Target(at(j)) /\ EqualPoints(at(j), third)
          BY <1>1 DEF IsThere
      <4>2. third = other
          BY <1>2, <3>1, <3>3, <4>1 DEF UidsApart
      <4>3. at(j).name = p.name
          BY <3>1, <4>1, <4>2 DEF EqualPoints
      <4>4. i = j
          BY <1>2, <1>3, <1>6, <4>3 DEF PointsKnown, NamesApart
      <4> QED BY <1>2, <1>3, <1>4, <3>1, <3>3, <4>4 DEF UidsApart
    <3> QED BY <1>2, <3>1, <3>2, <3>3 DEF IsAdded
  <2>3. Matches(p, points) = {q}
      BY <2>1, <2>2
  <2> QED BY <1>3, <1>4, <2>3 DEF PlanPoint, ActionFor
<1> QED BY <1>5, <1>6

\* A rule group that was applied is as in the bundle.
LEMMA GroupConverged ==
    ASSUME IInv, ForeseenInv, PlanIs, TreeInv, PointsInv, GroupsInv, BundlesAreFull,
           DonePlan, applied = plan, plan # {},
           \A g \in Elements(local.groups) : \A r \in RuleSet(g.rules) : r.uid # NoUid,
           NEW g \in Elements(Pushed.groups)
    PROVE  PlanGroup(g, groups[g.id]).action = "Unchanged"
<1>1. PICK c : c = PlanGroup(g, remote.groups[g.id])
    OBVIOUS
<1>2. c \in plan /\ c \in applied /\ c.kind = "RuleGroup" /\ c.id = g.id
  <2>1. c \in Plan(Pushed, remote)
      BY <1>1 DEF Plan
  <2> QED BY <1>1, <2>1 DEF PlanIs, PlanGroup
<1>3. c.id \in DOMAIN groups /\ Group(c.id) = g
  <2>1. PICK n \in DOMAIN Pushed.groups :
           c.id = Pushed.groups[n].id /\ Group(c.id) = Pushed.groups[n] /\ c.id \in DOMAIN groups
      BY <1>2, PlannedGroup
  <2>2. PICK m \in DOMAIN Pushed.groups : g = Pushed.groups[m]
      BY DEF Elements
  <2> QED BY <1>2, <2>1, <2>2, LocalApart DEF IInv
<1>4. g.rules \in Seq(BundleRule) /\ g.rules # <<>> /\ g.interval \in Nat
    BY <1>2, <1>3, GroupFull
<1>5. \A i \in DOMAIN g.rules : g.rules[i].uid # NoUid
  <2>1. CASE Scoped
      BY <1>2, <1>3, <2>1, ScopedRules
  <2>2. CASE ~Scoped
    <3>1. g \in Elements(local.groups)
        BY <2>2 DEF Pushed
    <3> QED BY <3>1 DEF RuleSet
  <2> QED BY <2>1, <2>2
<1>6. PICK id, held : id = g.id /\ held = groups[id]
    OBVIOUS
<1>7. id \in DOMAIN groups /\ held.interval = g.interval /\ Sent(held.rules) = Sent(g.rules)
    BY <1>2, <1>3, <1>6, AppliedIs DEF Placed
<1>8. /\ held \in GrafanaGroup /\ held.rules \in Seq(GrafanaRule)
      /\ \A i, j \in DOMAIN held.rules : held.rules[i].uid = held.rules[j].uid => i = j
    BY <1>6, <1>7 DEF IInv, GrafanaInv, IsGrafana, HeldIn, GrafanaGroup
<1>9. DOMAIN held.rules = DOMAIN g.rules
      /\ \A i \in DOMAIN g.rules : Stored(g.rules[i], "omit").uid = held.rules[i].uid
  <2>1. DOMAIN Sent(held.rules) = DOMAIN Sent(g.rules) /\ \A i : Sent(held.rules)[i] = Sent(g.rules)[i]
      BY <1>7
  <2>2. DOMAIN held.rules = DOMAIN g.rules
      BY <2>1 DEF Sent
  <2>3. ASSUME NEW i \in DOMAIN g.rules
        PROVE  Stored(g.rules[i], "omit").uid = held.rules[i].uid
    <3>1. Content(Stored(held.rules[i], "omit")) = Content(Stored(g.rules[i], "omit"))
        BY <2>1, <2>2, <2>3 DEF Sent
    <3>2. Stored(held.rules[i], "omit").uid = Stored(g.rules[i], "omit").uid
        BY <3>1 DEF Content
    <3>3. held.rules[i] \in GrafanaRule /\ held.rules[i] \in BundleRule
        BY <1>8, <2>2, GrafanaInBundle
    <3>4. Stored(held.rules[i], "omit").uid = held.rules[i].uid
        BY <3>3, StoredIs DEF GrafanaRule
    <3> QED BY <3>2, <3>4
  <2> QED BY <2>2, <2>3
<1>10. Meets(g.rules, held.rules)
    BY <1>4, <1>5, <1>8, <1>9 DEF Meets
<1>11. held # NoGroup
  <2>1. Len(g.rules) = Len(held.rules)
      BY <1>4, <1>8, <1>9
  <2>2. held.rules # <<>>
      BY <1>4, <1>8, <2>1
  <2> QED BY <2>2 DEF NoGroup
<1>12. PICK put : put = PutGroup(groups, id, g, "omit")[id]
    OBVIOUS
<1>13. /\ put \in GrafanaGroup /\ put.interval = g.interval /\ DOMAIN put.rules = DOMAIN g.rules
       /\ \A i \in DOMAIN g.rules : put.rules[i] = Stored(g.rules[i], "omit")
    BY <1>4, <1>7, <1>12, PutIs
<1>14. Leaves(g.rules, "omit", put.rules)
    BY <1>13 DEF Leaves, GrafanaGroup
<1>15. Sent(put.rules) = Sent(held.rules)
  <2>1. Sent(put.rules) = Sent(g.rules)
      BY <1>4, <1>14, SentStored
  <2> QED BY <1>7, <2>1
<1>16. SendsSame(put, held)
    BY <1>7, <1>8, <1>13, <1>15 DEF SendsSame, GrafanaGroup
<1>17. GroupDetail(g, held) = {}
    BY <1>8, <1>10, <1>13, <1>14, <1>16, NothingForGroup
<1> QED BY <1>6, <1>11, <1>17 DEF PlanGroup, ActionFor

ConvergeInv ==
    /\ ForeseenInv /\ PlanIs /\ TreeInv /\ FolderInv /\ PointsInv /\ MovesInv /\ GroupsInv
    /\ NothingIsRejected

LEMMA Converged ==
    ASSUME BundlesAreFull, IInv, ConvergeInv
    PROVE  PushConverges
<1>1. NothingIsRejected
    BY DEF ConvergeInv
<1>2. SUFFICES ASSUME DonePlan
               PROVE  /\ \A c \in applied :
                           /\ c.kind = "RuleGroup" => Placed(c.id)
                           /\ c.kind = "PolicyTree" => tree.val = local.tree.val
                           /\ c.kind = "ContactPoint" =>
                                 \E p \in Elements(local.points), q \in points :
                                     PointID(p) = c.id /\ q.name = p.name /\ q.val = p.val
                      /\ plan # {} /\ applied = plan
                         /\ (\A g \in Elements(local.groups) : \A r \in RuleSet(g.rules) : r.uid # NoUid)
                         => \A c \in Plan(Pushed, [groups |-> groups, points |-> points, tree |-> tree]) :
                               c.action = "Unchanged"
    BY <1>1 DEF PushConverges, DonePlan, Placed
<1>3. ForeseenInv /\ PlanIs /\ TreeInv /\ PointsInv /\ GroupsInv
    BY DEF ConvergeInv
<1>4. \A c \in applied :
         /\ c.kind = "RuleGroup" => Placed(c.id)
         /\ c.kind = "PolicyTree" => tree.val = local.tree.val
         /\ c.kind = "ContactPoint" =>
               \E p \in Elements(local.points), q \in points :
                   PointID(p) = c.id /\ q.name = p.name /\ q.val = p.val
    BY <1>2, <1>3, AppliedIs, AppliedThere
<1>5. ASSUME plan # {}, applied = plan,
             \A g \in Elements(local.groups) : \A r \in RuleSet(g.rules) : r.uid # NoUid,
             NEW c \in Plan(Pushed, [groups |-> groups, points |-> points, tree |-> tree])
      PROVE  c.action = "Unchanged"
  <2>1. ASSUME NEW p \in Elements(Pushed.points), c = PlanPoint(p, points)
        PROVE  c.action = "Unchanged"
    <3>1. ~Scoped
        BY <2>1 DEF Pushed, Elements
    <3>2. PICK i \in DOMAIN local.points : p = local.points[i]
        BY <3>1 DEF Pushed, Elements
    <3> QED BY <1>2, <1>3, <1>5, <2>1, <3>1, <3>2, PointConverged
  <2>2. ASSUME NEW t \in {Pushed.tree} \ {NoTree}, c = PlanTree(t, tree)
        PROVE  c.action = "Unchanged"
    <3>1. ~Scoped /\ t = local.tree
        BY <2>2 DEF Pushed
    <3>2. PICK d : d = PlanTree(local.tree, remote.tree)
        OBVIOUS
    <3>3. d \in applied /\ d.kind = "PolicyTree"
      <4>1. d \in Plan(Pushed, remote)
          BY <2>2, <3>1, <3>2 DEF Plan, Pushed
      <4> QED BY <1>3, <1>5, <3>2, <4>1 DEF PlanIs, PlanTree
    <3>4. tree.val = local.tree.val /\ tree.routes = local.tree.routes
        BY <1>2, <1>3, <3>3, AppliedIs
    <3> QED BY <2>2, <3>1, <3>4 DEF PlanTree, ActionFor
  <2>3. ASSUME NEW g \in Elements(Pushed.groups), c = PlanGroup(g, groups[g.id])
        PROVE  c.action = "Unchanged"
      BY <1>2, <1>3, <1>5, <2>3, GroupConverged
  <2>4. \/ \E p \in Elements(Pushed.points) : c = PlanPoint(p, points)
        \/ \E t \in {Pushed.tree} \ {NoTree} : c = PlanTree(t, tree)
        \/ \E g \in Elements(Pushed.groups) : c = PlanGroup(g, groups[g.id])
      BY <1>5 DEF Plan
  <2> QED BY <2>1, <2>2, <2>3, <2>4
<1> QED BY <1>4, <1>5

LEMMA ConvergeStart ==
    ASSUME BundlesTakeable, AlertInit
    PROVE  ConvergeInv
<1>1. PICK case \in Cases : local = case.local /\ options = case.options /\ groups = case.groups /\ points = case.points
    BY DEF AlertInit
<1>2. IsTakeable(case)
    BY DEF BundlesTakeable
<1>3. phase = "start" /\ plan = {} /\ applied = {} /\ failed = {} /\ todo = {}
    BY DEF AlertInit, Init
<1>4. step # "put"
    BY DEF AlertInit, O!Init
<1>5. PlanIs /\ TreeInv /\ FolderInv /\ GroupsInv /\ NothingIsRejected
    BY <1>3 DEF PlanIs, TreeInv, FolderInv, GroupsInv, NothingIsRejected, Writing, Unwritten
<1>6. MovesInv
    BY <1>1, <1>2, <1>4 DEF MovesInv, IsTakeable
<1>7. PointsInv
  <2>1. UidsApart(points) /\ NamesApart(local, points)
      BY <1>1, <1>2 DEF IsTakeable, UidsApart
  <2> QED BY <1>3, <2>1 DEF PointsInv
<1> QED BY <1>5, <1>6, <1>7, ForeseenStart DEF ConvergeInv

LEMMA ConvergeStep ==
    ASSUME BundlesAreFull, BundlesTakeable, IInv, ConvergeInv, [AlertNext]_vars
    PROVE  ConvergeInv'
BY ForeseenStep, PlanIsStep, TreeStep, FolderStep, PointsStep, MovesStep, GroupsStep, RejectedStep
   DEF ConvergeInv

-----------------------------------------------------------------------------
(* The theorems                                                            *)

LEMMA InitHolds ==
    ASSUME AlertInit
    PROVE  IInv
<1>1. PICK case \in Cases :
          /\ local = case.local /\ options = case.options
          /\ groups = case.groups /\ points = case.points
          /\ tree = case.tree /\ folders = case.folders
          /\ request = case.request
          /\ live = case.live /\ query = case.query
    BY DEF AlertInit
<1>2. IsCase(case)
    BY CasesAssumption
<1>3. GrafanaInv
    BY <1>1, <1>2 DEF GrafanaInv, IsCase
<1>4. /\ phase = "start" /\ todo = {} /\ refs = {} /\ plan = {} /\ blocked = {}
      /\ remote = [groups |-> <<>>, points |-> {}, tree |-> NoTree]
      /\ applied = {} /\ failed = {} /\ returned = "nil"
      /\ session = TRUE /\ edits = 0 /\ disturbed = FALSE
    BY DEF AlertInit, Init
<1>5. DOMAIN remote.groups = {} /\ FailedChanges = {}
    BY <1>4 DEF FailedChanges
<1>6. /\ step = (IF request.op = "none" THEN "done" ELSE "resolve") /\ queue = request.uids
      /\ rules = <<>> /\ outcome = [uid \in Elements(request.uids) |-> "none"] /\ stopped = "nil"
    BY DEF AlertInit, O!Init, O!Elements, Elements
<1>7. /\ asked = (IF query.cmd = "none" THEN "done" ELSE "ask")
      /\ answer = [rows |-> {}, err |-> "nil"]
    BY DEF AlertInit, Q!Init, Q!NoAnswer
<1>8. TypeOK
  <2>1. outcome \in [Elements(request.uids) -> {"none", "changed", "unchanged", "error", "401"}]
      BY <1>6
  <2>2. edits \in 0..MaxEdits
      BY <1>4, EditsAssumption
  <2>3. answer.err = "nil" /\ answer.rows = {}
      BY <1>7
  <2> QED BY <1>4, <1>5, <1>6, <1>7, <2>1, <2>2, <2>3 DEF TypeOK
<1>9. FetchedInv
    BY <1>4, <1>5 DEF FetchedInv
<1>10. PlanInv
    BY <1>4, <1>5 DEF PlanInv, Early, Writing
<1>11. ResultAccounts /\ OrderInv /\ AbortIsPrefix
    BY <1>4, <1>5 DEF ResultAccounts, OrderInv, AbortIsPrefix, FailedOf, Writing
<1>12. OpInv
  <2>1. request.uids \in Seq(Texts \ {NoUid})
      BY <1>3 DEF GrafanaInv, RuleRequest
  <2>2. request.uids \in Seq(Elements(request.uids))
      BY <2>1 DEF Elements
  <2>3. rules \in Seq([uid : Elements(request.uids), ref : DOMAIN groups, prov : Texts])
      BY <1>6
  <2> QED BY <1>6, <2>2, <2>3 DEF OpInv
<1>13. AskedInv /\ AnswersAreHonest
    BY <1>7 DEF AskedInv, AnswersAreHonest
<1>14. OutcomeInv
  <2>1. request.op = "none" => request.uids = <<>>
      BY <1>3 DEF GrafanaInv
  <2> QED BY <1>6, <2>1 DEF OutcomeInv, Elements
<1> QED BY <1>3, <1>8, <1>9, <1>10, <1>11, <1>12, <1>13, <1>14 DEF IInv

LEMMA Inductive ==
    ASSUME IInv, [AlertNext]_vars
    PROVE  IInv'
BY TypeStep, GrafanaStep, FetchedStep, PlanStep, AccountsStep, OrderStep, AbortStep, OpStepKeeps,
   OutcomesStay, AskedStep, AnswersStep DEF IInv

LEMMA InvHolds == Spec => []IInv
<1>1. AlertInit => IInv
    BY InitHolds
<1>2. IInv /\ [AlertNext]_vars => IInv'
    BY Inductive
<1> QED BY <1>1, <1>2, PTL DEF Spec

\* Every variable keeps its type, and Grafana what it may hold: no rule is in it twice,
\* whoever writes (IsGrafana), although a push, a pause, a deletion and an edit interleave.
THEOREM GrafanaStaysWhole == Spec => [](TypeOK /\ GrafanaInv)
<1>1. IInv => TypeOK /\ GrafanaInv
    BY DEF IInv
<1> QED BY <1>1, InvHolds, PTL

\* The answer of `rules list` and `get` is the truth, although its two requests are
\* answered at different moments (fetchRules, FetchRuleStates and applyState).
THEOREM QueriesAreHonest == Spec => []AnswersAreHonest
<1>1. IInv => AnswersAreHonest
    BY DEF IInv
<1> QED BY <1>1, InvHolds, PTL

\* Push with StopOnError applies what is before the failure in the bundle's order,
\* writes nothing that is after it, and reports that one failure.
THEOREM AbortLeavesPrefix == Spec => []AbortIsPrefix
<1>1. IInv => AbortIsPrefix
    BY DEF IInv
<1> QED BY <1>1, InvHolds, PTL

\* Push reports each change of its plan exactly once, in Applied or in Failed, those of
\* the blocked folders with the error of the folder; a dead session is returned.
THEOREM PushAccounts == Spec => []ResultAccounts
<1>1. IInv => ResultAccounts
    BY DEF IInv
<1> QED BY <1>1, InvHolds, PTL

\* The marker for a secret is never what createContactPoint or updateContactPoint store.
THEOREM SecretsKept == Spec => []NoRedactedSecretStored
<1>1. IInv => NoRedactedSecretStored
    BY DEF IInv, GrafanaInv, GrafanaPoint, NoRedactedSecretStored
<1> QED BY <1>1, InvHolds, PTL

\* A push of named rules (syntheticGroup) and a pause (putPausedGroup) change no rule but
\* the named ones, in the group that is written and in every other.
THEOREM SiblingsStay == Spec => SiblingsUntouched
<1>1. IInv /\ [AlertNext]_vars =>
         [/\ ByPush /\ Scoped /\ ~disturbed =>
               \A g \in DOMAIN groups : SameBut(groups[g], groups'[g], options.ruleUIDs)
          /\ ByPause /\ groups[O!Ref] = body =>
               /\ \A g \in DOMAIN groups : SameBut(groups[g], groups'[g], Elements(request.uids))
               /\ \A i \in DOMAIN body.rules :
                     groups'[O!Ref].rules[i] \in
                         {body.rules[i], [body.rules[i] EXCEPT !.paused = O!Paused]}]_vars
    BY SiblingsStep
<1> QED BY <1>1, InvHolds, PTL DEF Spec, SiblingsUntouched

\* What DeleteRules, PauseRules and ResumeRules report as done is done, and what they
\* report as unchanged was in the state that was asked for.
THEOREM OutcomesHold == Spec => OutcomeIsTrue
<1>1. IInv /\ [AlertNext]_vars =>
         [~request.dryRun =>
            \A u \in DOMAIN outcome :
              outcome'[u] # outcome[u] /\ outcome'[u] \in {"changed", "unchanged"} =>
                  LET now == {r \in UNION {RuleSet(groups'[g].rules) : g \in DOMAIN groups} :
                                 r.uid = u}
                  IN  IF request.op = "delete" THEN now = {}
                      ELSE now # {} /\ \A r \in now : r.paused = O!Paused]_vars
    BY OutcomeHolds
<1> QED BY <1>1, InvHolds, PTL DEF Spec, OutcomeIsTrue

\* A script learns from the exit status what has to be done: 2 if and only if a request
\* met the dead session (sessionAuthExitCode), whichever of several concurrent writes that
\* was; 0 only if all of the plan was applied, or every rule is as it was asked for.
THEOREM ExitsSayWhatToDo == Spec => []ExitSaysWhatToDo
<1>1. IInv => ExitSaysWhatToDo
    BY PushExitsAre, RuleOpExitsAre DEF ExitSaysWhatToDo
<1> QED BY <1>1, InvHolds, PTL

\* The commands and Grafana keep all that is checked of their states: a push accounts
\* for its plan (sortResult), no secret is replaced by its marker, exit statuses are
\* true, and so is what these rest on.
THEOREM CommandsAreSound == Spec => []Inv
<1>1. IInv => Inv
  <2>1. IInv => NoRedactedSecretStored
      BY DEF IInv, GrafanaInv, GrafanaPoint, NoRedactedSecretStored
  <2>2. IInv => ExitSaysWhatToDo
      BY PushExitsAre, RuleOpExitsAre DEF ExitSaysWhatToDo
  <2> QED BY <2>1, <2>2 DEF IInv, Inv
<1> QED BY <1>1, InvHolds, PTL

\* If every group of the bundle has a rule, what alerts.Plan says of a group that is
\* there (diff.go) is what the PUT of pushRuleGroup will do to it, up to the first such
\* PUT and unless others write: each rule that it adds, changes or deletes, its interval
\* and its order, and nothing else; it says nothing exactly if nothing would change.
THEOREM PlansForetell == ASSUME BundlesAreFull PROVE Spec => []PlanForetellsWrites
<1>1. IInv /\ ForeseenInv => PlanForetellsWrites
    BY PlanForetold DEF PlanForetellsWrites, Foretold
<1>2. AlertInit => ForeseenInv
    BY ForeseenStart
<1>3. IInv /\ ForeseenInv /\ [AlertNext]_vars => ForeseenInv'
    BY ForeseenStep
<1> QED BY <1>1, <1>2, <1>3, InvHolds, PTL DEF Spec

\* If every group of the bundle has a rule, and Grafana can take all of the bundle: while
\* others write no rule, Grafana rejects nothing that a push sends (pushRun.apply) unless a
\* contact point failed before; what is reported as applied is what Grafana has; and after
\* a push that applied all of its plan, Plan has nothing left to say.
THEOREM PushesConverge == ASSUME BundlesAreFull, BundlesTakeable PROVE Spec => []PushConverges
<1>1. AlertInit => ConvergeInv
    BY ConvergeStart
<1>2. IInv /\ ConvergeInv /\ [AlertNext]_vars => ConvergeInv'
    BY ConvergeStep
<1>3. IInv /\ ConvergeInv => PushConverges
    BY Converged
<1> QED BY <1>1, <1>2, <1>3, InvHolds, PTL DEF Spec

=============================================================================
