---------------------------- MODULE PreviewProofs ----------------------------
(***************************************************************************)
(* The safety of a preview (resources serve), in two parts: the live-reload*)
(* hub and what browsers see of it, for any number of connections, any     *)
(* capacity of their channels and any number of messages; and the files,   *)
(* the memory, the handlers and the guard of Serve, for any of them.       *)
(***************************************************************************)
EXTENDS LiveReload, Serve, TLAPS, SequenceTheorems, FiniteSetTheorems

-----------------------------------------------------------------------------
(* What appending to a send channel and taking from it do to its contents. *)

\* The hub appends the message after the newest one that was offered.
LEMMA AppendReload ==
    ASSUME NEW q \in Seq(Nat), NEW after \in Nat, NEW n \in Nat,
           Gapless(q, after), Covers(q, after, n)
    PROVE  /\ Gapless(Append(q, n + 1), after)
           /\ Covers(Append(q, n + 1), after, n + 1)
<1> DEFINE r == Append(q, n + 1)
<1>1. /\ Len(q) \in Nat /\ DOMAIN q = 1..Len(q)
      /\ DOMAIN r = 1..(Len(q) + 1)
      /\ r[Len(q) + 1] = n + 1
      /\ \A i \in 1..Len(q) : r[i] = q[i] /\ q[i] \in Nat
    BY AppendProperties, LenProperties, ElementOfSeq
<1> HIDE DEF r
<1>2. Gapless(r, after)
  <2> SUFFICES ASSUME NEW i \in 1..(Len(q) + 1), r[i] # Hello
               PROVE  /\ after < r[i]
                      /\ \A j \in 1..(i - 1) : r[j] < r[i]
                      /\ \A m \in (after + 1)..(r[i] - 1) :
                            \E j \in 1..(i - 1) : r[j] = m
    BY <1>1 DEF Gapless
  <2>1. CASE i = Len(q) + 1
    <3>1. after < r[i] /\ \A j \in 1..(i - 1) : r[j] < r[i]
      BY <1>1, <2>1 DEF Covers
    <3>2. ASSUME NEW m \in (after + 1)..(r[i] - 1)
          PROVE  \E j \in 1..(i - 1) : r[j] = m
      <4>1. PICK j \in 1..Len(q) : q[j] = m
        BY <1>1, <2>1 DEF Covers
      <4> QED
        BY <1>1, <2>1, <4>1
    <3> QED
      BY <3>1, <3>2
  <2>2. CASE i \in 1..Len(q)
    <3>1. /\ r[i] = q[i] /\ after < q[i] /\ \A j \in 1..(i - 1) : q[j] < q[i]
          /\ \A m \in (after + 1)..(q[i] - 1) : \E j \in 1..(i - 1) : q[j] = m
      BY <1>1, <2>2 DEF Gapless
    <3>2. \A j \in 1..(i - 1) : r[j] = q[j]
      BY <1>1, <2>2
    <3> QED
      BY <3>1, <3>2
  <2> QED
    BY <1>1, <2>1, <2>2
<1>3. Covers(r, after, n + 1)
  <2>1. ASSUME NEW m \in (after + 1)..(n + 1)
        PROVE  \E i \in DOMAIN r : r[i] = m
    <3>1. CASE m = n + 1
      BY <1>1, <3>1
    <3>2. CASE m # n + 1
      BY <1>1, <3>2 DEF Covers
    <3> QED
      BY <3>1, <3>2
  <2> QED
    BY <1>1, <2>1 DEF Covers
<1> QED
    BY <1>2, <1>3 DEF r

\* The answer to a hello comes after the messages that are waiting.
LEMMA AppendHello ==
    ASSUME NEW q \in Seq(Nat), NEW after \in Nat, Gapless(q, after)
    PROVE  /\ Gapless(Append(q, Hello), after)
           /\ \A n \in Nat : Covers(q, after, n) => Covers(Append(q, Hello), after, n)
<1> DEFINE r == Append(q, Hello)
<1>1. /\ Len(q) \in Nat /\ DOMAIN q = 1..Len(q)
      /\ DOMAIN r = 1..(Len(q) + 1)
      /\ r[Len(q) + 1] = Hello
      /\ \A i \in 1..Len(q) : r[i] = q[i] /\ q[i] \in Nat
    BY AppendProperties, LenProperties, ElementOfSeq DEF Hello
<1> HIDE DEF r
<1>2. Gapless(r, after)
  <2> SUFFICES ASSUME NEW i \in 1..(Len(q) + 1), r[i] # Hello
               PROVE  /\ after < r[i]
                      /\ \A j \in 1..(i - 1) : r[j] < r[i]
                      /\ \A m \in (after + 1)..(r[i] - 1) :
                            \E j \in 1..(i - 1) : r[j] = m
    BY <1>1 DEF Gapless
  <2>1. i \in 1..Len(q)
    BY <1>1
  <2>2. /\ r[i] = q[i] /\ after < q[i] /\ \A j \in 1..(i - 1) : q[j] < q[i]
        /\ \A m \in (after + 1)..(q[i] - 1) : \E j \in 1..(i - 1) : q[j] = m
    BY <1>1, <2>1 DEF Gapless
  <2>3. \A j \in 1..(i - 1) : r[j] = q[j]
    BY <1>1, <2>1
  <2> QED
    BY <2>2, <2>3
<1>3. \A n \in Nat : Covers(q, after, n) => Covers(r, after, n)
    BY <1>1 DEF Covers, Hello
<1> QED
    BY <1>2, <1>3 DEF r

\* What the writer takes is a hello or the very next message; the rest stays as
\* it was.
LEMMA TakeNext ==
    ASSUME NEW q \in Seq(Nat), q # << >>, NEW after \in Nat, Gapless(q, after)
    PROVE  LET next == IF Head(q) = Hello THEN after ELSE Head(q)
           IN  /\ Head(q) # Hello => Head(q) = after + 1
               /\ Gapless(Tail(q), next)
               /\ \A n \in Nat : Covers(q, after, n) => Covers(Tail(q), next, n)
<1> DEFINE r == Tail(q)
           next == IF Head(q) = Hello THEN after ELSE Head(q)
<1>1. /\ Len(q) \in Nat \ {0} /\ DOMAIN q = 1..Len(q)
      /\ DOMAIN r = 1..(Len(q) - 1)
      /\ Head(q) = q[1]
      /\ \A i \in 1..(Len(q) - 1) : r[i] = q[i + 1]
      /\ \A i \in 1..Len(q) : q[i] \in Nat
  <2>1. r \in Seq(Nat) /\ Len(r) = Len(q) - 1 /\ \A i \in 1..Len(r) : r[i] = q[i + 1]
    BY HeadTailProperties
  <2>2. DOMAIN r = 1..Len(r)
    BY <2>1, LenProperties
  <2>3. Len(q) \in Nat \ {0} /\ DOMAIN q = 1..Len(q) /\ \A i \in 1..Len(q) : q[i] \in Nat
    BY EmptySeq, LenProperties, ElementOfSeq
  <2>4. Head(q) = q[1]
    BY DEF Head
  <2> HIDE DEF r
  <2> QED
    BY <2>1, <2>2, <2>3, <2>4
<1> HIDE DEF r
<1>2. Head(q) # Hello => Head(q) = after + 1
    BY <1>1 DEF Gapless, Hello
<1>3. next \in Nat /\ (next = after \/ next = after + 1) /\ (next = after <=> q[1] = Hello)
    BY <1>1, <1>2
<1>4. Gapless(r, next)
  <2> SUFFICES ASSUME NEW i \in 1..(Len(q) - 1), r[i] # Hello
               PROVE  /\ next < r[i]
                      /\ \A j \in 1..(i - 1) : r[j] < r[i]
                      /\ \A m \in (next + 1)..(r[i] - 1) :
                            \E j \in 1..(i - 1) : r[j] = m
    BY <1>1 DEF Gapless
  <2>1. r[i] = q[i + 1] /\ i + 1 \in 1..Len(q)
    BY <1>1
  <2>2. /\ after < r[i] /\ \A j \in 1..i : q[j] < r[i]
        /\ \A m \in (after + 1)..(r[i] - 1) : \E j \in 1..i : q[j] = m
    <3>1. PICK k \in DOMAIN q : k = i + 1 /\ k - 1 = i
      BY <1>1, <2>1
    <3>2. q[k] = r[i] /\ q[k] # Hello
      BY <2>1, <3>1
    <3>3. /\ after < q[k] /\ \A j \in 1..(k - 1) : q[j] < q[k]
          /\ \A m \in (after + 1)..(q[k] - 1) : \E j \in 1..(k - 1) : q[j] = m
      BY <3>2 DEF Gapless
    <3> QED
      BY <3>1, <3>2, <3>3
  <2>3. next < r[i]
    BY <1>1, <2>2
  <2>4. \A j \in 1..(i - 1) : r[j] < r[i]
    BY <1>1, <2>2
  <2>5. ASSUME NEW m \in (next + 1)..(r[i] - 1)
        PROVE  \E j \in 1..(i - 1) : r[j] = m
    <3>0. m \in (after + 1)..(r[i] - 1)
      BY <1>3
    <3>1. PICK j \in 1..i : q[j] = m
      BY <2>2, <3>0
    <3>2. j # 1
      BY <1>1, <1>3, <2>5, <3>1 DEF Hello
    <3>3. j - 1 \in 1..(i - 1) /\ r[j - 1] = q[(j - 1) + 1] /\ (j - 1) + 1 = j
      BY <1>1, <3>2
    <3> QED
      BY <3>1, <3>3
  <2> QED
    BY <2>3, <2>4, <2>5
<1>5. ASSUME NEW n \in Nat, Covers(q, after, n)
      PROVE  Covers(r, next, n)
  <2>1. next <= n
    BY <1>1, <1>2, <1>5 DEF Covers
  <2>2. ASSUME NEW m \in (next + 1)..n
        PROVE  \E i \in DOMAIN r : r[i] = m
    <3>1. PICK j \in 1..Len(q) : q[j] = m
      BY <1>1, <1>3, <1>5 DEF Covers
    <3>2. j # 1
      BY <1>1, <1>3, <2>2, <3>1 DEF Hello
    <3>3. j - 1 \in DOMAIN r /\ r[j - 1] = q[(j - 1) + 1] /\ (j - 1) + 1 = j
      BY <1>1, <3>2
    <3> QED
      BY <3>1, <3>3
  <2>3. ASSUME NEW i \in DOMAIN r
        PROVE  r[i] <= n
    <3>1. r[i] = q[i + 1] /\ i + 1 \in DOMAIN q
      BY <1>1
    <3> QED
      BY <1>5, <3>1 DEF Covers
  <2> QED
    BY <2>1, <2>2, <2>3 DEF Covers
<1> QED
    BY <1>2, <1>4, <1>5 DEF r

-----------------------------------------------------------------------------
(* The invariant                                                           *)

\* The actions of one connection, its peer in the hub included.
ClientStep(c) ==
    \/ Offer(c) \/ Register(c) \/ Unregister(c) \/ Connect(c) \/ Disconnect(c)
    \/ ReadHello(c) \/ Reply(c) \/ ReadError(c) \/ Write(c) \/ WriterEnd(c)

LEMMA Steps ==
    ASSUME [LiveNext]_liveVars
    PROVE  ReloadResource \/ (\E c \in Client : ClientStep(c)) \/ UNCHANGED liveVars
    BY DEF LiveNext, HubStep, ConnectionStep, ClientStep

\* A step of a connection changes the state of no other one.
LEMMA OneConnectionMoves ==
    ASSUME LiveTypeOK, NEW c \in Client, ClientStep(c), NEW d \in Client, d # c
    PROVE  /\ d \in connections' <=> d \in connections
           /\ d \in todo' <=> d \in todo
           /\ queue'[d] = queue[d] /\ closed'[d] = closed[d] /\ socket'[d] = socket[d]
           /\ reader'[d] = reader[d] /\ writer'[d] = writer[d] /\ last'[d] = last[d]
<1> USE DEF LiveTypeOK, hubVars
<1>1. CASE Offer(c)
    BY <1>1 DEF Offer, Overflow, DropAndClose
<1>2. CASE Register(c) \/ Unregister(c)
    BY <1>2 DEF Register, Unregister, Remove
<1>3. CASE Connect(c) \/ Disconnect(c) \/ ReadHello(c) \/ ReadError(c)
    BY <1>3 DEF Connect, Disconnect, ReadHello, ReadError
<1>4. CASE Reply(c)
    BY <1>4 DEF Reply
<1>5. CASE Write(c)
    BY <1>5 DEF Write
<1>6. CASE WriterEnd(c)
    BY <1>6 DEF WriterEnd
<1> QED
    BY <1>1, <1>2, <1>3, <1>4, <1>5, <1>6 DEF ClientStep

\* Only a broadcast changes the number of messages.
LEMMA SentStands ==
    ASSUME NEW c \in Client, ClientStep(c)
    PROVE  sent' = sent
    BY DEF ClientStep, Offer, Register, Unregister, Connect, Disconnect, ReadHello, Reply,
       ReadError, Write, WriterEnd, hubVars

\* The variables keep their types.
LEMMA TypeStep ==
    ASSUME LiveTypeOK, [LiveNext]_liveVars
    PROVE  LiveTypeOK'
<1> USE DEF LiveTypeOK, hubVars
<1>0. CASE UNCHANGED liveVars
    BY <1>0 DEF liveVars
<1>1. CASE ReloadResource
  <2>1. sent' \in Nat /\ 0..sent \subseteq 0..sent' /\ todo' \subseteq connections'
    BY <1>1 DEF ReloadResource
  <2>2. \A c \in Client : queue'[c] \in Seq(0..sent')
    BY <1>1, <2>1, SeqMonotonic DEF ReloadResource
  <2>3. last' \in [Client -> 0..sent']
    BY <1>1, <2>1 DEF ReloadResource
  <2> QED
    BY <1>1, <2>1, <2>2, <2>3 DEF ReloadResource
<1>2. ASSUME NEW c \in Client, Offer(c) PROVE LiveTypeOK'
  <2>1. CASE Len(queue[c]) < Buffer
    <3>1. Append(queue[c], sent) \in Seq(0..sent) /\ Len(Append(queue[c], sent)) = Len(queue[c]) + 1
      BY AppendProperties
    <3>2. Len(queue[c]) + 1 <= Buffer
      BY <2>1, LenProperties, BufferAssumption
    <3> QED
      BY <1>2, <2>1, <3>1, <3>2 DEF Offer
  <2>2. CASE ~(Len(queue[c]) < Buffer)
    BY <1>2, <2>2 DEF Offer, Overflow, DropAndClose
  <2> QED
    BY <2>1, <2>2
<1>3. ASSUME NEW c \in Client, Register(c) \/ Unregister(c) PROVE LiveTypeOK'
  <2>1. connections' \subseteq Client /\ todo' \subseteq connections' /\ sent' \in Nat
    BY <1>3 DEF Register, Unregister, Remove, HubIdle
  <2>2. CASE Register(c)
    BY <2>1, <2>2 DEF Register
  <2>3. CASE Unregister(c)
    BY <2>1, <2>3 DEF Unregister, Remove
  <2> QED
    BY <1>3, <2>2, <2>3
<1>4. ASSUME NEW c \in Client, Connect(c) \/ Disconnect(c) \/ ReadHello(c) \/ ReadError(c)
      PROVE  LiveTypeOK'
    BY <1>4 DEF Connect, Disconnect, ReadHello, ReadError
<1>5. ASSUME NEW c \in Client, Reply(c) PROVE LiveTypeOK'
  <2>1. CASE closed[c] /\ UNCHANGED queue
    BY <1>5, <2>1 DEF Reply
  <2>2. CASE Len(queue[c]) < Buffer /\ queue' = [queue EXCEPT ![c] = Append(@, Hello)]
    <3>1. Append(queue[c], Hello) \in Seq(0..sent) /\ Len(Append(queue[c], Hello)) = Len(queue[c]) + 1
      BY AppendProperties DEF Hello
    <3>2. Len(queue[c]) + 1 <= Buffer
      BY <2>2, LenProperties, BufferAssumption
    <3> QED
      BY <1>5, <2>2, <3>1, <3>2 DEF Reply
  <2> QED
    BY <1>5, <2>1, <2>2 DEF Reply
<1>6. ASSUME NEW c \in Client, Write(c) PROVE LiveTypeOK'
  <2>1. /\ Head(queue[c]) \in 0..sent /\ Tail(queue[c]) \in Seq(0..sent)
        /\ Len(Tail(queue[c])) <= Buffer
    <3>1. queue[c] \in Seq(0..sent) /\ queue[c] # << >>
      BY <1>6 DEF Write
    <3>2. /\ Head(queue[c]) \in 0..sent /\ Tail(queue[c]) \in Seq(0..sent)
          /\ Len(Tail(queue[c])) = Len(queue[c]) - 1
      BY <3>1, HeadTailProperties
    <3>3. Len(queue[c]) \in Nat
      BY <3>1, LenProperties
    <3> QED
      BY <3>2, <3>3, BufferAssumption
  <2> QED
    BY <1>6, <2>1 DEF Write
<1>7. ASSUME NEW c \in Client, WriterEnd(c) PROVE LiveTypeOK'
    BY <1>7 DEF WriterEnd
<1> QED
    BY <1>0, <1>1, <1>2, <1>3, <1>4, <1>5, <1>6, <1>7, Steps DEF ClientStep

\* The hub has no connection whose channel is closed or whose handler is done.
LEMMA ConnectionsStep ==
    ASSUME LiveTypeOK, ConnectionsInv, NothingLeftBehind, [LiveNext]_liveVars
    PROVE  ConnectionsInv' /\ NothingLeftBehind'
<1> DEFINE Sound(c) ==
        /\ c \in connections => ~closed[c]
        /\ reader[c] \in {"none", "register"} =>
              /\ c \notin connections /\ ~closed[c]
              /\ writer[c] = "none" /\ queue[c] = << >>
        /\ socket[c] = "none" => reader[c] = "none"
        /\ writer[c] = "done" => socket[c] = "closed"
        /\ reader[c] = "done" => c \notin connections /\ closed[c]
<1>1. \A c \in Client : Sound(c)
    BY DEF ConnectionsInv, NothingLeftBehind
<1>2. CASE ReloadResource \/ UNCHANGED liveVars
    BY <1>1, <1>2 DEF ReloadResource, liveVars, ConnectionsInv, NothingLeftBehind
<1>3. ASSUME NEW c \in Client, ClientStep(c) PROVE Sound(c)'
  <2> USE DEF LiveTypeOK, hubVars
  <2>1. CASE Offer(c)
    BY <1>1, <2>1 DEF Offer, Overflow, DropAndClose
  <2>2. CASE Register(c) \/ Unregister(c)
    BY <1>1, <2>2 DEF Register, Unregister, Remove
  <2>3. CASE Connect(c) \/ Disconnect(c) \/ ReadHello(c) \/ ReadError(c)
    BY <1>1, <2>3 DEF Connect, Disconnect, ReadHello, ReadError
  <2>4. CASE Reply(c)
    BY <1>1, <2>4 DEF Reply
  <2>5. CASE Write(c)
    BY <1>1, <2>5 DEF Write
  <2>6. CASE WriterEnd(c)
    BY <1>1, <2>6 DEF WriterEnd
  <2> QED
    BY <1>3, <2>1, <2>2, <2>3, <2>4, <2>5, <2>6 DEF ClientStep
<1>4. ASSUME NEW c \in Client, ClientStep(c), NEW d \in Client, d # c PROVE Sound(d)'
    BY <1>1, <1>4, OneConnectionMoves
<1>5. ASSUME NEW c \in Client, ClientStep(c) PROVE \A d \in Client : Sound(d)'
    BY <1>3, <1>4, <1>5
<1> QED
    BY <1>2, <1>5, Steps DEF ConnectionsInv, NothingLeftBehind

\* Each send channel goes on holding what its browser lacks.
LEMMA QueueStep ==
    ASSUME LiveTypeOK, ConnectionsInv, QueueInv, [LiveNext]_liveVars
    PROVE  QueueInv'
<1> DEFINE Holds(c) ==
        writer[c] = "write" =>
            /\ Gapless(queue[c], last[c])
            /\ c \in connections => Covers(queue[c], last[c], Offered(c))
<1>1. \A c \in Client : Holds(c)
    BY DEF QueueInv
<1>2. \A c \in Client : queue[c] \in Seq(Nat) /\ last[c] \in Nat /\ sent \in Nat
  <2>1. 0..sent \subseteq Nat
    BY DEF LiveTypeOK
  <2> QED
    BY <2>1, SeqMonotonic DEF LiveTypeOK
<1>3. CASE UNCHANGED liveVars
    BY <1>3 DEF liveVars, QueueInv, Offered
<1>4. CASE ReloadResource
  <2>1. \A c \in connections : Offered(c) = sent /\ Offered(c)' = sent
    BY <1>2, <1>4 DEF ReloadResource, HubIdle, Offered, LiveTypeOK
  <2> QED
    BY <1>1, <1>4, <2>1 DEF ReloadResource, QueueInv
<1>5. ASSUME NEW c \in Client, ClientStep(c) PROVE Holds(c)'
  <2> USE DEF LiveTypeOK, hubVars
  <2>1. CASE Offer(c)
    <3>1. CASE Len(queue[c]) < Buffer
      <4>1. c \in connections /\ Offered(c) = sent - 1 /\ Offered(c)' = sent
        BY <1>2, <2>1, <3>1 DEF Offer, Offered
      <4>2. ASSUME writer[c] = "write"
            PROVE  Gapless(Append(queue[c], sent), last[c]) /\ Covers(Append(queue[c], sent), last[c], sent)
        <5>1. Gapless(queue[c], last[c]) /\ Covers(queue[c], last[c], sent - 1)
          BY <1>1, <4>1, <4>2
        <5>2. sent - 1 \in Nat /\ (sent - 1) + 1 = sent
          BY <1>2, <5>1 DEF Covers
        <5>3. /\ Gapless(Append(queue[c], (sent - 1) + 1), last[c])
              /\ Covers(Append(queue[c], (sent - 1) + 1), last[c], (sent - 1) + 1)
          BY <1>2, <5>1, <5>2, AppendReload
        <5> QED
          BY <5>2, <5>3
      <4>3. queue'[c] = Append(queue[c], sent) /\ last'[c] = last[c] /\ writer'[c] = writer[c]
        BY <2>1, <3>1 DEF Offer
      <4> QED
        BY <4>1, <4>2, <4>3
    <3>2. CASE ~(Len(queue[c]) < Buffer)
      <4>1. c \notin connections' /\ UNCHANGED <<queue, last, writer>>
        BY <2>1, <3>2 DEF Offer, Overflow, DropAndClose
      <4> QED
        BY <1>1, <4>1
    <3> QED
      BY <3>1, <3>2
  <2>2. CASE Register(c)
    <3>1. queue'[c] = << >> /\ last'[c] = sent /\ Offered(c)' = sent
      BY <2>2 DEF Register, ConnectionsInv, Offered, HubIdle
    <3>2. DOMAIN << >> = {}
      BY EmptySeq, LenProperties
    <3>3. Gapless(<< >>, sent) /\ Covers(<< >>, sent, sent)
      BY <1>2, <3>2 DEF Gapless, Covers
    <3> QED
      BY <3>1, <3>3
  <2>3. CASE Unregister(c)
    BY <1>1, <2>3 DEF Unregister, Remove, Offered
  <2>4. CASE Connect(c) \/ Disconnect(c) \/ ReadHello(c) \/ ReadError(c)
    <3>1. UNCHANGED <<connections, todo, queue, last, writer, sent>>
      BY <2>4 DEF Connect, Disconnect, ReadHello, ReadError
    <3> QED
      BY <1>1, <3>1 DEF Offered
  <2>5. CASE Reply(c)
    <3>1. CASE UNCHANGED queue
      BY <1>1, <2>5, <3>1 DEF Reply, Offered
    <3>2. CASE ~closed[c]
      <4>1. queue'[c] = Append(queue[c], Hello) /\ UNCHANGED <<connections, todo, last, writer, sent>>
        BY <2>5, <3>2 DEF Reply
      <4>2. ASSUME writer[c] = "write", c \in connections
            PROVE  Offered(c) \in Nat
        BY <1>1, <1>2, <4>2 DEF Offered, Covers
      <4> QED
        BY <1>1, <1>2, <4>1, <4>2, AppendHello DEF Offered
    <3> QED
      BY <2>5, <3>1, <3>2 DEF Reply
  <2>6. CASE Write(c)
    <3>1. CASE socket[c] = "open"
      <4>1. /\ queue'[c] = Tail(queue[c]) /\ queue[c] # << >> /\ writer[c] = "write"
            /\ last'[c] = IF Head(queue[c]) = Hello THEN last[c] ELSE Head(queue[c])
            /\ UNCHANGED <<connections, todo, writer, sent>>
        BY <2>6, <3>1 DEF Write
      <4>2. ASSUME c \in connections
            PROVE  Offered(c) \in Nat
        BY <1>1, <1>2, <4>1, <4>2 DEF Offered, Covers
      <4>3. /\ Gapless(Tail(queue[c]), last'[c])
            /\ \A n \in Nat : Covers(queue[c], last[c], n) => Covers(Tail(queue[c]), last'[c], n)
        BY <1>1, <1>2, <4>1, TakeNext
      <4> QED
        BY <1>1, <4>1, <4>2, <4>3 DEF Offered
    <3>2. CASE socket[c] # "open"
      BY <2>6, <3>2 DEF Write
    <3> QED
      BY <3>1, <3>2
  <2>7. CASE WriterEnd(c)
    BY <2>7 DEF WriterEnd
  <2> QED
    BY <1>5, <2>1, <2>2, <2>3, <2>4, <2>5, <2>6, <2>7 DEF ClientStep
<1>6. ASSUME NEW c \in Client, ClientStep(c), NEW d \in Client, d # c PROVE Holds(d)'
    BY <1>1, <1>6, OneConnectionMoves, SentStands DEF Offered
<1>7. ASSUME NEW c \in Client, ClientStep(c) PROVE \A d \in Client : Holds(d)'
    BY <1>5, <1>6, <1>7
<1> QED
    BY <1>3, <1>4, <1>7, Steps DEF QueueInv

\* The hub never sends on a closed channel, so it cannot panic, and keeps
\* nothing of a handler that has returned; each browser's channel holds exactly
\* the messages it lacks (Hub.run, Handler, Connection).
THEOREM HubIsSound == LiveSpec => []LiveInv
<1>1. LiveInit => LiveInv
  <2>1. DOMAIN << >> = {} /\ << >> \in Seq({0}) /\ Len(<< >>) = 0
    BY EmptySeq, LenProperties
  <2>2. 0..0 = {0}
    OBVIOUS
  <2> QED
    BY <2>1, <2>2, BufferAssumption DEF LiveInit, LiveInv, LiveTypeOK, HubNeverPanics, NothingLeftBehind,
       ConnectionsInv, QueueInv
<1>2. LiveInv /\ [LiveNext]_liveVars => LiveInv'
  <2> SUFFICES ASSUME LiveInv, [LiveNext]_liveVars
               PROVE  LiveInv'
    OBVIOUS
  <2>1. LiveTypeOK' /\ ConnectionsInv' /\ NothingLeftBehind' /\ QueueInv'
    BY TypeStep, ConnectionsStep, QueueStep DEF LiveInv
  <2>2. HubNeverPanics'
    BY <2>1 DEF LiveTypeOK, ConnectionsInv, HubNeverPanics
  <2> QED
    BY <2>1, <2>2 DEF LiveInv
<1> QED
    BY <1>1, <1>2, PTL DEF LiveSpec

-----------------------------------------------------------------------------
(* What browsers see                                                       *)

\* What ReloadFeed shows of the browser of c.
Seen(c) == IF Status(c) = "joined" THEN last[c] ELSE 0

\* A step that changes neither is none of ReloadFeed; one that changes them for
\* one connection only is a step of that browser.
LEMMA FeedVars ==
    /\ Feed!vars = <<sent, [c \in Client |-> Status(c)], [c \in Client |-> Seen(c)]>>
    /\ Feed!vars' = <<sent', [c \in Client |-> Status(c)'], [c \in Client |-> Seen(c)']>>
    BY DEF Feed!vars, Seen

LEMMA OneBrowserMoves ==
    ASSUME LiveTypeOK, NEW c \in Client, ClientStep(c)
    PROVE  /\ [d \in Client |-> Status(d)'] = [[d \in Client |-> Status(d)] EXCEPT ![c] = Status(c)']
           /\ [d \in Client |-> Seen(d)'] = [[d \in Client |-> Seen(d)] EXCEPT ![c] = Seen(c)']
           /\ sent' = sent
<1>1. \A d \in Client : d # c => Status(d)' = Status(d) /\ Seen(d)' = Seen(d)
    BY OneConnectionMoves DEF Status, Seen
<1> QED
    BY <1>1, SentStands

\* Every step of the hub and of the connections is a step of ReloadFeed, or none.
LEMMA RefinementStep ==
    ASSUME LiveInv, [LiveNext]_liveVars
    PROVE  [Feed!Next]_(Feed!vars)
<1> DEFINE Goal == [Feed!Next]_(Feed!vars)
<1> USE DEF LiveInv
<1>1. CASE UNCHANGED liveVars
    BY <1>1, FeedVars DEF liveVars, Status, Seen
<1>2. CASE ReloadResource
  <2>1. Feed!Publish
    BY <1>2 DEF ReloadResource, Feed!Publish, Status
  <2> QED
    BY <2>1 DEF Feed!Next
<1>3. ASSUME NEW c \in Client, ClientStep(c) PROVE Goal
  <2>1. CASE Status(c)' = Status(c) /\ Seen(c)' = Seen(c)
    BY <1>3, <2>1, OneBrowserMoves, FeedVars
  <2>2. ASSUME Status(c) = "away", Status(c)' = "joined", last'[c] = sent PROVE Goal
    <3>1. Feed!Join(c)
      BY <1>3, <2>2, OneBrowserMoves DEF Feed!Join, Seen
    <3> QED
      BY <3>1 DEF Feed!Next
  <2>3. ASSUME Status(c) = "joined", Status(c)' = "joined", last'[c] = last[c] + 1, last[c] < sent
        PROVE  Goal
    <3>1. Feed!Deliver(c)
      BY <1>3, <2>3, OneBrowserMoves DEF Feed!Deliver, Seen
    <3> QED
      BY <3>1 DEF Feed!Next
  <2>4. ASSUME Status(c) # "gone", Status(c)' = "gone" PROVE Goal
    <3>1. Feed!Cut(c)
      BY <1>3, <2>4, OneBrowserMoves DEF Feed!Cut, Seen
    <3> QED
      BY <3>1 DEF Feed!Next
  <2> HIDE DEF Goal
  <2> USE DEF LiveTypeOK, hubVars
  <2>5. CASE Offer(c) \/ Unregister(c) \/ Connect(c) \/ ReadHello(c) \/ Reply(c) \/ ReadError(c)
    <3>1. UNCHANGED <<writer, last>> /\ (socket'[c] = "closed" <=> socket[c] = "closed")
      BY <2>5 DEF Offer, Unregister, Connect, ReadHello, Reply, ReadError
    <3> QED
      BY <2>1, <3>1 DEF Status, Seen
  <2>6. CASE Register(c)
    <3>1. writer[c] = "none" /\ writer'[c] = "write" /\ last'[c] = sent /\ socket' = socket
      BY <2>6 DEF Register, ConnectionsInv
    <3> QED
      BY <2>1, <2>2, <3>1 DEF Status, Seen
  <2>7. CASE Disconnect(c)
    BY <2>4, <2>7 DEF Disconnect, Status
  <2>8. CASE Write(c)
    <3>1. CASE socket[c] = "open"
      <4>1. queue[c] \in Seq(0..sent) /\ queue[c] # << >> /\ writer[c] = "write" /\ writer'[c] = "write"
        BY <2>8, <3>1 DEF Write
      <4>2. queue[c] \in Seq(Nat) /\ Head(queue[c]) \in 0..sent
        BY <4>1, SeqMonotonic, HeadTailProperties
      <4>3. Head(queue[c]) # Hello => Head(queue[c]) = last[c] + 1
        BY <4>1, <4>2, TakeNext DEF QueueInv
      <4>4. /\ last'[c] = IF Head(queue[c]) = Hello THEN last[c] ELSE Head(queue[c])
            /\ socket' = socket
        BY <2>8, <3>1 DEF Write
      <4>5. Status(c) = "joined" /\ Status(c)' = "joined"
        BY <3>1, <4>1, <4>4 DEF Status
      <4>6. CASE Head(queue[c]) = Hello
        BY <2>1, <4>4, <4>5, <4>6 DEF Seen
      <4>7. CASE Head(queue[c]) # Hello
        BY <2>3, <4>2, <4>3, <4>4, <4>5, <4>7
      <4> QED
        BY <4>6, <4>7
    <3>2. CASE socket[c] # "open"
      <4>1. socket[c] = "closed" /\ socket' = socket
        BY <2>8, <3>2 DEF Write, ConnectionsInv
      <4> QED
        BY <2>1, <4>1 DEF Status, Seen
    <3> QED
      BY <3>1, <3>2
  <2>9. CASE WriterEnd(c)
    <3>1. socket'[c] = "closed"
      BY <2>9 DEF WriterEnd
    <3> QED
      BY <2>1, <2>4, <3>1 DEF Status, Seen
  <2> QED
    BY <1>3, <2>5, <2>6, <2>7, <2>8, <2>9 DEF ClientStep
<1> HIDE DEF Goal
<1>4. Goal
    BY <1>1, <1>2, <1>3, Steps DEF Goal
<1> QED
    BY <1>4 DEF Goal

\* From the moment it joins until it is cut off, a browser gets every reload
\* message, in order and once each (ReloadFeed).
THEOREM FeedImplemented == LiveSpec => ImplementsReloadFeed
<1>1. LiveInit => Feed!Init
    BY DEF LiveInit, Feed!Init, Status
<1>2. LiveInv /\ [LiveNext]_liveVars => [Feed!Next]_(Feed!vars)
    BY RefinementStep
<1> QED
    BY <1>1, <1>2, HubIsSound, PTL DEF LiveSpec, ImplementsReloadFeed, Feed!Spec

-----------------------------------------------------------------------------
(* The guard                                                                *)

(* What a request from a page carries.                                      *)
Carried(host, site, origin, address, port) ==
    [hostAllowed |-> host \in AllowedHosts(address, port), query |-> NoToken,
     originAllowed |-> OriginAllowed([site |-> site, origin |-> origin], address, port)]

LEMMA RequestsCarry ==
    ASSUME NEW a, NEW p, NEW sites, NEW origins, NEW request \in Requests(a, p, sites, origins)
    PROVE  \E site, origin : /\ site \in sites /\ origin \in origins
                             /\ request = Carried(PageHost(a, p), site, origin, a, p)
    BY DEF Requests, Carried

LEMMA PageIsAllowed == \A a \in Addresses, p \in Ports : PageHost(a, p) \in AllowedHosts(a, p)
    BY DEF PageHost, AllowedHosts, Loopback

LEMMA OwnPages ==
    ASSUME NEW p \in Ports, NEW request \in FromPage[p]
    PROVE  request.hostAllowed /\ request.query = NoToken /\ request.originAllowed
<1>1. PICK a \in Addresses :
         \/ request \in Requests(a, p, {"none"}, {{}})
         \/ request \in Requests(a, p, {"", "same-origin"}, {{}, {PageHost(a, p)}})
    BY DEF FromPage, ByUser
<1>2. PICK site, origin :
         /\ site \in {"none", "", "same-origin"} /\ origin \in {{}, {PageHost(a, p)}}
         /\ request = Carried(PageHost(a, p), site, origin, a, p)
  <2>1. CASE request \in Requests(a, p, {"none"}, {{}})
    <3>1. PICK site, origin : /\ site \in {"none"} /\ origin \in {{}}
                              /\ request = Carried(PageHost(a, p), site, origin, a, p)
      BY <2>1, RequestsCarry
    <3> QED
      BY <3>1
  <2>2. CASE request \in Requests(a, p, {"", "same-origin"}, {{}, {PageHost(a, p)}})
    <3>1. PICK site, origin : /\ site \in {"", "same-origin"} /\ origin \in {{}, {PageHost(a, p)}}
                              /\ request = Carried(PageHost(a, p), site, origin, a, p)
      <4> DEFINE sites == {"", "same-origin"}
                 origins == {{}, {PageHost(a, p)}}
      <4>1. request \in Requests(a, p, sites, origins)
        BY <2>2
      <4> HIDE DEF sites, origins
      <4>2. PICK site, origin : /\ site \in sites /\ origin \in origins
                                /\ request = Carried(PageHost(a, p), site, origin, a, p)
        BY <4>1, RequestsCarry
      <4> QED
        BY <4>2 DEF sites, origins
    <3> QED
      BY <3>1
  <2> QED
    BY <1>1, <2>1, <2>2
<1>3. OriginAllowed([site |-> site, origin |-> origin], a, p)
    BY <1>2, PageIsAllowed DEF OriginAllowed
<1> QED
    BY <1>2, <1>3, PageIsAllowed DEF Carried

LEMMA OtherPages ==
    ASSUME NEW p \in Ports, NEW request \in FromOther[p]
    PROVE  request.hostAllowed /\ request.query = NoToken /\ ~request.originAllowed
<1>1. PICK a \in Addresses :
         request \in Requests(a, p, {"same-site"},
                              {{}} \cup {{PageHost(a, q)} : q \in Ports \ {p}})
    BY DEF FromOther
<1>2. PICK origin : request = Carried(PageHost(a, p), "same-site", origin, a, p)
  <2>1. PICK site, origin : /\ site \in {"same-site"}
                            /\ request = Carried(PageHost(a, p), site, origin, a, p)
    BY <1>1, RequestsCarry
  <2> QED
    BY <2>1
<1>3. ~OriginAllowed([site |-> "same-site", origin |-> origin], a, p)
    BY DEF OriginAllowed
<1>4. request.hostAllowed /\ request.query = NoToken
    BY <1>2, PageIsAllowed DEF Carried
<1>5. request.originAllowed = OriginAllowed([site |-> "same-site", origin |-> origin], a, p)
    BY <1>2 DEF Carried
<1> QED
    BY <1>3, <1>4, <1>5

(* A browser with this run's token is let in, and one that another page     *)
(* sends is not, whatever it has.                                           *)
LEMMA TokensAreEnough == TokensInv /\ opened \subseteq Ports => StaysAdmitted
    BY OwnPages DEF TokensInv, StaysAdmitted, Guard

LEMMA OthersStayOut == PreviewsAreApart
    BY OtherPages DEF PreviewsAreApart, Guard

-----------------------------------------------------------------------------
(* The handlers                                                             *)

HandlerStates == [pc : {"idle", "find", "found", "open", "written", "saved", "done"},
                  name : Names \cup {NoName}, path : Files \cup {NoFile}, rev : Nat,
                  current : BOOLEAN, clean : BOOLEAN]

(* A handler is where it was, if perhaps not alone with its file any more.  *)
Kept(s, t) ==
    /\ t.pc = s.pc /\ t.name = s.name /\ t.path = s.path /\ t.rev = s.rev
    /\ t.current = s.current /\ (t.clean => s.clean)

LEMMA Disturbs ==
    ASSUME TypeOK, NEW f, NEW hs
    PROVE  /\ Disturb(f, hs) \in [Handlers -> HandlerStates]
           /\ \A g \in Handlers :
                /\ Kept(handler[g], Disturb(f, hs)[g])
                /\ Disturb(f, hs)[g].clean => handler[g].path # f \/ g \in hs
<1> SUFFICES ASSUME NEW g \in Handlers
             PROVE  /\ Disturb(f, hs)[g] \in HandlerStates
                    /\ Kept(handler[g], Disturb(f, hs)[g])
                    /\ Disturb(f, hs)[g].clean => handler[g].path # f \/ g \in hs
    BY DEF Disturb
<1>1. handler[g] \in HandlerStates
    BY DEF TypeOK, HandlerStates
<1> DEFINE s == handler[g]
<1>2. [s EXCEPT !.clean = FALSE] \in HandlerStates /\ Kept(s, [s EXCEPT !.clean = FALSE])
      /\ ~[s EXCEPT !.clean = FALSE].clean
    BY <1>1 DEF HandlerStates, Kept
<1>3. s \in HandlerStates /\ Kept(s, s)
    BY <1>1 DEF HandlerStates, Kept
<1>4. Disturb(f, hs)[g] = IF s.path = f /\ g \notin hs THEN [s EXCEPT !.clean = FALSE] ELSE s
    BY DEF Disturb
<1> HIDE DEF s
<1> QED
    BY <1>2, <1>3, <1>4 DEF s

(* What each step of a handler does to it and to the others.                *)
LEMMA PutDoes ==
    ASSUME TypeOK, NEW h \in Handlers, NEW n \in Names, Put(h, n)
    PROVE  /\ handler' \in [Handlers -> HandlerStates]
           /\ handler'[h] = [Idle EXCEPT !.pc = "find", !.name = n]
           /\ handler'[h].pc = "find" /\ handler'[h].name = n
           /\ \A g \in Handlers \ {h} : handler'[g] = handler[g]
<1>1. [Idle EXCEPT !.pc = "find", !.name = n] \in HandlerStates
    BY DEF Idle, HandlerStates
<1>2. handler \in [Handlers -> HandlerStates]
    BY DEF TypeOK, HandlerStates
<1>3. handler' = [handler EXCEPT ![h] = [Idle EXCEPT !.pc = "find", !.name = n]]
    BY DEF Put
<1>4. /\ [Idle EXCEPT !.pc = "find", !.name = n].pc = "find"
      /\ [Idle EXCEPT !.pc = "find", !.name = n].name = n
    BY DEF Idle
<1> QED
    BY <1>1, <1>2, <1>3, <1>4

(* Goto moves one handler and nothing else of it.                           *)
LEMMA Goes ==
    ASSUME TypeOK, NEW h \in Handlers,
           NEW pc \in {"idle", "find", "found", "open", "written", "saved", "done"}, Goto(h, pc)
    PROVE  /\ handler' \in [Handlers -> HandlerStates]
           /\ handler'[h].pc = pc
           /\ handler'[h].name = handler[h].name /\ handler'[h].path = handler[h].path
           /\ handler'[h].rev = handler[h].rev /\ handler'[h].current = handler[h].current
           /\ handler'[h].clean = handler[h].clean
           /\ \A g \in Handlers \ {h} : handler'[g] = handler[g]
<1>1. handler \in [Handlers -> HandlerStates] /\ handler[h] \in HandlerStates
    BY DEF TypeOK, HandlerStates
<1> DEFINE s == handler[h]
           t == [s EXCEPT !.pc = pc]
<1>2. handler' = [handler EXCEPT ![h] = t]
    BY DEF Goto
<1>3. /\ t \in HandlerStates /\ t.pc = pc /\ t.name = s.name /\ t.path = s.path
      /\ t.rev = s.rev /\ t.current = s.current /\ t.clean = s.clean
    BY <1>1 DEF HandlerStates
<1> HIDE DEF t
<1> QED
    BY <1>1, <1>2, <1>3

LEMMA FindDoes ==
    ASSUME TypeOK, NEW h \in Handlers, handler[h].name \in Names, Find(h),
           memory[handler[h].name] # Nothing
    PROVE  /\ handler' \in [Handlers -> HandlerStates]
           /\ handler'[h].pc = "found" /\ handler'[h].name = handler[h].name
           /\ handler'[h].path = memory[handler[h].name].path
           /\ handler'[h].rev = handler[h].rev
           /\ handler'[h].current
           /\ handler'[h].clean => Alone(h, memory[handler[h].name].path)
           /\ \A g \in Handlers \ {h} :
                /\ Kept(handler[g], handler'[g])
                /\ handler'[g].clean => handler[g].path # memory[handler[h].name].path
<1> DEFINE s == handler[h]
           r == memory[s.name]
           t == [s EXCEPT !.pc = "found", !.path = r.path, !.current = TRUE,
                          !.clean = Alone(h, r.path)]
<1>1. handler' = [Disturb(r.path, {}) EXCEPT ![h] = t]
    BY Zenon DEF Find
<1>2. s \in HandlerStates
    BY DEF TypeOK, HandlerStates
<1>3. /\ t.pc = "found" /\ t.name = s.name /\ t.path = r.path /\ t.rev = s.rev /\ t.current
      /\ t.clean => Alone(h, r.path)
    BY <1>2 DEF HandlerStates
<1>4. t \in HandlerStates
  <2>1. Alone(h, r.path) \in BOOLEAN
    BY DEF Alone
  <2>2. r.path \in Files
    BY DEF TypeOK
  <2> QED
    BY <1>2, <2>1, <2>2 DEF HandlerStates
<1> HIDE DEF t
<1> QED
    BY <1>1, <1>3, <1>4, Disturbs

LEMMA TruncateDoes ==
    ASSUME TypeOK, NEW h \in Handlers, Truncate(h)
    PROVE  \/ Goto(h, "done") /\ UNCHANGED <<disk, events>>
           \/ /\ disk' = [disk EXCEPT ![handler[h].path] = Cut]
              /\ events' = Notify(handler[h].path)
              /\ handler' \in [Handlers -> HandlerStates]
              /\ handler'[h].pc = "open" /\ handler'[h].name = handler[h].name
              /\ handler'[h].path = handler[h].path /\ handler'[h].current = handler[h].current
              /\ handler'[h].rev = handler[h].rev /\ handler'[h].clean = handler[h].clean
              /\ \A g \in Handlers \ {h} :
                   /\ Kept(handler[g], handler'[g])
                   /\ handler'[g].clean => handler[g].path # handler[h].path
<1> DEFINE s == handler[h]
           f == s.path
           t == [s EXCEPT !.pc = "open"]
<1>0. \/ Goto(h, "done") /\ UNCHANGED <<disk, events>>
      \/ /\ disk' = [disk EXCEPT ![f] = Cut]
         /\ events' = Notify(f)
         /\ handler' = [Disturb(f, {h}) EXCEPT ![h].pc = "open"]
    BY DEF Truncate
<1>1. handler' = [Disturb(f, {h}) EXCEPT ![h].pc = "open"] =>
         handler' = [Disturb(f, {h}) EXCEPT ![h] = t]
  <2>1. Disturb(f, {h})[h] = s /\ h \in DOMAIN Disturb(f, {h})
    BY DEF Disturb
  <2> QED
    BY <2>1
<1>2. s \in HandlerStates
    BY DEF TypeOK, HandlerStates
<1>3. /\ t \in HandlerStates /\ t.pc = "open" /\ t.name = s.name /\ t.path = s.path
      /\ t.rev = s.rev /\ t.current = s.current /\ t.clean = s.clean
    BY <1>2 DEF HandlerStates
<1> HIDE DEF t
<1>4. handler' = [Disturb(f, {h}) EXCEPT ![h] = t] =>
         /\ handler' \in [Handlers -> HandlerStates] /\ handler'[h] = t
         /\ \A g \in Handlers \ {h} :
              /\ Kept(handler[g], handler'[g])
              /\ handler'[g].clean => handler[g].path # f
    BY <1>3, Disturbs
<1> QED
    BY <1>0, <1>1, <1>3, <1>4

LEMMA RevisionIsNew == TypeOK => Revision \in Rev
<1> SUFFICES ASSUME TypeOK PROVE Revision \in Rev
    OBVIOUS
<1>1. Cardinality({h \in Handlers : handler[h].rev > 0}) \in Nat
    BY BoundsAssumption, FS_Subset, FS_CardinalityType
<1> QED
    BY <1>1 DEF Revision, Rev, TypeOK

LEMMA EncodeDoes ==
    ASSUME TypeOK, NEW h \in Handlers, Encode(h)
    PROVE  \/ Goto(h, "done") /\ UNCHANGED <<disk, events, homes>>
           \/ /\ \E d \in {[name |-> handler[h].name, rev |-> Revision]}
                         \cup (IF disk[handler[h].path] = Cut THEN {} ELSE {Mixed}) :
                    disk' = [disk EXCEPT ![handler[h].path] = d]
              /\ events' = Notify(handler[h].path)
              /\ homes' = [homes EXCEPT ![handler[h].name] = @ \cup {handler[h].path}]
              /\ handler' \in [Handlers -> HandlerStates]
              /\ handler'[h].pc = "written" /\ handler'[h].name = handler[h].name
              /\ handler'[h].path = handler[h].path /\ handler'[h].current = handler[h].current
              /\ handler'[h].rev = Revision /\ handler'[h].clean = handler[h].clean
              /\ \A g \in Handlers \ {h} :
                   /\ Kept(handler[g], handler'[g])
                   /\ handler'[g].clean => handler[g].path # handler[h].path
<1> DEFINE s == handler[h]
           f == s.path
           doc == [name |-> s.name, rev |-> Revision]
           t == [s EXCEPT !.pc = "written", !.rev = Revision]
<1>0. \/ Goto(h, "done") /\ UNCHANGED <<disk, events, homes>>
      \/ /\ disk' \in {[disk EXCEPT ![f] = d] : d \in {doc} \cup (IF disk[f] = Cut THEN {} ELSE {Mixed})}
         /\ events' = Notify(f)
         /\ homes' = [homes EXCEPT ![s.name] = @ \cup {f}]
         /\ handler' = [Disturb(f, {h}) EXCEPT ![h].pc = "written", ![h].rev = Revision]
    BY DEF Encode
<1>1. handler' = [Disturb(f, {h}) EXCEPT ![h].pc = "written", ![h].rev = Revision] =>
         handler' = [Disturb(f, {h}) EXCEPT ![h] = t]
  <2>1. Disturb(f, {h})[h] = s /\ h \in DOMAIN Disturb(f, {h})
    BY DEF Disturb
  <2> QED
    BY <2>1
<1>2. s \in HandlerStates /\ Revision \in Nat
    BY RevisionIsNew DEF TypeOK, HandlerStates, Rev
<1>3. /\ t \in HandlerStates /\ t.pc = "written" /\ t.name = s.name /\ t.path = s.path
      /\ t.rev = Revision /\ t.current = s.current /\ t.clean = s.clean
    BY <1>2 DEF HandlerStates
<1> HIDE DEF t
<1>4. handler' = [Disturb(f, {h}) EXCEPT ![h] = t] =>
         /\ handler' \in [Handlers -> HandlerStates] /\ handler'[h] = t
         /\ \A g \in Handlers \ {h} :
              /\ Kept(handler[g], handler'[g])
              /\ handler'[g].clean => handler[g].path # f
    BY <1>3, Disturbs
<1> QED
    BY <1>0, <1>1, <1>3, <1>4

LEMMA RespondDoes ==
    ASSUME TypeOK, HomesInv, NEW h \in Handlers, Respond(h)
    PROVE  /\ Goto(h, "saved")
           /\ memory' \in [Names -> {Nothing} \cup [path : Files, rev : Rev]]
           /\ \A n \in Names : memory'[n] =
                 IF n = handler[h].name /\ handler[h].current
                 THEN [path |-> memory[n].path, rev |-> handler[h].rev] ELSE memory[n]
<1> DEFINE s == handler[h]
           m == memory[s.name]
<1>1. s.name \in Names /\ s.rev \in Rev /\ m # Nothing
    BY DEF Respond, At, HomesInv
<1>2. m \in [path : Files, rev : Rev]
    BY <1>1 DEF TypeOK
<1>3. [m EXCEPT !.rev = s.rev] = [path |-> m.path, rev |-> s.rev]
    BY <1>2
<1>4. memory' = IF s.current THEN [memory EXCEPT ![s.name] = [m EXCEPT !.rev = s.rev]] ELSE memory
    BY DEF Respond, SetRaw
<1>5. [path |-> m.path, rev |-> s.rev] \in [path : Files, rev : Rev]
    BY <1>1, <1>2
<1>6. memory \in [Names -> {Nothing} \cup [path : Files, rev : Rev]]
    BY DEF TypeOK
<1>7. Goto(h, "saved")
    BY DEF Respond
<1> QED
    BY <1>1, <1>3, <1>4, <1>5, <1>6, <1>7

(* After an Add, no handler holds the Resource that it replaced.            *)
LEMMA AddDoes ==
    ASSUME TypeOK, Add, ~crashed'
    PROVE  /\ watcher \in [name : Names, rev : Rev, path : Files] /\ watcher' = Missing
           /\ memory' = [memory EXCEPT ![watcher.name] = [path |-> watcher.path, rev |-> watcher.rev]]
           /\ reload' = reload \cup {watcher.name}
           /\ UNCHANGED <<disk, events, shown, access, edits, homes, crashed>>
           /\ handler' \in [Handlers -> HandlerStates]
           /\ \A h \in Handlers :
                /\ handler'[h].pc = handler[h].pc /\ handler'[h].name = handler[h].name
                /\ handler'[h].path = handler[h].path /\ handler'[h].rev = handler[h].rev
                /\ handler'[h].clean = handler[h].clean
                /\ handler'[h].current = (handler[h].current /\ handler[h].name # watcher.name)
<1>1. /\ memory' = [memory EXCEPT ![watcher.name] = [path |-> watcher.path, rev |-> watcher.rev]]
      /\ handler' = [h \in Handlers |->
                       IF handler[h].name = watcher.name
                       THEN [handler[h] EXCEPT !.current = FALSE] ELSE handler[h]]
      /\ reload' = reload \cup {watcher.name} /\ watcher' = Missing /\ watcher # Missing
      /\ UNCHANGED <<disk, events, shown, access, edits, homes, crashed>>
    BY DEF Add, Reload
<1>2. watcher \in [name : Names, rev : Rev, path : Files]
    BY <1>1 DEF TypeOK
<1>3. ASSUME NEW h \in Handlers
      PROVE  /\ handler'[h] \in HandlerStates
             /\ handler'[h].pc = handler[h].pc /\ handler'[h].name = handler[h].name
             /\ handler'[h].path = handler[h].path /\ handler'[h].rev = handler[h].rev
             /\ handler'[h].clean = handler[h].clean
             /\ handler'[h].current = (handler[h].current /\ handler[h].name # watcher.name)
  <2> DEFINE s == handler[h]
  <2>1. s \in HandlerStates
    BY DEF TypeOK, HandlerStates
  <2>2. handler'[h] = IF s.name = watcher.name THEN [s EXCEPT !.current = FALSE] ELSE s
    BY <1>1
  <2>3. /\ [s EXCEPT !.current = FALSE] \in HandlerStates
        /\ [s EXCEPT !.current = FALSE].pc = s.pc /\ [s EXCEPT !.current = FALSE].name = s.name
        /\ [s EXCEPT !.current = FALSE].path = s.path /\ [s EXCEPT !.current = FALSE].rev = s.rev
        /\ [s EXCEPT !.current = FALSE].clean = s.clean
        /\ [s EXCEPT !.current = FALSE].current = FALSE
    BY <2>1 DEF HandlerStates
  <2>4. s.current \in BOOLEAN
    BY <2>1 DEF HandlerStates
  <2> QED
    BY <2>1, <2>2, <2>3, <2>4
<1> QED
    BY <1>1, <1>2, <1>3

LEMMA AddCrashes ==
    ASSUME TypeOK, Add, crashed'
    PROVE  UNCHANGED <<disk, events, watcher, memory, handler, shown, reload, access, edits, homes>>
    BY DEF Add, server

(* A new run of this server: it has read the files, and nothing is under way. *)
LEMMA MainStarts ==
    ASSUME TypeOK, Start(Main)
    PROVE  /\ memory' \in [Names -> {Nothing} \cup [path : Files, rev : Rev]] /\ Loaded(memory')
           /\ handler' \in [Handlers -> HandlerStates]
           /\ \A h \in Handlers : handler'[h].pc = "done"
           /\ watcher' = Missing /\ events' = [f \in Files |-> 0] /\ crashed' = FALSE
           /\ shown' = [n \in Names |-> 0] /\ reload' = {}
           /\ UNCHANGED <<disk, jar, edits, homes>>
<1>1. /\ memory' \in {m \in [Names -> {Nothing} \cup
                               {[path |-> f, rev |-> disk[f].rev] : f \in Files}] : Loaded(m)}
      /\ handler' = [h \in Handlers |-> [handler[h] EXCEPT !.pc = "done"]]
      /\ watcher' = Missing /\ events' = [f \in Files |-> 0] /\ crashed' = FALSE
      /\ shown' = [n \in Names |-> 0] /\ reload' = {}
      /\ UNCHANGED <<disk, jar, edits, homes>>
    BY DEF Start
<1>2. \A h \in Handlers : handler[h] \in HandlerStates
    BY DEF TypeOK, HandlerStates
<1>3. \A h \in Handlers : /\ [handler[h] EXCEPT !.pc = "done"] \in HandlerStates
                          /\ [handler[h] EXCEPT !.pc = "done"].pc = "done"
    BY <1>2 DEF HandlerStates
<1>4. memory' \in [Names -> {Nothing} \cup [path : Files, rev : Rev]]
  <2> SUFFICES ASSUME NEW n \in Names PROVE memory'[n] \in {Nothing} \cup [path : Files, rev : Rev]
    BY <1>1
  <2>1. \/ \E f \in Files : disk[f].name = n /\ memory'[n] = [path |-> f, rev |-> disk[f].rev]
        \/ memory'[n] = Nothing
    BY <1>1 DEF Loaded
  <2>2. \A f \in Files : disk[f].name = n => disk[f].rev \in Rev
    BY NamesAssumption DEF TypeOK, Documents, Missing, Cut, Mixed
  <2>3. CASE \E f \in Files : disk[f].name = n /\ memory'[n] = [path |-> f, rev |-> disk[f].rev]
    <3>1. PICK f \in Files : disk[f].name = n /\ memory'[n] = [path |-> f, rev |-> disk[f].rev]
      BY <2>3
    <3>2. disk[f].rev \in Rev
      BY <3>1, <2>2
    <3> DEFINE r == disk[f].rev
    <3> HIDE DEF r
    <3> QED
      BY <3>1, <3>2 DEF r
  <2> QED
    BY <2>1, <2>3
<1> QED
    BY <1>1, <1>3, <1>4

-----------------------------------------------------------------------------
(* The invariant, without what TokensAreEnough and OthersStayOut add to it. *)
IInv == TypeOK /\ TokensInv /\ HomesInv /\ WatcherInv /\ FilesInv /\ CleanInv

(* What CleanInv says of one handler that has its file to itself.           *)
Clean(h) ==
    LET s == handler[h] IN
    /\ \A g \in Handlers \ {h} : handler[g].path # s.path \/ handler[g].pc = "done"
    /\ s.pc = "found" => events[s.path] = 0
    /\ s.pc = "open" => disk[s.path] = Cut
    /\ s.pc \in {"found", "open"} => s.current /\ (watcher = Missing \/ watcher.path # s.path)
    /\ s.pc \in {"written", "saved"} =>
          /\ disk[s.path] = [name |-> s.name, rev |-> s.rev]
          /\ \/ watcher = Missing \/ watcher.path # s.path
             \/ watcher = [name |-> s.name, rev |-> s.rev, path |-> s.path]
          /\ (s.pc = "written" /\ s.current) \/ memory[s.name].rev = s.rev

(* A browser opens the URL: its cookie is this run's token, and that of the *)
(* other preview stays.                                                     *)
LEMMA OpenURLKeeps ==
    ASSUME IInv, NEW p \in Ports, OpenURL(p)
    PROVE  IInv'
<1> USE DEF IInv
<1>1. /\ jar' = [jar EXCEPT ![p] = token[p]] /\ opened' = opened \cup {p}
      /\ UNCHANGED <<disk, events, watcher, memory, handler, shown, reload, token,
                     edits, crashed, homes>>
    BY DEF OpenURL, CookieName, server, browser
<1>2. TypeOK'
    BY <1>1 DEF TypeOK
<1>3. TokensInv'
    BY <1>1 DEF TokensInv, CookieName, TypeOK
<1>4. HomesInv' /\ WatcherInv' /\ FilesInv' /\ CleanInv'
    BY <1>1 DEF HomesInv, WatcherInv, FilesInv, CleanInv, Known
<1> QED
    BY <1>2, <1>3, <1>4

(* A server starts: the URL of its last run is void.                        *)
LEMMA StartKeeps ==
    ASSUME IInv, NEW p \in Ports, Start(p)
    PROVE  IInv'
<1> USE DEF IInv
<1>1. /\ token' = [token EXCEPT ![p][2] = @ + 1] /\ opened' = opened \ {p}
      /\ UNCHANGED <<disk, jar, edits, homes>>
    BY DEF Start
<1>2. TokensInv'
    BY <1>1 DEF TokensInv, CookieName, TypeOK
<1>3. token' \in [Ports -> Ports \X Nat]
  <2>1. token[p] \in Ports \X Nat
    BY DEF TypeOK
  <2>2. [token[p] EXCEPT ![2] = @ + 1] \in Ports \X Nat
    BY <2>1
  <2> DEFINE t == [token[p] EXCEPT ![2] = @ + 1]
  <2>3. token' = [token EXCEPT ![p] = t]
    BY <1>1
  <2> HIDE DEF t
  <2> QED
    BY <2>2, <2>3 DEF t, TypeOK
<1>4. CASE p = Main
  <2>1. /\ memory' \in [Names -> {Nothing} \cup [path : Files, rev : Rev]] /\ Loaded(memory')
        /\ handler' \in [Handlers -> HandlerStates]
        /\ \A h \in Handlers : handler'[h].pc = "done"
        /\ watcher' = Missing /\ events' = [f \in Files |-> 0] /\ crashed' = FALSE
        /\ shown' = [n \in Names |-> 0] /\ reload' = {}
    BY <1>4, MainStarts
  <2>2. TypeOK'
    BY <1>1, <1>3, <2>1 DEF TypeOK, HandlerStates
  <2>3. \A n \in Names : memory'[n] # Nothing =>
           \E f \in Files : disk[f].name = n /\ memory'[n] = [path |-> f, rev |-> disk[f].rev]
    BY <2>1 DEF Loaded
  <2>4. HomesInv'
    BY <1>1, <2>1, <2>3 DEF HomesInv, Parses
  <2>5. WatcherInv' /\ CleanInv'
    BY <2>1 DEF WatcherInv, CleanInv
  <2>6. FilesInv'
    <3> SUFFICES ASSUME NEW f \in Files, Parses(disk[f]), homes[disk[f].name] = {f}
                 PROVE  Known(f, disk[f].name, disk[f].rev)'
      BY <1>1 DEF FilesInv
    <3>1. PICK g \in Files : /\ disk[g].name = disk[f].name
                             /\ memory'[disk[f].name] = [path |-> g, rev |-> disk[g].rev]
      BY <2>1 DEF Loaded, Parses
    <3>2. g = f
      BY <3>1 DEF HomesInv, Parses
    <3> QED
      BY <1>1, <2>1, <3>1, <3>2 DEF Known, Parses
  <2> QED
    BY <1>2, <2>2, <2>4, <2>5, <2>6
<1>5. CASE p # Main
  <2>1. UNCHANGED <<events, watcher, memory, handler, shown, reload, crashed>>
    BY <1>5 DEF Start, server, browser
  <2>2. TypeOK'
    BY <1>1, <1>3, <2>1 DEF TypeOK
  <2>3. HomesInv' /\ WatcherInv' /\ FilesInv' /\ CleanInv'
    BY <1>1, <2>1 DEF HomesInv, WatcherInv, FilesInv, CleanInv, Known
  <2> QED
    BY <1>2, <2>2, <2>3
<1> QED
    BY <1>4, <1>5

(* The watcher reads a file that it was told of.                            *)
LEMMA WatchKeeps ==
    ASSUME IInv, NEW f \in Files, Watch(f)
    PROVE  IInv'
<1> USE DEF IInv
<1>1. /\ watcher = Missing /\ events[f] > 0 /\ events' = [events EXCEPT ![f] = @ - 1]
      /\ watcher' = IF Parses(disk[f])
                    THEN [name |-> disk[f].name, rev |-> disk[f].rev, path |-> f] ELSE Missing
      /\ UNCHANGED <<disk, memory, handler, shown, reload, token, jar, opened, edits, crashed, homes>>
    BY DEF Watch, browser, access
<1>2. Parses(disk[f]) => disk[f] \in [name : Names, rev : Rev]
    BY NamesAssumption DEF TypeOK, Documents, Parses, Missing, Cut, Mixed
<1>3. TypeOK'
  <2>1. watcher' \in {Missing} \cup [name : Names, rev : Rev, path : Files]
    BY <1>1, <1>2
  <2>2. events' \in [Files -> Nat]
    BY <1>1 DEF TypeOK
  <2> QED
    BY <1>1, <2>1, <2>2 DEF TypeOK
<1>4. TokensInv'
    BY <1>1 DEF TokensInv
<1>5. HomesInv'
    BY <1>1 DEF HomesInv, Parses
<1>6. WatcherInv'
    BY <1>1 DEF WatcherInv, Parses
<1>7. FilesInv'
  <2> SUFFICES ASSUME NEW g \in Files, Parses(disk[g]), homes[disk[g].name] = {g}
               PROVE  \/ events'[g] > 0
                      \/ watcher' = [name |-> disk[g].name, rev |-> disk[g].rev, path |-> g]
                      \/ Known(g, disk[g].name, disk[g].rev)'
    BY <1>1 DEF FilesInv
  <2>1. CASE g = f
    BY <1>1, <2>1
  <2>2. CASE g # f
    <3>1. events[g] > 0 \/ Known(g, disk[g].name, disk[g].rev)
      BY <1>1 DEF FilesInv, Missing
    <3> QED
      BY <1>1, <2>2, <3>1 DEF Known, TypeOK
  <2> QED
    BY <2>1, <2>2
<1>8. CleanInv'
  <2> SUFFICES ASSUME NEW h \in Handlers, handler[h].clean,
                      handler[h].pc \in {"found", "open", "written", "saved"},
                      homes[handler[h].name] = {handler[h].path}
               PROVE  Clean(h)'
    BY <1>1 DEF CleanInv, Clean
  <2>1. Clean(h)
    BY DEF CleanInv, Clean
  <2> DEFINE w == watcher'
             x == handler[h]
  <2>2. events'[x.path] = 0 \/ x.pc # "found"
    BY <1>1, <2>1 DEF Clean, TypeOK
  <2>3. x.pc \in {"found", "open"} => x.current /\ (w = Missing \/ w.path # x.path)
    <3>1. CASE x.path = f
      <4>1. x.pc # "found"
        BY <1>1, <2>1, <3>1 DEF Clean
      <4>2. x.pc = "open" => ~Parses(disk[f])
        BY <2>1, <3>1, NamesAssumption DEF Clean, Parses, Cut
      <4> QED
        BY <1>1, <2>1, <4>1, <4>2 DEF Clean
    <3>2. CASE x.path # f
      BY <1>1, <2>1, <3>2 DEF Clean
    <3> QED
      BY <3>1, <3>2
  <2>4. x.pc \in {"written", "saved"} =>
           \/ w = Missing \/ w.path # x.path
           \/ w = [name |-> x.name, rev |-> x.rev, path |-> x.path]
    <3>1. CASE x.path = f
      BY <1>1, <2>1, <3>1 DEF Clean
    <3>2. CASE x.path # f
      BY <1>1, <2>1, <3>2 DEF Clean
    <3> QED
      BY <3>1, <3>2
  <2> QED
    BY <1>1, <2>1, <2>2, <2>3, <2>4 DEF Clean
<1> QED
    BY <1>3, <1>4, <1>5, <1>6, <1>7, <1>8

(* A browser loads a dashboard.                                             *)
LEMMA GetKeeps ==
    ASSUME IInv, NEW n \in Names, Get(n)
    PROVE  IInv'
<1> USE DEF IInv
<1>1. /\ memory[n] # Nothing /\ shown' = [shown EXCEPT ![n] = memory[n].rev]
      /\ reload' = reload \ {n}
      /\ UNCHANGED <<disk, events, watcher, memory, handler, token, jar, opened,
                     edits, crashed, homes>>
    BY DEF Get, server, access
<1>2. memory[n].rev \in Nat
    BY <1>1 DEF TypeOK, Rev
<1>3. TypeOK'
    BY <1>1, <1>2 DEF TypeOK
<1>4. FilesInv'
    BY <1>1 DEF FilesInv, Known, TypeOK, Parses
<1>5. TokensInv' /\ HomesInv' /\ WatcherInv' /\ CleanInv'
    BY <1>1 DEF TokensInv, HomesInv, WatcherInv, CleanInv
<1> QED
    BY <1>3, <1>4, <1>5

(* A handler that ends takes nothing with it.                               *)
LEMMA EndKeeps ==
    ASSUME IInv, NEW h \in Handlers, Goto(h, "done"),
           UNCHANGED <<disk, events, watcher, memory, shown, reload, token, jar, opened,
                       edits, crashed, homes>>
    PROVE  IInv'
<1> USE DEF IInv
<1>1. /\ handler' \in [Handlers -> HandlerStates] /\ handler'[h].pc = "done"
      /\ \A g \in Handlers \ {h} : handler'[g] = handler[g]
  <2>1. TypeOK
    OBVIOUS
  <2> QED
    BY <2>1, Goes
<1>2. TypeOK'
    BY <1>1 DEF TypeOK, HandlerStates
<1>3. HomesInv'
    BY <1>1 DEF HomesInv
<1>4. TokensInv' /\ WatcherInv'
    BY DEF TokensInv, WatcherInv
<1>5. FilesInv'
    BY <1>1 DEF FilesInv, Known
<1>6. CleanInv'
  <2> SUFFICES ASSUME NEW g \in Handlers \ {h}, handler[g].clean,
                      handler[g].pc \in {"found", "open", "written", "saved"},
                      homes[handler[g].name] = {handler[g].path}
               PROVE  Clean(g)'
    BY <1>1 DEF CleanInv, Clean
  <2>1. Clean(g)
    BY DEF CleanInv, Clean
  <2>2. \A i \in Handlers : handler'[i] = handler[i] \/ handler'[i].pc = "done"
    BY <1>1
  <2> HIDE DEF IInv
  <2> QED
    BY <1>1, <2>1, <2>2 DEF Clean
<1> QED
    BY <1>2, <1>3, <1>4, <1>5, <1>6

(* A request arrives.                                                       *)
LEMMA PutKeeps ==
    ASSUME IInv, NEW h \in Handlers, NEW n \in Names, Put(h, n)
    PROVE  IInv'
<1> USE DEF IInv
<1>1. /\ handler' \in [Handlers -> HandlerStates]
      /\ handler'[h] = [Idle EXCEPT !.pc = "find", !.name = n]
      /\ \A g \in Handlers \ {h} : handler'[g] = handler[g]
  <2>1. TypeOK
    OBVIOUS
  <2> QED
    BY <2>1, PutDoes
<1>2. /\ handler'[h].pc = "find" /\ handler'[h].name = n /\ handler'[h].path = NoFile
      /\ ~handler'[h].clean
    BY <1>1 DEF Idle
<1>9. \A g \in Handlers \ {h} : handler'[g] = handler[g]
    BY <1>1
<1>3. UNCHANGED <<disk, events, watcher, memory, shown, reload, token, jar, opened,
                  edits, crashed, homes>>
    BY DEF Put, browser, access
<1>4. TypeOK'
    BY <1>1, <1>3 DEF TypeOK, HandlerStates
<1>5. HomesInv'
    BY <1>1, <1>2, <1>3 DEF HomesInv
<1>6. TokensInv' /\ WatcherInv'
    BY <1>3 DEF TokensInv, WatcherInv
<1>7. FilesInv'
    BY <1>2, <1>3, <1>9 DEF FilesInv, Known
<1>8. CleanInv'
  <2> SUFFICES ASSUME NEW g \in Handlers \ {h}, handler[g].clean,
                      handler[g].pc \in {"found", "open", "written", "saved"},
                      homes[handler[g].name] = {handler[g].path}
               PROVE  Clean(g)'
    BY <1>2, <1>3, <1>9 DEF CleanInv, Clean
  <2>1. Clean(g)
    BY DEF CleanInv, Clean
  <2>2. handler[g].path \in Files
    BY DEF HomesInv, TypeOK
  <2>3. \A i \in Handlers : handler'[i] = handler[i] \/ handler'[i].path # handler[g].path
    BY <1>1, <1>2, <2>2, NamesAssumption
  <2> HIDE DEF IInv
  <2> QED
    BY <1>1, <1>3, <2>1, <2>3 DEF Clean
<1> QED
    BY <1>4, <1>5, <1>6, <1>7, <1>8

(* It finds the resource in memory, or answers that there is none.          *)
LEMMA FindKeeps ==
    ASSUME IInv, NEW h \in Handlers, Find(h)
    PROVE  IInv'
<1> USE DEF IInv
<1>1. UNCHANGED <<disk, events, watcher, memory, shown, reload, token, jar, opened,
                  edits, crashed, homes>>
    BY DEF Find, browser, access
<1>2. handler[h].name \in Names
    BY DEF Find, At, HomesInv
<1> DEFINE r == memory[handler[h].name]
<1>3. CASE r = Nothing
  <2>1. Goto(h, "done")
    BY <1>3 DEF Find
  <2> QED
    BY <1>1, <2>1, EndKeeps
<1>4. CASE r # Nothing
  <2>1. /\ handler' \in [Handlers -> HandlerStates]
        /\ handler'[h].pc = "found" /\ handler'[h].name = handler[h].name
        /\ handler'[h].path = r.path /\ handler'[h].current
        /\ handler'[h].clean => Alone(h, r.path)
        /\ \A g \in Handlers \ {h} :
             /\ Kept(handler[g], handler'[g])
             /\ handler'[g].clean => handler[g].path # r.path
    <3>1. TypeOK
      OBVIOUS
    <3> QED
      BY <1>2, <1>4, <3>1, FindDoes
  <2> HIDE DEF r
  <2>2. TypeOK'
    BY <1>1, <2>1 DEF TypeOK, HandlerStates
  <2>3. HomesInv'
    <3>1. r.path \in homes[handler[h].name] /\ memory[handler[h].name] # Nothing
      BY <1>2, <1>4 DEF HomesInv, r
    <3> QED
      BY <1>1, <1>2, <2>1, <3>1 DEF HomesInv, Kept
  <2>4. TokensInv' /\ WatcherInv'
    BY <1>1 DEF TokensInv, WatcherInv
  <2>5. FilesInv'
    BY <1>1, <2>1 DEF FilesInv, Known, Kept
  <2>6. ASSUME NEW g \in Handlers \ {h}, handler'[g].clean,
               handler[g].pc \in {"found", "open", "written", "saved"},
               homes[handler[g].name] = {handler[g].path}
        PROVE  Clean(g)'
    <3>1. Clean(g)
      BY <2>1, <2>6 DEF CleanInv, Clean, Kept
    <3> HIDE DEF IInv
    <3> QED
      BY <1>1, <2>1, <2>6, <3>1 DEF Clean, Kept
  <2>7. ASSUME handler'[h].clean PROVE Clean(h)'
    <3> HIDE DEF IInv
    <3> QED
      BY <1>1, <2>1, <2>7 DEF Clean, Kept, Alone
  <2>8. CleanInv'
    BY <1>1, <2>1, <2>6, <2>7 DEF CleanInv, Clean, Kept
  <2> QED
    BY <2>2, <2>3, <2>4, <2>5, <2>8
<1> QED
    BY <1>3, <1>4

(* It sets the document on the resource that it found.                      *)
LEMMA RespondKeeps ==
    ASSUME IInv, NEW h \in Handlers, Respond(h)
    PROVE  IInv'
<1> USE DEF IInv
<1>1. /\ UNCHANGED <<disk, events, watcher, shown, reload, token, jar, opened,
                     edits, crashed, homes>>
      /\ handler[h].pc = "written"
    BY DEF Respond, At, browser, access
<1>2. /\ Goto(h, "saved")
      /\ memory' \in [Names -> {Nothing} \cup [path : Files, rev : Rev]]
      /\ \A n \in Names : memory'[n] =
            IF n = handler[h].name /\ handler[h].current
            THEN [path |-> memory[n].path, rev |-> handler[h].rev] ELSE memory[n]
  <2>1. TypeOK /\ HomesInv
    OBVIOUS
  <2> QED
    BY <2>1, RespondDoes
<1>3. /\ handler' \in [Handlers -> HandlerStates] /\ handler'[h].pc = "saved"
      /\ handler'[h].name = handler[h].name /\ handler'[h].path = handler[h].path
      /\ handler'[h].rev = handler[h].rev /\ handler'[h].current = handler[h].current
      /\ handler'[h].clean = handler[h].clean
      /\ \A g \in Handlers \ {h} : handler'[g] = handler[g]
  <2>1. TypeOK
    OBVIOUS
  <2> QED
    BY <1>2, <2>1, Goes
<1>4. /\ handler[h].name \in Names /\ handler[h].path \in homes[handler[h].name]
      /\ handler[h].rev \in Rev /\ memory[handler[h].name] # Nothing
    BY <1>1 DEF HomesInv
<1>5. TypeOK'
    BY <1>1, <1>2, <1>3 DEF TypeOK, HandlerStates
<1>6. \A n \in Names : /\ memory[n] # Nothing => memory'[n].path = memory[n].path
                       /\ memory'[n] # Nothing => memory[n] # Nothing
                       /\ memory[n] # Nothing => memory'[n] # Nothing
  <2> SUFFICES ASSUME NEW n \in Names
               PROVE  /\ memory[n] # Nothing => memory'[n].path = memory[n].path
                      /\ memory'[n] # Nothing => memory[n] # Nothing
                      /\ memory[n] # Nothing => memory'[n] # Nothing
    OBVIOUS
  <2>1. [path |-> memory[n].path, rev |-> handler[h].rev] # Nothing
    BY <1>4 DEF Nothing, Rev
  <2> QED
    BY <1>2, <1>4, <2>1
<1>7. HomesInv'
    BY <1>1, <1>3, <1>6 DEF HomesInv
<1>8. TokensInv' /\ WatcherInv'
    BY <1>1 DEF TokensInv, WatcherInv
<1>9. FilesInv'
  <2> SUFFICES ASSUME NEW f \in Files, Parses(disk[f]), Known(f, disk[f].name, disk[f].rev)
               PROVE  Known(f, disk[f].name, disk[f].rev)'
    BY <1>1 DEF FilesInv
  <2> DEFINE n == disk[f].name
  <2>1. n \in Names
    BY DEF Parses
  <2>2. memory'[n] = memory[n]
    BY <1>1, <1>2, <2>1 DEF Known
  <2> QED
    BY <1>1, <1>3, <2>2 DEF Known
<1>10. CleanInv'
  <2>1. ASSUME NEW g \in Handlers, handler[g].clean,
               handler[g].pc \in {"found", "open", "written", "saved"},
               homes[handler[g].name] = {handler[g].path}
        PROVE  Clean(g)'
    <3>1. Clean(g) /\ handler[g].name \in Names
      BY <2>1 DEF CleanInv, Clean, HomesInv
    <3>2. g = h \/ handler[g].name # handler[h].name
      BY <1>1, <1>4, <2>1, <3>1 DEF Clean
    <3>3. CASE g = h
      <4>1. memory'[handler[h].name].rev = handler[h].rev
        BY <1>1, <1>2, <1>4, <3>1, <3>3 DEF Clean
      <4> HIDE DEF IInv
      <4> QED
        BY <1>1, <1>3, <3>1, <3>3, <4>1 DEF Clean
    <3>4. CASE handler[g].name # handler[h].name
      <4>1. memory'[handler[g].name] = memory[handler[g].name]
        BY <1>2, <3>1, <3>4
      <4>2. handler'[g] = handler[g]
        BY <1>3, <3>4
      <4>3. \A i \in Handlers : handler'[i].path = handler[i].path
                                /\ (handler[i].pc = "done" => handler'[i].pc = "done")
        BY <1>1, <1>3
      <4> HIDE DEF IInv
      <4> QED
        BY <1>1, <3>1, <4>1, <4>2, <4>3 DEF Clean
    <3> QED
      BY <3>2, <3>3, <3>4
  <2> QED
    BY <1>1, <1>3, <2>1 DEF CleanInv, Clean
<1> QED
    BY <1>5, <1>7, <1>8, <1>9, <1>10

(* What a write of a file makes of a handler, be it the writer or not.      *)
Writes(h, f) ==
    \/ /\ Kept(handler[h], handler'[h])
       /\ handler'[h].clean => handler[h].path # f
    \/ /\ handler[h].path = f /\ handler[h].pc \in {"found", "open"}
       /\ handler'[h].path = f /\ handler'[h].name = handler[h].name
       /\ handler'[h].pc \in {"open", "written"} \ {handler[h].pc}
       /\ handler'[h].pc = "written" =>
             handler'[h].rev \in Rev /\ f \in homes'[handler[h].name]

(* A file is written, by a handler or from outside: what is known of the    *)
(* other files stays, and so do the saves that have another file to         *)
(* themselves.                                                              *)
LEMMA WriteKeeps ==
    ASSUME IInv, NEW f \in Files, NEW d \in Documents,
           disk' = [disk EXCEPT ![f] = d],
           \A g \in Files \ {f} : events'[g] = events[g],
           events'[f] > 0 \/ ~Parses(d),
           homes' \in [Names -> SUBSET Files],
           \A n \in Names : homes[n] \subseteq homes'[n],
           Parses(d) => f \in homes'[d.name],
           \A h \in Handlers : Writes(h, f),
           UNCHANGED <<watcher, memory, shown, reload, token, jar, opened>>
    PROVE  /\ TokensInv' /\ HomesInv' /\ WatcherInv' /\ FilesInv'
           /\ \A h \in Handlers :
                (Kept(handler[h], handler'[h]) /\ handler'[h].clean
                 /\ handler'[h].pc \in {"found", "open", "written", "saved"}
                 /\ homes'[handler'[h].name] = {handler'[h].path}) => Clean(h)'
<1> USE DEF IInv
<1> USE DEF Writes
<1>1. /\ disk'[f] = d /\ \A g \in Files \ {f} : disk'[g] = disk[g]
    BY DEF TypeOK
<1>2. ASSUME NEW n \in Names, NEW g \in Files, homes'[n] = {g}, g \in homes[n]
      PROVE  homes[n] = {g}
    BY <1>2
<1>3. TokensInv'
    BY DEF TokensInv
<1>4. HomesInv'
  <2>1. \A g \in Files : Parses(disk'[g]) => g \in homes'[disk'[g].name]
    BY <1>1 DEF HomesInv, Parses
  <2>2. watcher' # Missing => watcher'.path \in homes'[watcher'.name]
    BY DEF HomesInv, TypeOK
  <2>3. \A n \in Names : memory'[n] # Nothing => memory'[n].path \in homes'[n]
    BY DEF HomesInv
  <2>4. ASSUME NEW h \in Handlers
        PROVE  /\ handler'[h].pc \in {"find", "found", "open", "written", "saved"} =>
                     handler'[h].name \in Names
               /\ handler'[h].pc \in {"found", "open", "written", "saved"} =>
                     /\ handler'[h].path \in homes'[handler'[h].name]
                     /\ memory'[handler'[h].name] # Nothing
               /\ handler'[h].pc \in {"written", "saved"} => handler'[h].rev \in Rev
    <3>1. CASE Kept(handler[h], handler'[h])
      BY <3>1 DEF HomesInv, Kept
    <3>2. CASE ~Kept(handler[h], handler'[h])
      BY <3>2 DEF HomesInv
    <3> QED
      BY <3>1, <3>2
  <2> QED
    BY <2>1, <2>2, <2>3, <2>4 DEF HomesInv, Parses
<1>5. WatcherInv'
    BY <1>1 DEF WatcherInv, Parses
<1>6. FilesInv'
  <2> SUFFICES ASSUME NEW g \in Files, Parses(disk'[g]), homes'[disk'[g].name] = {g}, g # f
               PROVE  \/ events'[g] > 0
                      \/ watcher' = [name |-> disk'[g].name, rev |-> disk'[g].rev, path |-> g]
                      \/ Known(g, disk[g].name, disk[g].rev)'
    BY <1>1 DEF FilesInv, Parses
  <2>1. /\ Parses(disk[g]) /\ homes[disk[g].name] = {g} /\ disk'[g] = disk[g]
        /\ disk[g].name \in Names
    BY <1>1, <1>2 DEF HomesInv, Parses
  <2>2. ASSUME Known(g, disk[g].name, disk[g].rev)
        PROVE  Known(g, disk[g].name, disk[g].rev)'
    <3>1. ASSUME NEW h \in Handlers, handler'[h].pc = "written",
                 handler'[h].name = disk[g].name, handler'[h].current
          PROVE  handler'[h].rev = disk[g].rev
      <4>1. Kept(handler[h], handler'[h])
        BY <2>1, <3>1
      <4> QED
        BY <2>2, <3>1, <4>1 DEF Known, Kept
    <3> QED
      BY <2>1, <2>2, <3>1 DEF Known
  <2> QED
    BY <2>1, <2>2 DEF FilesInv
<1>7. ASSUME NEW h \in Handlers, Kept(handler[h], handler'[h]), handler'[h].clean,
             handler'[h].pc \in {"found", "open", "written", "saved"},
             homes'[handler'[h].name] = {handler'[h].path}
      PROVE  Clean(h)'
  <2>1. /\ handler[h].name \in Names /\ handler[h].path \in homes[handler[h].name]
        /\ handler[h].path \in Files
    BY <1>7 DEF HomesInv, Kept, TypeOK
  <2>2. homes[handler[h].name] = {handler[h].path}
    BY <1>2, <1>7, <2>1 DEF Kept
  <2>3. Clean(h)
    BY <1>7, <2>2 DEF CleanInv, Clean, Kept
  <2>4. handler[h].path # f
    BY <1>7, <2>1, <2>3 DEF Clean, Kept
  <2>5. ASSUME NEW g \in Handlers \ {h}
        PROVE  handler'[g].path # handler'[h].path \/ handler'[g].pc = "done"
    BY <1>7, <2>3, <2>4 DEF Clean, Kept
  <2> HIDE DEF IInv
  <2> QED
    BY <1>1, <1>7, <2>1, <2>3, <2>4, <2>5 DEF Clean, Kept
<1> QED
    BY <1>3, <1>4, <1>5, <1>6, <1>7

(* Somebody edits a file, or a tool writes it.                              *)
LEMMA SaveKeeps ==
    ASSUME IInv, NEW f \in Files, NEW n \in Names, Save(f, n)
    PROVE  IInv'
<1> DEFINE d == [name |-> n, rev |-> Revision]
<1>1. /\ disk' = [disk EXCEPT ![f] = d] /\ events' = [events EXCEPT ![f] = @ + 1]
      /\ homes' = [homes EXCEPT ![n] = @ \cup {f}] /\ handler' = Disturb(f, {})
      /\ edits' = edits + 1
      /\ UNCHANGED <<watcher, memory, shown, reload, token, jar, opened, crashed>>
    BY DEF Save, Notify, browser, access
<1>2. TypeOK
    BY DEF IInv
<1>3. d \in Documents /\ d.name = n
    BY <1>2, RevisionIsNew DEF Documents
<1> HIDE DEF d
<1>4. /\ events' \in [Files -> Nat] /\ events'[f] > 0
      /\ \A g \in Files \ {f} : events'[g] = events[g]
    BY <1>1, <1>2 DEF TypeOK
<1>5. /\ homes' \in [Names -> SUBSET Files] /\ f \in homes'[n]
      /\ \A m \in Names : homes[m] \subseteq homes'[m]
    BY <1>1, <1>2 DEF TypeOK
<1>6. /\ handler' \in [Handlers -> HandlerStates]
      /\ \A h \in Handlers : /\ Kept(handler[h], handler'[h])
                             /\ handler'[h].clean => handler[h].path # f
    BY <1>1, <1>2, Disturbs
<1>7. TypeOK'
    BY <1>1, <1>2, <1>3, <1>4, <1>5, <1>6 DEF TypeOK, HandlerStates
<1>8. /\ TokensInv' /\ HomesInv' /\ WatcherInv' /\ FilesInv'
      /\ \A h \in Handlers :
           (Kept(handler[h], handler'[h]) /\ handler'[h].clean
            /\ handler'[h].pc \in {"found", "open", "written", "saved"}
            /\ homes'[handler'[h].name] = {handler'[h].path}) => Clean(h)'
  <2>1. \A h \in Handlers : Writes(h, f)
    BY <1>6 DEF Writes
  <2> QED
    BY <1>1, <1>3, <1>4, <1>5, <2>1, WriteKeeps
<1>9. CleanInv'
    BY <1>6, <1>8 DEF CleanInv, Clean
<1> QED
    BY <1>7, <1>8, <1>9 DEF IInv

(* A file is cut short, or removed, which the watcher is not told of.       *)
LEMMA SpoilKeeps ==
    ASSUME IInv, NEW f \in Files, Spoil(f)
    PROVE  IInv'
<1>1. PICK d \in {Cut, Missing} :
         /\ disk' = [disk EXCEPT ![f] = d]
         /\ events' = Notify(f) \/ events' = events
    BY DEF Spoil
<1>2. /\ handler' = Disturb(f, {}) /\ edits' = edits + 1
      /\ UNCHANGED <<watcher, memory, shown, reload, token, jar, opened, crashed, homes>>
    BY DEF Spoil, browser, access
<1>3. TypeOK
    BY DEF IInv
<1>4. d \in Documents /\ ~Parses(d)
    BY NamesAssumption DEF Documents, Parses, Cut, Missing
<1>5. /\ events' \in [Files -> Nat]
      /\ \A g \in Files \ {f} : events'[g] = events[g]
    BY <1>1, <1>3 DEF TypeOK, Notify
<1>6. /\ handler' \in [Handlers -> HandlerStates]
      /\ \A h \in Handlers : /\ Kept(handler[h], handler'[h])
                             /\ handler'[h].clean => handler[h].path # f
    BY <1>2, <1>3, Disturbs
<1>7. homes' \in [Names -> SUBSET Files] /\ \A m \in Names : homes[m] \subseteq homes'[m]
    BY <1>2, <1>3 DEF TypeOK
<1>8. TypeOK'
    BY <1>1, <1>2, <1>3, <1>4, <1>5, <1>6 DEF TypeOK, HandlerStates
<1>9. /\ TokensInv' /\ HomesInv' /\ WatcherInv' /\ FilesInv'
      /\ \A h \in Handlers :
           (Kept(handler[h], handler'[h]) /\ handler'[h].clean
            /\ handler'[h].pc \in {"found", "open", "written", "saved"}
            /\ homes'[handler'[h].name] = {handler'[h].path}) => Clean(h)'
  <2>1. \A h \in Handlers : Writes(h, f)
    BY <1>6 DEF Writes
  <2> QED
    BY <1>1, <1>2, <1>4, <1>5, <1>7, <2>1, WriteKeeps
<1>10. CleanInv'
    BY <1>6, <1>9 DEF CleanInv, Clean
<1> QED
    BY <1>8, <1>9, <1>10 DEF IInv

(* A handler cuts its file short before it writes it.                       *)
LEMMA TruncateKeeps ==
    ASSUME IInv, NEW h \in Handlers, Truncate(h)
    PROVE  IInv'
<1> DEFINE f == handler[h].path
<1>1. /\ handler[h].pc = "found"
      /\ UNCHANGED <<watcher, memory, shown, reload, token, jar, opened, edits, crashed, homes>>
    BY DEF Truncate, At, browser, access
<1>2. TypeOK
    BY DEF IInv
<1>3. handler[h].name \in Names /\ f \in homes[handler[h].name] /\ f \in Files
    BY <1>1, <1>2 DEF IInv, HomesInv, TypeOK
<1>4. CASE Goto(h, "done") /\ UNCHANGED <<disk, events>>
    BY <1>1, <1>4, EndKeeps
<1>5. CASE ~(Goto(h, "done") /\ UNCHANGED <<disk, events>>)
  <2>1. /\ disk' = [disk EXCEPT ![f] = Cut]
        /\ events' = Notify(f)
        /\ handler' \in [Handlers -> HandlerStates]
        /\ handler'[h].pc = "open" /\ handler'[h].name = handler[h].name
        /\ handler'[h].path = f /\ handler'[h].current = handler[h].current
        /\ handler'[h].rev = handler[h].rev /\ handler'[h].clean = handler[h].clean
        /\ \A g \in Handlers \ {h} :
             /\ Kept(handler[g], handler'[g])
             /\ handler'[g].clean => handler[g].path # f
    BY <1>2, <1>5, TruncateDoes
  <2> HIDE DEF f
  <2>2. Cut \in Documents /\ ~Parses(Cut)
    BY NamesAssumption DEF Documents, Parses, Cut
  <2>3. /\ events' \in [Files -> Nat]
        /\ \A g \in Files \ {f} : events'[g] = events[g]
    BY <1>2, <1>3, <2>1 DEF TypeOK, Notify
  <2>4. \A g \in Handlers : Writes(g, f)
    BY <1>1, <2>1 DEF Writes, f
  <2>5. homes' \in [Names -> SUBSET Files] /\ \A n \in Names : homes[n] \subseteq homes'[n]
    BY <1>1, <1>2 DEF TypeOK
  <2>6. TypeOK'
    BY <1>1, <1>2, <2>1, <2>2, <2>3 DEF TypeOK, HandlerStates
  <2>7. /\ TokensInv' /\ HomesInv' /\ WatcherInv' /\ FilesInv'
        /\ \A g \in Handlers :
             (Kept(handler[g], handler'[g]) /\ handler'[g].clean
              /\ handler'[g].pc \in {"found", "open", "written", "saved"}
              /\ homes'[handler'[g].name] = {handler'[g].path}) => Clean(g)'
    BY <1>1, <1>3, <2>1, <2>2, <2>3, <2>4, <2>5, WriteKeeps
  <2>8. ASSUME handler'[h].clean, homes'[handler'[h].name] = {handler'[h].path}
        PROVE  Clean(h)'
    <3>1. Clean(h)
      BY <1>1, <2>1, <2>8 DEF IInv, CleanInv, Clean, f
    <3>2. disk'[f] = Cut
      BY <1>2, <1>3, <2>1 DEF TypeOK
    <3>3. \A g \in Handlers \ {h} : handler'[g].path # f \/ handler'[g].pc = "done"
      BY <2>1, <3>1 DEF Clean, Kept, f
    <3> QED
      BY <1>1, <2>1, <3>1, <3>2, <3>3 DEF Clean, f
  <2>9. CleanInv'
    BY <2>1, <2>7, <2>8 DEF CleanInv, Clean
  <2> QED
    BY <2>6, <2>7, <2>9 DEF IInv
<1> QED
    BY <1>4, <1>5

(* A handler writes its document.                                           *)
LEMMA EncodeKeeps ==
    ASSUME IInv, NEW h \in Handlers, Encode(h)
    PROVE  IInv'
<1> DEFINE f == handler[h].path
           n == handler[h].name
           doc == [name |-> n, rev |-> Revision]
<1>1. /\ handler[h].pc = "open"
      /\ UNCHANGED <<watcher, memory, shown, reload, token, jar, opened, edits, crashed>>
    BY DEF Encode, At, browser, access
<1>2. TypeOK /\ Revision \in Rev
    BY RevisionIsNew DEF IInv
<1>3. n \in Names /\ f \in homes[n] /\ f \in Files
    BY <1>1, <1>2 DEF IInv, HomesInv, TypeOK
<1>4. CASE Goto(h, "done") /\ UNCHANGED <<disk, events, homes>>
    BY <1>1, <1>4, EndKeeps
<1>5. CASE ~(Goto(h, "done") /\ UNCHANGED <<disk, events, homes>>)
  <2>1. /\ \E d \in {doc} \cup (IF disk[f] = Cut THEN {} ELSE {Mixed}) :
              disk' = [disk EXCEPT ![f] = d]
        /\ events' = Notify(f)
        /\ homes' = [homes EXCEPT ![n] = @ \cup {f}]
        /\ handler' \in [Handlers -> HandlerStates]
        /\ handler'[h].pc = "written" /\ handler'[h].name = n
        /\ handler'[h].path = f /\ handler'[h].current = handler[h].current
        /\ handler'[h].rev = Revision /\ handler'[h].clean = handler[h].clean
        /\ \A g \in Handlers \ {h} :
             /\ Kept(handler[g], handler'[g])
             /\ handler'[g].clean => handler[g].path # f
    BY <1>2, <1>5, EncodeDoes
  <2>2. PICK d \in {doc, Mixed} : /\ disk' = [disk EXCEPT ![f] = d]
                                  /\ disk[f] = Cut => d = doc
    BY <2>1
  <2> HIDE DEF f, n
  <2>3. d \in Documents /\ (Parses(d) => d.name = n)
    BY <1>2, <1>3, NamesAssumption DEF Documents, Parses, Mixed
  <2>4. d = doc => d.name = n /\ d.rev = Revision
    OBVIOUS
  <2> HIDE DEF doc
  <2>5. /\ events' \in [Files -> Nat] /\ events'[f] > 0
        /\ \A g \in Files \ {f} : events'[g] = events[g]
    BY <1>2, <1>3, <2>1 DEF TypeOK, Notify
  <2>6. /\ homes' \in [Names -> SUBSET Files] /\ f \in homes'[n]
        /\ \A m \in Names : homes[m] \subseteq homes'[m]
    BY <1>2, <1>3, <2>1 DEF TypeOK
  <2>7. \A g \in Handlers : Writes(g, f)
    BY <1>1, <1>2, <2>1, <2>6 DEF Writes, f, n
  <2>8. TypeOK'
    BY <1>1, <1>2, <2>1, <2>2, <2>3, <2>5, <2>6 DEF TypeOK, HandlerStates
  <2>9. /\ TokensInv' /\ HomesInv' /\ WatcherInv' /\ FilesInv'
        /\ \A g \in Handlers :
             (Kept(handler[g], handler'[g]) /\ handler'[g].clean
              /\ handler'[g].pc \in {"found", "open", "written", "saved"}
              /\ homes'[handler'[g].name] = {handler'[g].path}) => Clean(g)'
    BY <1>1, <1>3, <2>2, <2>3, <2>5, <2>6, <2>7, WriteKeeps
  <2>10. ASSUME handler'[h].clean, homes'[handler'[h].name] = {handler'[h].path}
         PROVE  Clean(h)'
    <3>1. homes[n] = {f}
      BY <1>3, <2>1, <2>6, <2>10
    <3>2. Clean(h)
      BY <1>1, <2>1, <2>10, <3>1 DEF IInv, CleanInv, Clean, f, n
    <3>3. disk'[f] = [name |-> n, rev |-> Revision]
      BY <1>1, <1>2, <1>3, <2>2, <3>2 DEF TypeOK, Clean, f, doc
    <3>4. \A g \in Handlers \ {h} : handler'[g].path # f \/ handler'[g].pc = "done"
      BY <2>1, <3>2 DEF Clean, Kept, f
    <3> QED
      BY <1>1, <2>1, <3>2, <3>3, <3>4 DEF Clean, f, n
  <2>11. CleanInv'
    BY <2>1, <2>9, <2>10 DEF CleanInv, Clean
  <2> QED
    BY <2>8, <2>9, <2>11 DEF IInv
<1> QED
    BY <1>4, <1>5

(* The watcher adds what it has read to memory, and the browser is told.    *)
LEMMA AddKeeps ==
    ASSUME IInv, Add
    PROVE  IInv'
<1> USE DEF IInv
<1>0. TypeOK
    OBVIOUS
<1>1. CASE crashed'
  <2>1. UNCHANGED <<disk, events, watcher, memory, handler, shown, reload, token, jar, opened,
                    edits, homes>>
    BY <1>0, <1>1, AddCrashes DEF access
  <2>2. TypeOK'
    BY <1>1, <2>1 DEF TypeOK, Add
  <2> QED
    BY <2>1, <2>2 DEF TokensInv, HomesInv, WatcherInv, FilesInv, CleanInv, Known
<1>2. CASE ~crashed'
  <2> DEFINE w == watcher
  <2>1. /\ w \in [name : Names, rev : Rev, path : Files] /\ watcher' = Missing
        /\ memory' = [memory EXCEPT ![w.name] = [path |-> w.path, rev |-> w.rev]]
        /\ reload' = reload \cup {w.name}
        /\ UNCHANGED <<disk, events, shown, token, jar, opened, edits, homes, crashed>>
        /\ handler' \in [Handlers -> HandlerStates]
        /\ \A h \in Handlers :
             /\ handler'[h].pc = handler[h].pc /\ handler'[h].name = handler[h].name
             /\ handler'[h].path = handler[h].path /\ handler'[h].rev = handler[h].rev
             /\ handler'[h].clean = handler[h].clean
             /\ handler'[h].current = (handler[h].current /\ handler[h].name # w.name)
    BY <1>0, <1>2, AddDoes DEF access
  <2>2. /\ w.name \in Names /\ w.path \in Files /\ w.rev \in Rev
        /\ w # Missing /\ w = [name |-> w.name, rev |-> w.rev, path |-> w.path]
    <3>1. DOMAIN w # DOMAIN Missing
      BY <2>1 DEF Missing
    <3> QED
      BY <2>1, <3>1
  <2>3. w.path \in homes[w.name]
    BY <2>2 DEF HomesInv
  <2> DEFINE new == [path |-> w.path, rev |-> w.rev]
  <2>4. new \in [path : Files, rev : Rev] /\ new # Nothing /\ new.path = w.path /\ new.rev = w.rev
    BY <2>2, NamesAssumption DEF Nothing
  <2>5. \A m \in Names : memory'[m] = IF m = w.name THEN new ELSE memory[m]
    BY <2>1 DEF TypeOK
  <2>6. TypeOK'
    BY <2>1, <2>2, <2>4 DEF TypeOK, HandlerStates
  <2> HIDE DEF w, new
  <2>7. HomesInv'
    <3>1. \A m \in Names : memory'[m] # Nothing => memory'[m].path \in homes[m]
      BY <2>3, <2>4, <2>5 DEF HomesInv
    <3>2. \A m \in Names : memory[m] # Nothing => memory'[m] # Nothing
      BY <2>4, <2>5
    <3> QED
      BY <2>1, <3>1, <3>2 DEF HomesInv, Parses
  <2>8. TokensInv' /\ WatcherInv'
    BY <2>1 DEF TokensInv, WatcherInv
  <2>9. FilesInv'
    <3> SUFFICES ASSUME NEW f \in Files, Parses(disk[f]), homes[disk[f].name] = {f}, ~(events[f] > 0)
                 PROVE  Known(f, disk[f].name, disk[f].rev)'
      BY <2>1 DEF FilesInv, Parses
    <3>1. disk[f].name \in Names
      BY DEF Parses
    <3>2. CASE disk[f].name = w.name
      <4>1. w.path = f
        BY <2>3, <3>2
      <4>2. w.rev = disk[f].rev
        BY <2>2, <4>1 DEF WatcherInv, w
      <4>3. memory'[disk[f].name] = [path |-> f, rev |-> disk[f].rev]
        BY <2>5, <3>1, <3>2, <4>1, <4>2 DEF new
      <4> HIDE DEF IInv
      <4> QED
        BY <2>1, <3>2, <4>3 DEF Known
    <3>3. CASE disk[f].name # w.name
      <4>1. Known(f, disk[f].name, disk[f].rev)
        <5>1. watcher # [name |-> disk[f].name, rev |-> disk[f].rev, path |-> f]
          BY <3>3 DEF w
        <5> QED
          BY <5>1 DEF FilesInv
      <4>2. memory'[disk[f].name] = memory[disk[f].name]
        BY <2>5, <3>1, <3>3
      <4> HIDE DEF IInv
      <4>3. UNCHANGED <<disk, shown>> /\ reload \subseteq reload'
        BY <2>1
      <4>4. ASSUME NEW h \in Handlers, handler'[h].pc = "written",
                   handler'[h].name = disk[f].name, handler'[h].current
            PROVE  handler'[h].rev = disk[f].rev
        <5>1. /\ handler[h].pc = "written" /\ handler[h].name = disk[f].name
              /\ handler[h].current /\ handler'[h].rev = handler[h].rev
          BY <2>1, <4>4
        <5> QED
          BY <4>1, <5>1 DEF Known
      <4> QED
        BY <4>1, <4>2, <4>3, <4>4 DEF Known
    <3> QED
      BY <3>2, <3>3
  <2>10. CleanInv'
    <3>1. ASSUME NEW h \in Handlers, handler[h].clean,
                 handler[h].pc \in {"found", "open", "written", "saved"},
                 homes[handler[h].name] = {handler[h].path}
          PROVE  Clean(h)'
      <4>1. Clean(h) /\ handler[h].name \in Names
        BY <3>1 DEF CleanInv, Clean, HomesInv
      <4>2. handler[h].name = w.name => w.path = handler[h].path
        BY <2>3, <3>1
      <4>3. handler[h].pc \in {"found", "open"} => handler'[h].current
        BY <2>1, <2>2, <4>1, <4>2 DEF Clean, w
      <4>4. handler[h].pc \in {"written", "saved"} =>
              \/ handler[h].pc = "written" /\ handler'[h].current
              \/ memory'[handler[h].name].rev = handler[h].rev
        <5> DEFINE s == handler[h]
        <5>1. CASE s.name = w.name /\ s.pc \in {"written", "saved"}
          <6>1. w = [name |-> s.name, rev |-> s.rev, path |-> s.path]
            BY <2>2, <4>1, <4>2, <5>1 DEF Clean, w
          <6>2. w.rev = s.rev
            BY <6>1
          <6> QED
            BY <2>4, <2>5, <4>1, <5>1, <6>2
        <5>2. CASE s.name # w.name
          BY <2>1, <2>5, <4>1, <5>2 DEF Clean
        <5> QED
          BY <5>1, <5>2
      <4> HIDE DEF IInv
      <4> QED
        BY <2>1, <4>1, <4>3, <4>4 DEF Clean
    <3> QED
      BY <2>1, <3>1 DEF CleanInv, Clean
  <2> QED
    BY <2>6, <2>7, <2>8, <2>9, <2>10
<1> QED
    BY <1>1, <1>2

-----------------------------------------------------------------------------
(* The theorems                                                             *)

LEMMA InitHolds == Init => IInv
<1> SUFFICES ASSUME Init PROVE IInv
    OBVIOUS
<1>1. /\ disk \in [Files -> {Missing} \cup [name : Names, rev : {1}]]
      /\ homes = [n \in Names |-> {f \in Files : disk[f].name = n}]
      /\ memory \in {m \in [Names -> {Nothing} \cup [path : Files, rev : {1}]] :
           \A n \in Names : IF homes[n] = {} THEN m[n] = Nothing ELSE m[n].path \in homes[n]}
      /\ events = [f \in Files |-> 0] /\ watcher = Missing
      /\ handler = [h \in Handlers |-> Idle]
      /\ shown = [n \in Names |-> 0] /\ reload = {}
      /\ token = [p \in Ports |-> <<p, 1>>] /\ jar = [p \in Ports |-> NoToken] /\ opened = {}
      /\ edits = 0 /\ crashed = FALSE
    BY DEF Init
<1>2. 1 \in Rev
    BY DEF Rev
<1>3. \A f \in Files : disk[f] = Missing \/ disk[f] \in [name : Names, rev : {1}]
    BY <1>1
<1>4. \A f \in Files : disk[f] \in Documents /\ (Parses(disk[f]) => disk[f].rev = 1)
    BY <1>2, <1>3, NamesAssumption DEF Documents, Parses, Missing
<1>5. \A n \in Names : memory[n] = Nothing \/ memory[n] \in [path : Files, rev : {1}]
    BY <1>1
<1>6. Idle \in HandlerStates /\ Idle.pc = "idle"
    BY DEF Idle, HandlerStates
<1>7. TypeOK
    BY <1>1, <1>2, <1>4, <1>5, <1>6 DEF TypeOK, HandlerStates
<1>8. TokensInv /\ WatcherInv
    BY <1>1 DEF TokensInv, WatcherInv
<1>9. HomesInv
    BY <1>1, <1>6 DEF HomesInv, Parses
<1>10. CleanInv
    BY <1>1, <1>6 DEF CleanInv
<1>11. FilesInv
  <2> SUFFICES ASSUME NEW f \in Files, Parses(disk[f]), homes[disk[f].name] = {f}
               PROVE  Known(f, disk[f].name, disk[f].rev)
    BY DEF FilesInv
  <2> DEFINE n == disk[f].name
  <2>1. n \in Names
    BY DEF Parses
  <2>2. memory[n].path = f
    BY <1>1, <2>1
  <2>3. memory[n] # Nothing
    BY <2>2, NamesAssumption DEF Nothing
  <2>4. memory[n] = [path |-> f, rev |-> disk[f].rev]
    BY <1>4, <1>5, <2>1, <2>2, <2>3
  <2> QED
    BY <1>1, <1>6, <2>1, <2>4 DEF Known
<1> QED
    BY <1>7, <1>8, <1>9, <1>10, <1>11 DEF IInv

LEMMA StepKeeps == IInv /\ [Next]_vars => IInv'
<1> SUFFICES ASSUME IInv, [Next]_vars PROVE IInv'
    OBVIOUS
<1>1. ASSUME NEW h \in Handlers, Find(h) \/ Truncate(h) \/ Encode(h) \/ Respond(h) \/ Done(h)
      PROVE  IInv'
  <2>1. CASE Done(h)
    BY <2>1, EndKeeps DEF Done, browser, access
  <2> QED
    BY <1>1, <2>1, FindKeeps, TruncateKeeps, EncodeKeeps, RespondKeeps
<1>2. ASSUME NEW f \in Files, Watch(f) \/ Spoil(f) \/ \E n \in Names : Save(f, n)
      PROVE  IInv'
    BY <1>2, WatchKeeps, SpoilKeeps, SaveKeeps
<1>3. ASSUME NEW n \in Names, Get(n) \/ \E h \in Handlers : Put(h, n)
      PROVE  IInv'
    BY <1>3, GetKeeps, PutKeeps
<1>4. ASSUME NEW p \in Ports, OpenURL(p) \/ Start(p)
      PROVE  IInv'
    BY <1>4, OpenURLKeeps, StartKeeps
<1>5. CASE UNCHANGED vars
    BY <1>5 DEF vars, server, browser, access, IInv, TypeOK, TokensInv, HomesInv, WatcherInv,
                FilesInv, CleanInv, Known
<1> QED
    BY <1>1, <1>2, <1>3, <1>4, <1>5, AddKeeps DEF Next

LEMMA Invariance == Spec => []IInv
    BY InitHolds, StepKeeps, PTL DEF Spec

(* The files, the memory, the watcher and the browser never disagree but    *)
(* where somebody is on the way to set it right; a browser that opened a    *)
(* preview is let in by it until it is started again, and one that another  *)
(* preview's page drives is not: whatever the files, the handlers and the   *)
(* addresses.                                                               *)
THEOREM ServeIsSound == Spec => []Inv
<1>1. IInv => Inv
    BY TokensAreEnough, OthersStayOut DEF IInv, Inv, TypeOK
<1> QED
    BY <1>1, Invariance, PTL

(* When nothing is under way, memory holds what each file of a name does,   *)
(* in whatever order saves, edits and the watcher crossed each other.       *)
THEOREM MemoryCatchesUp == Spec => []CaughtUp
<1>1. IInv => CaughtUp
  <2> SUFFICES ASSUME IInv, Quiet, NEW f \in Files, Parses(disk[f]), homes[disk[f].name] = {f}
               PROVE  memory[disk[f].name] = [path |-> f, rev |-> disk[f].rev]
    BY DEF CaughtUp
  <2>1. watcher # [name |-> disk[f].name, rev |-> disk[f].rev, path |-> f]
    BY NamesAssumption DEF Quiet, Missing, Parses
  <2>2. ~(events[f] > 0)
    BY DEF Quiet
  <2> QED
    BY <2>1, <2>2 DEF IInv, FilesInv, Known
<1> QED
    BY <1>1, Invariance, PTL

(* A browser that followed every reload message shows the file.             *)
THEOREM BrowserCatchesUp == Spec => []PreviewIsFresh
<1>1. IInv => PreviewIsFresh
  <2> SUFFICES ASSUME IInv, Quiet, reload = {}, NEW f \in Files, Parses(disk[f]),
                      homes[disk[f].name] = {f}
               PROVE  shown[disk[f].name] \in {0, disk[f].rev}
    BY DEF PreviewIsFresh
  <2>1. watcher # [name |-> disk[f].name, rev |-> disk[f].rev, path |-> f]
    BY NamesAssumption DEF Quiet, Missing, Parses
  <2>2. ~(events[f] > 0)
    BY DEF Quiet
  <2> QED
    BY <2>1, <2>2 DEF IInv, FilesInv, Known
<1> QED
    BY <1>1, Invariance, PTL

(* A save that had its file to itself is in the file, and in memory, when   *)
(* it is answered, even if the watcher read the file halfway through it.    *)
THEOREM SavesAreServed == Spec => []SaveIsServed
<1>1. IInv => SaveIsServed
  <2> SUFFICES ASSUME IInv, NEW h \in Handlers, handler[h].pc = "saved", handler[h].clean,
                      homes[handler[h].name] = {handler[h].path}
               PROVE  /\ disk[handler[h].path] = [name |-> handler[h].name, rev |-> handler[h].rev]
                      /\ memory[handler[h].name] = [path |-> handler[h].path, rev |-> handler[h].rev]
    BY DEF SaveIsServed, At
  <2> DEFINE n == handler[h].name
  <2>1. n \in Names /\ memory[n] # Nothing /\ Clean(h)
    BY DEF IInv, HomesInv, CleanInv, Clean
  <2>2. memory[n].path = handler[h].path
    BY <2>1 DEF IInv, HomesInv
  <2>3. memory[n] \in [path : Files, rev : Rev]
    BY <2>1 DEF IInv, TypeOK
  <2>4. memory[n].rev = handler[h].rev
    BY <2>1 DEF Clean
  <2> QED
    BY <2>1, <2>2, <2>3, <2>4 DEF Clean
<1> QED
    BY <1>1, Invariance, PTL

=============================================================================
