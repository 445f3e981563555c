------------------------- MODULE SessionSourceProofs -------------------------
(***************************************************************************)
(* The safety properties of SessionSource, for any number of goroutines    *)
(* and of requests.                                                        *)
(***************************************************************************)
EXTENDS SessionSource, TLAPS, SequenceTheorems

\* Appending a call keeps the earlier ones; completing one leaves the others.
LEMMA AppendCall ==
    ASSUME calls \in Seq(Call), NEW c \in Call
    PROVE  /\ Append(calls, c) \in Seq(Call)
           /\ Len(Append(calls, c)) = Len(calls) + 1
           /\ DOMAIN Append(calls, c) = DOMAIN calls \union {Len(calls) + 1}
           /\ Append(calls, c)[Len(calls) + 1] = c
           /\ \A i \in DOMAIN calls : Append(calls, c)[i] = calls[i]
    BY AppendProperties

LEMMA ACall ==
    ASSUME calls \in Seq(Call), NEW i \in DOMAIN calls
    PROVE  /\ DOMAIN calls = 1 .. Len(calls)
           /\ Len(calls) \in Nat
           /\ i \in Nat \ {0}
           /\ calls[i] \in Call
    BY LenProperties, ElementOfSeq

LEMMA UpdateCall ==
    ASSUME calls \in Seq(Call), NEW k \in DOMAIN calls, NEW c \in Call
    PROVE  /\ [calls EXCEPT ![k] = c] \in Seq(Call)
           /\ DOMAIN [calls EXCEPT ![k] = c] = DOMAIN calls
           /\ Len([calls EXCEPT ![k] = c]) = Len(calls)
           /\ [calls EXCEPT ![k] = c][k] = c
           /\ \A i \in DOMAIN calls \ {k} : [calls EXCEPT ![k] = c][i] = calls[i]
    BY ExceptSeq

-----------------------------------------------------------------------------
\* The steps that touch no call, and how the others change the calls.
ThreadStep(t) ==
    \/ RoundTrip(t) \/ Refresh(t) \/ FirstAttempt(t) \/ AlreadyRotated(t) \/ Join(t)
    \/ RotateOK(t) \/ RotateError(t) \/ Persist(t) \/ Wake(t) \/ Finish(t)
    \/ Retry(t) \/ SecondAttempt(t)

LEMMA Steps ==
    ASSUME [Next]_vars
    PROVE  \/ \E t \in Threads : ThreadStep(t) \/ Lead(t) \/ Publish(t) \/ Close(t)
           \/ UNCHANGED vars
    BY DEF Next, Progress, Exit, ThreadStep

\* The variables keep their types.
LEMMA TypeStep ==
    ASSUME TypeOK, LeaderInv, ThreadInv, [Next]_vars
    PROVE  TypeOK'
<1> USE DEF TypeOK, vars, sourceVars, threadVars, Goto, Labels, Cookie, None, Leading
<1>0. CASE UNCHANGED vars
    BY <1>0
<1>1. ASSUME NEW t \in Threads, RoundTrip(t) \/ Refresh(t) PROVE TypeOK'
  <2>1. PICK name \in {"RoundTrip", "Refresh"}, label \in Labels : Current(t, name, label)
    BY <1>1 DEF RoundTrip, Refresh
  <2>2. requests' \in 0 .. MaxRequests
    BY <2>1, MaxRequestsAssumption DEF Current
  <2> QED
    BY <2>1, <2>2 DEF Current
<1>2. ASSUME NEW t \in Threads, FirstAttempt(t) PROVE TypeOK'
    BY <1>2 DEF FirstAttempt
<1>3. ASSUME NEW t \in Threads, AlreadyRotated(t) PROVE TypeOK'
    BY <1>3 DEF AlreadyRotated
<1>4. ASSUME NEW t \in Threads, Join(t) PROVE TypeOK'
    BY <1>4 DEF Join
<1>5. ASSUME NEW t \in Threads, Lead(t) PROVE TypeOK'
  <2> DEFINE c == [from |-> cookie, gen |-> gen, status |-> "running",
                   cookie |-> None, done |-> FALSE]
  <2>1. c \in Call
    BY DEF Call
  <2>2. calls' = Append(calls, c) /\ inflight' = Len(calls) + 1
    BY <1>5 DEF Lead
  <2> HIDE DEF c
  <2>3. calls' \in Seq(Call) /\ DOMAIN calls' = DOMAIN calls \union {Len(calls) + 1}
    BY <2>1, <2>2, AppendCall
  <2>4. joined' \in [Threads -> DOMAIN calls' \union {None}]
    BY <1>5, <2>3 DEF Lead
  <2> QED
    BY <1>5, <2>2, <2>3, <2>4 DEF Lead
<1>6. ASSUME NEW t \in Threads, RotateOK(t) PROVE TypeOK'
    BY <1>6 DEF RotateOK
<1>7. ASSUME NEW t \in Threads, RotateError(t) PROVE TypeOK'
    BY <1>7 DEF RotateError
<1>8. ASSUME NEW t \in Threads, Publish(t) PROVE TypeOK'
  <2>1. joined[t] \in DOMAIN calls
    BY <1>8 DEF Publish, LeaderInv
  <2>2. Completed(calls[joined[t]], got[t]) \in Call
    BY <2>1, ACall DEF Completed, Call
  <2> QED
    BY <1>8, <2>1, <2>2, UpdateCall DEF Publish, Install
<1>9. ASSUME NEW t \in Threads, Close(t) PROVE TypeOK'
  <2>1. joined[t] \in DOMAIN calls
    BY <1>9 DEF Close, ThreadInv, JoinedInv, ResultInv
  <2>2. Closed(calls[joined[t]]) \in Call
    BY <2>1, ACall DEF Closed, Call
  <2> QED
    BY <1>9, <2>1, <2>2, UpdateCall DEF Close
<1>10. ASSUME NEW t \in Threads, Persist(t) PROVE TypeOK'
    BY <1>10 DEF Persist, ThreadInv, JoinedInv, ResultInv
<1>11. ASSUME NEW t \in Threads, Wake(t) PROVE TypeOK'
  <2>1. joined[t] \in DOMAIN calls
    BY <1>11 DEF Wake, ThreadInv, JoinedInv, ResultInv
  <2>2. calls[joined[t]].cookie \in Nat
    BY <2>1, ACall DEF Call
  <2> QED
    BY <1>11, <2>2 DEF Wake
<1>12. ASSUME NEW t \in Threads, Finish(t) \/ Retry(t) \/ SecondAttempt(t) PROVE TypeOK'
    BY <1>12 DEF Finish, Retry, SecondAttempt
<1> QED
    BY <1>0, <1>1, <1>2, <1>3, <1>4, <1>5, <1>6, <1>7, <1>8, <1>9, <1>10, <1>11, <1>12, Steps
    DEF ThreadStep

-----------------------------------------------------------------------------
\* What the three steps that change the calls do to them.
LEMMA LeadCalls ==
    ASSUME TypeOK, NEW t \in Threads, Lead(t)
    PROVE  /\ Len(calls) \in Nat
           /\ DOMAIN calls = 1 .. Len(calls)
           /\ inflight' = Len(calls) + 1
           /\ Len(calls') = Len(calls) + 1
           /\ DOMAIN calls' = DOMAIN calls \union {inflight'}
           /\ \A i \in DOMAIN calls : calls'[i] = calls[i]
           /\ calls'[inflight'] = [from |-> cookie, gen |-> gen,
                                  status |-> "running", cookie |-> None,
                                  done |-> FALSE]
<1> DEFINE c == [from |-> cookie, gen |-> gen, status |-> "running",
                 cookie |-> None, done |-> FALSE]
<1>1. c \in Call
    BY DEF TypeOK, Call, Cookie, None
<1>2. calls' = Append(calls, c) /\ inflight' = Len(calls) + 1
    BY DEF Lead
<1>3. c = [from |-> cookie, gen |-> gen, status |-> "running",
           cookie |-> None, done |-> FALSE]
    OBVIOUS
<1> HIDE DEF c
<1> QED
    BY <1>1, <1>2, <1>3, AppendCall, LenProperties DEF TypeOK

LEMMA PublishCalls ==
    ASSUME TypeOK, LeaderInv, NEW t \in Threads, Publish(t)
    PROVE  /\ joined[t] = inflight
           /\ inflight \in DOMAIN calls
           /\ Len(calls') = Len(calls)
           /\ DOMAIN calls' = DOMAIN calls
           /\ \A i \in DOMAIN calls \ {inflight} : calls'[i] = calls[i]
           /\ calls'[inflight] = Completed(calls[inflight], got[t])
           /\ calls[inflight] \in Call
<1>1. joined[t] = inflight /\ inflight \in DOMAIN calls
    BY DEF Publish, LeaderInv, Leading, TypeOK
<1>2. calls[inflight] \in Call
    BY <1>1, ACall DEF TypeOK
<1>3. Completed(calls[inflight], got[t]) \in Call
    BY <1>2 DEF Completed, Call, TypeOK
<1> QED
    BY <1>1, <1>2, <1>3, UpdateCall DEF Publish, TypeOK

LEMMA CloseCalls ==
    ASSUME TypeOK, ThreadInv, NEW t \in Threads, Close(t)
    PROVE  /\ joined[t] \in DOMAIN calls
           /\ Len(calls') = Len(calls)
           /\ DOMAIN calls' = DOMAIN calls
           /\ \A i \in DOMAIN calls \ {joined[t]} : calls'[i] = calls[i]
           /\ calls'[joined[t]] = Closed(calls[joined[t]])
           /\ calls[joined[t]] \in Call
<1>1. joined[t] \in DOMAIN calls
    BY DEF Close, ThreadInv, JoinedInv, ResultInv, TypeOK
<1>2. calls[joined[t]] \in Call
    BY <1>1, ACall DEF TypeOK
<1>3. Closed(calls[joined[t]]) \in Call
    BY <1>2 DEF Closed, Call
<1> QED
    BY <1>1, <1>2, <1>3, UpdateCall DEF Close, TypeOK

-----------------------------------------------------------------------------
\* A second leader cannot start: Lead needs that no call is in flight.
LEMMA SingleFlightStep ==
    ASSUME TypeOK, LeaderInv, SingleFlight, [Next]_vars
    PROVE  SingleFlight'
<1> USE DEF TypeOK, SingleFlight, Leading, Goto, Labels
<1>0. CASE UNCHANGED vars
    BY <1>0 DEF vars
<1>1. ASSUME NEW t \in Threads, ThreadStep(t) PROVE SingleFlight'
    BY <1>1 DEF ThreadStep, RoundTrip, Refresh, Current, FirstAttempt,
       AlreadyRotated, Join, RotateOK, RotateError, Persist, Wake, Finish, Retry,
       SecondAttempt
<1>2. ASSUME NEW t \in Threads, Lead(t) PROVE SingleFlight'
    BY <1>2 DEF Lead, InFlight, LeaderInv
<1>3. ASSUME NEW t \in Threads, Publish(t) \/ Close(t) PROVE SingleFlight'
    BY <1>3 DEF Publish, Close
<1> QED
    BY <1>0, <1>1, <1>2, <1>3, Steps

\* No step but Lead, Publish and Close changes the source or its calls.
LEMMA SourceUnchanged ==
    ASSUME NEW t \in Threads, ThreadStep(t)
    PROVE  UNCHANGED <<cookie, gen, inflight, calls>> /\ issued' \in {issued, issued + 1}
BY DEF ThreadStep, RoundTrip, Refresh, Current, FirstAttempt, AlreadyRotated,
   Join, RotateOK, RotateError, Persist, Wake, Finish, Retry, SecondAttempt,
   sourceVars, threadVars

LEMMA CallsStep ==
    ASSUME TypeOK, LeaderInv, ThreadInv, CallsInv, [Next]_vars
    PROVE  CallsInv'
<1>0. CASE UNCHANGED vars
    BY <1>0 DEF vars, CallsInv
<1>1. ASSUME NEW t \in Threads, ThreadStep(t) PROVE CallsInv'
    BY <1>1, SourceUnchanged DEF CallsInv
<1>2. ASSUME NEW t \in Threads, Lead(t) PROVE CallsInv'
    BY <1>2, LeadCalls DEF Lead, InFlight, CallsInv, None, TypeOK
<1>3. ASSUME NEW t \in Threads, Publish(t) PROVE CallsInv'
  <2>1. inflight \in DOMAIN calls /\ inflight' = None /\ pc[t] = "publish" /\ joined[t] = inflight
    BY <1>3, PublishCalls DEF Publish
  <2>2. /\ cookie' \in Nat /\ gen' \in Nat
        /\ cookie <= cookie' /\ gen <= gen'
        /\ got[t] # None => cookie < got[t] /\ cookie' = got[t] /\ gen < gen'
    BY <1>3, <2>1 DEF Publish, Install, LeaderInv, TypeOK, Cookie
  <2>3. /\ calls'[inflight].from = cookie
        /\ calls'[inflight].gen = gen
        /\ calls'[inflight].cookie = got[t]
        /\ calls'[inflight].done = FALSE
        /\ calls'[inflight].status = IF got[t] = None THEN "failed" ELSE "ok"
    <3>1. calls'[inflight] = Completed(calls[inflight], got[t])
      BY <1>3, PublishCalls
    <3>2. calls[inflight].from = cookie /\ calls[inflight].gen = gen
      BY <2>1 DEF LeaderInv, Leading
    <3> QED
      BY <3>1, <3>2 DEF Completed
  <2>4. \A i \in DOMAIN calls :
            /\ calls[i].cookie \in Nat
            /\ calls[i].gen \in Nat
    BY ACall DEF TypeOK, Call
  <2>5. ASSUME NEW i \in DOMAIN calls', i # inflight
        PROVE  /\ calls'[i].status # "running"
               /\ calls'[i].status = "ok" =>
                     /\ calls'[i].from < calls'[i].cookie
                     /\ calls'[i].cookie <= cookie'
                     /\ calls'[i].gen < gen'
               /\ calls'[i].status # "ok" => calls'[i].cookie = None
    <3>1. i \in DOMAIN calls /\ calls'[i] = calls[i]
      BY <1>3, <2>5, PublishCalls
    <3>2. calls[i].status = "ok" => calls[i].cookie <= cookie' /\ calls[i].gen < gen'
      BY <2>2, <2>4, <3>1 DEF CallsInv, TypeOK, Cookie
    <3> QED
      BY <2>5, <3>1, <3>2 DEF CallsInv
  <2> QED
    BY <1>3, <2>1, <2>2, <2>3, <2>5, PublishCalls DEF CallsInv, TypeOK, Cookie
<1>4. ASSUME NEW t \in Threads, Close(t) PROVE CallsInv'
    BY <1>4, CloseCalls DEF Close, CallsInv, ThreadInv, JoinedInv, ResultInv, Closed, None, TypeOK
<1> QED
    BY <1>0, <1>1, <1>2, <1>3, <1>4, Steps

LEMMA LeaderStep ==
    ASSUME TypeOK, SingleFlight, CallsInv, LeaderInv, ThreadInv, [Next]_vars
    PROVE  LeaderInv'
<1>0. CASE UNCHANGED vars
    BY <1>0 DEF vars, LeaderInv, Leading
<1>1. ASSUME NEW t \in Threads, ThreadStep(t) PROVE LeaderInv'
  <2>1. cookie' <= issued'
    <3>1. cookie' = cookie /\ issued' \in {issued, issued + 1}
      BY <1>1, SourceUnchanged
    <3> QED
      BY <3>1 DEF LeaderInv, TypeOK, Cookie
  <2>2. ASSUME NEW u \in Threads
        PROVE  /\ Leading(u)' => Leading(u) /\ joined'[u] = joined[u]
               /\ pc'[u] = "publish" /\ got'[u] # None =>
                      cookie' < got'[u] /\ got'[u] <= issued'
    <3> USE DEF Leading, Goto, TypeOK, threadVars, sourceVars
    <3>1. CASE RoundTrip(t) \/ Refresh(t)
      BY <3>1 DEF RoundTrip, Refresh, Current, LeaderInv
    <3>2. CASE FirstAttempt(t) \/ AlreadyRotated(t) \/ Join(t)
      BY <3>2 DEF FirstAttempt, AlreadyRotated, Join, LeaderInv
    <3>3. CASE RotateOK(t)
      <4>1. CASE u = t
        BY <3>3, <4>1 DEF RotateOK, LeaderInv, Cookie
      <4>2. CASE u # t
        BY <3>3, <4>2 DEF RotateOK, LeaderInv, Cookie
      <4> QED
        BY <4>1, <4>2
    <3>4. CASE RotateError(t)
      <4>1. CASE u = t
        BY <3>4, <4>1 DEF RotateError, LeaderInv, Cookie
      <4>2. CASE u # t
        BY <3>4, <4>2 DEF RotateError, LeaderInv, Cookie
      <4> QED
        BY <4>1, <4>2
    <3>5. CASE Persist(t) \/ Wake(t) \/ Finish(t) \/ Retry(t) \/ SecondAttempt(t)
      BY <3>5 DEF Persist, Wake, Finish, Retry, SecondAttempt, LeaderInv
    <3> QED
      BY <1>1, <3>1, <3>2, <3>3, <3>4, <3>5 DEF ThreadStep
  <2> QED
    BY <1>1, <2>1, <2>2, SourceUnchanged DEF LeaderInv, Leading
<1>2. ASSUME NEW t \in Threads, Lead(t) PROVE LeaderInv'
  <2>1. \A u \in Threads : ~ Leading(u)
    BY <1>2 DEF Lead, InFlight, LeaderInv
  <2>2. \A u \in Threads : Leading(u)' => u = t
    BY <1>2, <2>1 DEF Lead, Leading, Goto, TypeOK
  <2>3. joined'[t] = inflight' /\ inflight' # None
    BY <1>2, LeadCalls DEF Lead, TypeOK, None
  <2>4. calls'[inflight'].from = cookie' /\ calls'[inflight'].gen = gen'
    BY <1>2, LeadCalls DEF Lead
  <2>5. pc'[t] = "rotating" /\ \A u \in Threads \ {t} : pc'[u] = pc[u]
    BY <1>2 DEF Lead, Goto, TypeOK
  <2> QED
    BY <1>2, <2>1, <2>2, <2>3, <2>4, <2>5 DEF Lead, LeaderInv, Leading
<1>3. ASSUME NEW t \in Threads, Publish(t) PROVE LeaderInv'
  <2>1. \A u \in Threads : ~ Leading(u)'
    BY <1>3 DEF Publish, SingleFlight, Leading, Goto, TypeOK
  <2>2. cookie' <= issued' /\ inflight' = None
    BY <1>3 DEF Publish, Install, LeaderInv
  <2> QED
    BY <2>1, <2>2 DEF LeaderInv, Leading
<1>4. ASSUME NEW t \in Threads, Close(t) PROVE LeaderInv'
  <2>1. \A u \in Threads : Leading(u)' => Leading(u)
    BY <1>4 DEF Close, Leading, Goto, TypeOK
  <2>2. inflight # None => inflight \in DOMAIN calls /\ calls'[inflight] = calls[inflight]
    <3>1. inflight # None => inflight \in DOMAIN calls /\ joined[t] # inflight
      BY <1>4 DEF Close, CallsInv, ThreadInv, ResultInv, TypeOK
    <3> QED
      BY <1>4, <3>1, CloseCalls
  <2>3. \A u \in Threads : pc'[u] = "publish" => pc[u] = "publish"
    BY <1>4 DEF Close, Goto, TypeOK, Labels
  <2> QED
    BY <1>4, <2>1, <2>2, <2>3 DEF LeaderInv, Close, threadVars
<1> QED
    BY <1>0, <1>1, <1>2, <1>3, <1>4, Steps

LEMMA CloserStep ==
    ASSUME TypeOK, LeaderInv, ThreadInv, CloserInv, [Next]_vars
    PROVE  CloserInv'
<1> DEFINE Closes(t, i) == pc[t] \in {"rotating", "publish", "close"} /\ joined[t] = i
           Closing(t, i) == pc'[t] \in {"rotating", "publish", "close"} /\ joined'[t] = i
<1>0. CASE UNCHANGED vars
    BY <1>0 DEF vars, CloserInv
<1>1. ASSUME NEW t \in Threads, ThreadStep(t) PROVE CloserInv'
  <2>1. \A u \in Threads, i \in DOMAIN calls : Closes(u, i) => Closing(u, i)
    BY <1>1 DEF ThreadStep, RoundTrip, Refresh, Current, FirstAttempt,
       AlreadyRotated, Join, RotateOK, RotateError, Persist, Wake, Finish, Retry,
       SecondAttempt, Goto, TypeOK, threadVars
  <2> QED
    BY <1>1, <2>1, SourceUnchanged DEF CloserInv
<1>2. ASSUME NEW t \in Threads, Lead(t) PROVE CloserInv'
  <2>1. Closing(t, inflight')
    BY <1>2 DEF Lead, Goto, TypeOK
  <2>2. \A u \in Threads, i \in DOMAIN calls : Closes(u, i) => Closing(u, i)
    BY <1>2 DEF Lead, Goto, TypeOK
  <2>3. \A i \in DOMAIN calls' : (i \in DOMAIN calls /\ calls'[i] = calls[i]) \/ i = inflight'
    BY <1>2, LeadCalls
  <2> QED
    BY <1>2, <2>1, <2>2, <2>3, LeadCalls DEF CloserInv
<1>3. ASSUME NEW t \in Threads, Publish(t) PROVE CloserInv'
  <2>1. \A u \in Threads, i \in DOMAIN calls : Closes(u, i) => Closing(u, i)
    BY <1>3 DEF Publish, Goto, TypeOK, threadVars
  <2>2. Closing(t, inflight)
    BY <1>3, PublishCalls DEF Publish, Goto, TypeOK, threadVars
  <2> QED
    BY <1>3, <2>1, <2>2, PublishCalls DEF CloserInv
<1>4. ASSUME NEW t \in Threads, Close(t) PROVE CloserInv'
  <2>1. \A u \in Threads, i \in DOMAIN calls :
            i # joined[t] /\ Closes(u, i) => Closing(u, i)
    BY <1>4 DEF Close, Goto, TypeOK, threadVars
  <2>2. calls'[joined[t]].done
    <3>1. calls'[joined[t]] = Closed(calls[joined[t]])
      BY <1>4, CloseCalls
    <3>2. calls'[joined[t]].done = TRUE
      BY <3>1 DEF Closed
    <3> QED
      BY <3>2
  <2> QED
    BY <1>4, <2>1, <2>2, CloseCalls DEF CloserInv
<1> QED
    BY <1>0, <1>1, <1>2, <1>3, <1>4, Steps

LEMMA GenerationsStep ==
    ASSUME TypeOK, SingleFlight, CallsInv, LeaderInv, ThreadInv,
           OneRotationPerGeneration, [Next]_vars
    PROVE  OneRotationPerGeneration'
<1>0. CASE UNCHANGED vars
    BY <1>0 DEF vars, OneRotationPerGeneration
<1>1. ASSUME NEW t \in Threads, ThreadStep(t) PROVE OneRotationPerGeneration'
    BY <1>1, SourceUnchanged DEF OneRotationPerGeneration
<1>2. ASSUME NEW t \in Threads, Lead(t) PROVE OneRotationPerGeneration'
    BY <1>2, LeadCalls DEF OneRotationPerGeneration
<1>3. ASSUME NEW t \in Threads, Publish(t) PROVE OneRotationPerGeneration'
  <2> SUFFICES ASSUME NEW i \in DOMAIN calls', NEW j \in DOMAIN calls', i < j,
                      calls'[i].status = "ok", calls'[j].status = "ok"
               PROVE  calls'[i].gen < calls'[j].gen /\ calls'[i].cookie < calls'[j].cookie
    BY DEF OneRotationPerGeneration
  <2>1. i \in DOMAIN calls /\ j \in DOMAIN calls /\ inflight = Len(calls)
        /\ DOMAIN calls = 1 .. Len(calls) /\ Len(calls) \in Nat
    BY <1>3, PublishCalls, ACall DEF CallsInv, TypeOK, None
  <2>2. i # inflight /\ calls'[i] = calls[i]
    BY <1>3, <2>1, PublishCalls
  <2>3. calls[i].gen < gen /\ calls[i].cookie <= cookie
    BY <2>1, <2>2 DEF CallsInv
  <2>4. CASE j = inflight
    <3>1. calls'[j] = Completed(calls[j], got[t]) /\ calls[j].gen = gen
      BY <1>3, <2>4, PublishCalls DEF LeaderInv, Leading, Publish
    <3>2. calls'[j].gen = gen /\ calls'[j].cookie = got[t] /\ got[t] # None
      BY <3>1 DEF Completed
    <3>3. cookie < got[t] /\ got[t] \in Nat
      BY <1>3, <3>2 DEF LeaderInv, Publish, TypeOK
    <3>4. calls[i].cookie \in Nat
      BY <2>1, ACall DEF TypeOK, Call
    <3> QED
      BY <2>2, <2>3, <3>2, <3>3, <3>4 DEF TypeOK, Cookie
  <2>5. CASE j # inflight
    BY <1>3, <2>1, <2>2, <2>5, PublishCalls DEF OneRotationPerGeneration
  <2> QED
    BY <2>4, <2>5
<1>4. ASSUME NEW t \in Threads, Close(t) PROVE OneRotationPerGeneration'
  <2>1. ASSUME NEW i \in DOMAIN calls'
        PROVE  /\ i \in DOMAIN calls
               /\ calls'[i].status = calls[i].status
               /\ calls'[i].gen = calls[i].gen
               /\ calls'[i].cookie = calls[i].cookie
    <3>1. CASE i = joined[t]
      <4>1. calls'[i] = Closed(calls[i]) /\ i \in DOMAIN calls
        BY <1>4, <3>1, CloseCalls
      <4> QED
        BY <4>1 DEF Closed
    <3>2. CASE i # joined[t]
      BY <1>4, <3>2, CloseCalls
    <3> QED
      BY <3>1, <3>2
  <2> QED
    BY <2>1 DEF OneRotationPerGeneration
<1> QED
    BY <1>0, <1>1, <1>2, <1>3, <1>4, Steps

-----------------------------------------------------------------------------
\* The source only moves forward, and a call keeps what it rotates and, once
\* it is over, its result.
LEMMA SourceGrows ==
    ASSUME IInv, [Next]_vars
    PROVE  /\ \/ cookie' = cookie /\ gen' = gen
              \/ cookie < cookie' /\ gen' = gen + 1
           /\ \A i \in DOMAIN calls :
                 /\ i \in DOMAIN calls'
                 /\ calls'[i].from = calls[i].from
                 /\ calls'[i].gen = calls[i].gen
                 /\ calls[i].status # "running" =>
                       calls'[i].status = calls[i].status /\ calls'[i].cookie = calls[i].cookie
<1> DEFINE Grows ==
        /\ \/ cookie' = cookie /\ gen' = gen
           \/ cookie < cookie' /\ gen' = gen + 1
        /\ \A i \in DOMAIN calls :
              /\ i \in DOMAIN calls'
              /\ calls'[i].from = calls[i].from
              /\ calls'[i].gen = calls[i].gen
              /\ calls[i].status # "running" =>
                    calls'[i].status = calls[i].status /\ calls'[i].cookie = calls[i].cookie
<1> USE DEF IInv
<1>0. CASE UNCHANGED vars
    BY <1>0 DEF vars
<1>1. ASSUME NEW t \in Threads, ThreadStep(t) PROVE Grows
    BY <1>1, SourceUnchanged
<1>2. ASSUME NEW t \in Threads, Lead(t) PROVE Grows
    BY <1>2, LeadCalls DEF Lead
<1>3. ASSUME NEW t \in Threads, Publish(t) PROVE Grows
  <2>1. \/ cookie' = cookie /\ gen' = gen
        \/ cookie < cookie' /\ gen' = gen + 1
    BY <1>3 DEF Publish, Install, LeaderInv
  <2>2. ASSUME NEW i \in DOMAIN calls, i # inflight PROVE i \in DOMAIN calls' /\ calls'[i] = calls[i]
    BY <1>3, <2>2, PublishCalls
  <2>3. /\ inflight \in DOMAIN calls' /\ calls[inflight].status = "running"
        /\ calls'[inflight] = Completed(calls[inflight], got[t])
    BY <1>3, PublishCalls DEF CallsInv, None, LeaderInv, Publish, Leading
  <2>4. calls'[inflight].from = calls[inflight].from /\ calls'[inflight].gen = calls[inflight].gen
    BY <2>3 DEF Completed
  <2> QED
    BY <2>1, <2>2, <2>3, <2>4
<1>4. ASSUME NEW t \in Threads, Close(t) PROVE Grows
  <2>1. ASSUME NEW i \in DOMAIN calls, i # joined[t] PROVE i \in DOMAIN calls' /\ calls'[i] = calls[i]
    BY <1>4, <2>1, CloseCalls
  <2>2. joined[t] \in DOMAIN calls' /\ calls'[joined[t]] = Closed(calls[joined[t]])
    BY <1>4, CloseCalls
  <2>3. /\ calls'[joined[t]].from = calls[joined[t]].from
        /\ calls'[joined[t]].gen = calls[joined[t]].gen
        /\ calls'[joined[t]].status = calls[joined[t]].status
        /\ calls'[joined[t]].cookie = calls[joined[t]].cookie
    BY <2>2 DEF Closed
  <2> QED
    BY <1>4, <2>1, <2>2, <2>3 DEF Close
<1> HIDE DEF Grows
<1>5. Grows
    BY <1>0, <1>1, <1>2, <1>3, <1>4, Steps DEF Grows
<1> QED
    BY <1>5 DEF Grows

\* A thread that did not move keeps its invariant whatever the others did.
LEMMA StandingThread ==
    ASSUME IInv, [Next]_vars, NEW u \in Threads,
           pc'[u] = pc[u], used'[u] = used[u], usedGen'[u] = usedGen[u],
           joined'[u] = joined[u], got'[u] = got[u]
    PROVE  (SeenInv(u) /\ JoinedInv(u) /\ ResultInv(u))'
<1> USE DEF IInv, TypeOK, Cookie, None
<1>0. TypeOK'
    BY TypeStep
<1>1. SeenInv(u) /\ JoinedInv(u) /\ ResultInv(u)
    BY DEF ThreadInv
<1>2. cookie <= cookie' /\ gen <= gen' /\ cookie' \in Nat /\ gen' \in Nat
  <2>1. \/ cookie' = cookie /\ gen' = gen
        \/ cookie < cookie' /\ gen' = gen + 1
    BY SourceGrows
  <2> QED
    BY <1>0, <2>1
<1>3. SeenInv(u)'
  <2>1. \/ cookie' = cookie /\ gen' = gen
        \/ cookie < cookie' /\ gen' = gen + 1
    BY SourceGrows
  <2>2. used[u] \in Nat /\ usedGen[u] \in Nat
    OBVIOUS
  <2> QED
    BY <1>0, <1>1, <2>1, <2>2 DEF SeenInv
<1>4. JoinedInv(u)'
    BY <1>1, SourceGrows DEF JoinedInv
<1>5. joined[u] # None => joined[u] \in DOMAIN calls
    OBVIOUS
<1>6. ResultInv(u)'
  <2>1. pc[u] \in {"close", "persist"} =>
            (calls[joined[u]].status # "running" /\ got[u] = calls[joined[u]].cookie)'
    BY <1>1, <1>5, SourceGrows DEF ResultInv, JoinedInv
  <2>2. pc[u] \in {"rotated", "retry"} /\ got[u] # None =>
            used[u] < got[u] /\ got[u] <= cookie' /\ usedGen[u] < gen'
    <3>1. used[u] \in Nat /\ usedGen[u] \in Nat /\ got[u] \in Nat
      OBVIOUS
    <3> QED
      BY <1>1, <1>2, <3>1 DEF ResultInv
  <2> QED
    BY <1>1, <2>1, <2>2 DEF ResultInv
<1> QED
    BY <1>3, <1>4, <1>6

\* A thread that takes a step satisfies its invariant after it.
LEMMA MovingThread ==
    ASSUME IInv, NEW t \in Threads, Progress(t) \/ RoundTrip(t) \/ Refresh(t), TypeOK', CallsInv'
    PROVE  (SeenInv(t) /\ JoinedInv(t) /\ ResultInv(t))'
<1> DEFINE Moved == (SeenInv(t) /\ JoinedInv(t) /\ ResultInv(t))'
<1> USE DEF IInv, TypeOK, Cookie, None, Goto, Labels, threadVars, sourceVars,
        SeenInv, JoinedInv, ResultInv
<1>0. SeenInv(t) /\ JoinedInv(t) /\ ResultInv(t)
    BY DEF ThreadInv
<1>1. CASE RoundTrip(t) \/ Refresh(t)
    BY <1>1 DEF RoundTrip, Refresh, Current
<1>2. CASE FirstAttempt(t)
    BY <1>0, <1>2 DEF FirstAttempt
<1>3. CASE AlreadyRotated(t)
    BY <1>0, <1>3 DEF AlreadyRotated, RotatedPast
<1>4. CASE Join(t)
    BY <1>0, <1>4 DEF Join, RotatedPast, InFlight, LeaderInv
<1>5. CASE Lead(t)
    BY <1>0, <1>5, LeadCalls DEF Lead, RotatedPast, InFlight
<1>6. CASE RotateOK(t) \/ RotateError(t)
    BY <1>0, <1>6 DEF RotateOK, RotateError
<1>7. CASE Publish(t)
    BY <1>0, <1>7, PublishCalls DEF Publish, Install, Completed, LeaderInv, Leading
<1>8. CASE Close(t)
    BY <1>0, <1>8, CloseCalls DEF Close, Closed
<1>9. CASE Persist(t)
    BY <1>0, <1>9 DEF Persist, CallsInv
<1>10. CASE Wake(t)
    BY <1>0, <1>10 DEF Wake, CallsInv
<1>11. CASE Finish(t) \/ Retry(t) \/ SecondAttempt(t)
    BY <1>0, <1>11 DEF Finish, Retry, SecondAttempt
<1> QED
    BY <1>1, <1>2, <1>3, <1>4, <1>5, <1>6, <1>7, <1>8, <1>9, <1>10, <1>11 DEF Progress

\* A step of one thread leaves the local state of the others alone.
LEMMA OneThreadMoves ==
    ASSUME TypeOK, NEW t \in Threads, Progress(t) \/ RoundTrip(t) \/ Refresh(t),
           NEW u \in Threads, u # t
    PROVE  /\ pc'[u] = pc[u] /\ used'[u] = used[u] /\ usedGen'[u] = usedGen[u]
           /\ joined'[u] = joined[u] /\ got'[u] = got[u]
<1> USE DEF TypeOK, Goto, threadVars
<1>1. CASE RoundTrip(t) \/ Refresh(t) \/ FirstAttempt(t) \/ AlreadyRotated(t) \/ Join(t) \/ Lead(t)
    BY <1>1 DEF RoundTrip, Refresh, Current, FirstAttempt, AlreadyRotated, Join, Lead
<1>2. CASE RotateOK(t) \/ RotateError(t) \/ Publish(t) \/ Close(t) \/ Persist(t)
    BY <1>2 DEF RotateOK, RotateError, Publish, Close, Persist
<1>3. CASE Wake(t) \/ Finish(t) \/ Retry(t) \/ SecondAttempt(t)
    BY <1>3 DEF Wake, Finish, Retry, SecondAttempt
<1> QED
    BY <1>1, <1>2, <1>3 DEF Progress

LEMMA ThreadsStep ==
    ASSUME IInv, [Next]_vars
    PROVE  ThreadInv'
<1> SUFFICES ASSUME NEW u \in Threads
             PROVE  (SeenInv(u) /\ JoinedInv(u) /\ ResultInv(u))'
    BY DEF ThreadInv
<1>1. CASE UNCHANGED vars
    BY <1>1, StandingThread DEF vars
<1>2. ASSUME NEW t \in Threads, Progress(t) \/ RoundTrip(t) \/ Refresh(t)
      PROVE  (SeenInv(u) /\ JoinedInv(u) /\ ResultInv(u))'
  <2>1. CASE u = t
    BY <1>2, <2>1, MovingThread, TypeStep, CallsStep DEF IInv
  <2>2. CASE u # t
    BY <1>2, <2>2, OneThreadMoves, StandingThread DEF IInv
  <2> QED
    BY <2>1, <2>2
<1> QED
    BY <1>1, <1>2 DEF Next, Exit

-----------------------------------------------------------------------------
\* The inductive invariant holds in every reachable state, for any number of
\* goroutines and of requests.
THEOREM Invariance == Spec => []IInv
<1>1. Init => IInv
    BY MaxRequestsAssumption DEF Init, IInv, TypeOK, SingleFlight, Leading,
       CallsInv, LeaderInv, CloserInv, ThreadInv, SeenInv, JoinedInv, ResultInv,
       OneRotationPerGeneration, None, Cookie, Labels
<1>2. IInv /\ [Next]_vars => IInv'
    BY TypeStep, SingleFlightStep, CallsStep, LeaderStep, CloserStep, ThreadsStep,
       GenerationsStep DEF IInv
<1> QED
    BY <1>1, <1>2, PTL DEF Spec

\* Every variable of the source keeps its type; joined never dangles.
THEOREM TypeCorrect == Spec => []TypeOK
    BY Invariance, PTL DEF IInv

\* At most one goroutine is at the rotate endpoint (Rotate's single flight).
THEOREM SingleFlightHolds == Spec => []SingleFlight
    BY Invariance, PTL DEF IInv

\* The rotation in flight rotates the newest cookie the process holds.
THEOREM NewestCookieRotated == Spec => []RotatesNewestCookie
<1>1. IInv => RotatesNewestCookie
    BY DEF IInv, LeaderInv, ThreadInv, SeenInv, JoinedInv, RotatesNewestCookie, Leading
<1> QED
    BY <1>1, Invariance, PTL

\* No generation is rotated successfully twice.
THEOREM GenerationRotatedOnce == Spec => []OneRotationPerGeneration
    BY Invariance, PTL DEF IInv

\* A 401 is never retried with the cookie it rejected.
THEOREM RetryIsNewer == Spec => []RetryUsesNewerCookie
<1>1. IInv => RetryUsesNewerCookie
    BY DEF IInv, TypeOK, Cookie, ThreadInv, ResultInv, RetryUsesNewerCookie
<1> QED
    BY <1>1, Invariance, PTL

\* Both at once, the property that the model checker runs.
THEOREM CookiesForward == Spec => []CookiesMoveForward
    BY NewestCookieRotated, RetryIsNewer, PTL DEF CookiesMoveForward

\* What Rotate returns is in force when it returns.
THEOREM AnswersPublished == Spec => []AnswerIsPublished
<1>1. IInv => AnswerIsPublished
    BY DEF IInv, TypeOK, Cookie, ThreadInv, ResultInv, AnswerIsPublished
<1> QED
    BY <1>1, Invariance, PTL

\* A blocked waiter has a goroutine that will close the channel it waits on.
THEOREM NoOrphanedWaiter == Spec => []WaitersHaveALeader
<1>1. IInv => WaitersHaveALeader
    BY DEF IInv, TypeOK, CloserInv, ThreadInv, JoinedInv, WaitersHaveALeader
<1> QED
    BY <1>1, Invariance, PTL

-----------------------------------------------------------------------------
\* What RotatingCookie sees of a thread, label by label.
LEMMA CallerOf ==
    ASSUME TypeOK, NEW t \in Threads
    PROVE  /\ pc[t] \in {"idle", "send"} => caller[t] = Abstract!Idle
           /\ pc[t] \in {"rotated", "retry"} =>
                caller[t] = IF got[t] = None THEN Abstract!Refused
                                             ELSE Abstract!Granted(got[t])
           /\ pc[t] \in {"rotate", "rotating", "publish", "close", "persist", "wait"} =>
                caller[t] = Abstract!Asked(used[t])
BY DEF TypeOK, Labels, caller, Abstract!Idle, Abstract!Refused, Abstract!Granted,
   Abstract!Asked

\* The cookies the source and its threads hold were published.
PublishedInv == cookie \in published /\ \A t \in Threads : used[t] \in published

\* Published cookies are numbers up to the newest, and a success is published.
LEMMA PublishedCookies ==
    ASSUME IInv
    PROVE  /\ \A d \in published : d \in Nat /\ d <= cookie
           /\ \A k \in DOMAIN calls : calls[k].cookie # None =>
                  calls[k].status = "ok" /\ calls[k].cookie \in published
<1>1. \A k \in DOMAIN calls : calls[k].cookie \in Nat
    BY ACall DEF IInv, TypeOK, Call
<1> QED
    BY <1>1 DEF published, IInv, TypeOK, Cookie, CallsInv, None

\* Publishing a success adds its cookie; no other step changes the set.
LEMMA PublishedChange ==
    ASSUME IInv, [Next]_vars
    PROVE  \/ published' = published /\ cookie' = cookie
           \/ /\ published' = published \union {cookie'}
              /\ cookie < cookie'
              /\ caller' = caller
<1> DEFINE Change == \/ published' = published /\ cookie' = cookie
                     \/ /\ published' = published \union {cookie'}
                        /\ cookie < cookie'
                        /\ caller' = caller
<1> USE DEF IInv
<1>0. CASE UNCHANGED vars
    BY <1>0 DEF vars, published
<1>1. ASSUME NEW t \in Threads, ThreadStep(t) PROVE Change
    BY <1>1, SourceUnchanged DEF published
<1>2. ASSUME NEW t \in Threads, Lead(t) PROVE Change
    BY <1>2, LeadCalls DEF Lead, published
<1>3. ASSUME NEW t \in Threads, Publish(t) PROVE Change
  <2>1. /\ inflight \in DOMAIN calls /\ calls[inflight].status = "running"
        /\ DOMAIN calls' = DOMAIN calls
        /\ \A i \in DOMAIN calls \ {inflight} : calls'[i] = calls[i]
        /\ calls'[inflight] = Completed(calls[inflight], got[t])
    BY <1>3, PublishCalls DEF CallsInv, None, LeaderInv, Publish, Leading
  <2>2. /\ calls'[inflight].cookie = got[t]
        /\ calls'[inflight].status = IF got[t] = None THEN "failed" ELSE "ok"
    BY <2>1 DEF Completed
  <2>3. CASE got[t] = None
    BY <1>3, <2>1, <2>2, <2>3 DEF published, Publish, Install
  <2>4. CASE got[t] # None
    <3>1. cookie' = got[t] /\ cookie < cookie'
      BY <1>3, <2>4 DEF Publish, Install, LeaderInv
    <3>2. published' = published \union {cookie'}
      BY <2>1, <2>2, <2>4, <3>1 DEF published
    <3>3. caller' = caller
      BY <1>3 DEF caller, Publish, Goto, TypeOK, threadVars
    <3> QED
      BY <3>1, <3>2, <3>3
  <2> QED
    BY <2>3, <2>4
<1>4. ASSUME NEW t \in Threads, Close(t) PROVE Change
  <2>1. ASSUME NEW i \in DOMAIN calls
        PROVE  calls'[i].status = calls[i].status /\ calls'[i].cookie = calls[i].cookie
    <3>1. CASE i = joined[t]
      <4>1. calls'[i] = Closed(calls[i])
        BY <1>4, <3>1, CloseCalls
      <4> QED
        BY <4>1 DEF Closed
    <3>2. CASE i # joined[t]
      BY <1>4, <3>2, CloseCalls
    <3> QED
      BY <3>1, <3>2
  <2>2. DOMAIN calls' = DOMAIN calls
    BY <1>4, CloseCalls
  <2> QED
    BY <1>4, <2>1, <2>2 DEF published, Close
<1> HIDE DEF Change
<1>5. Change
    BY <1>0, <1>1, <1>2, <1>3, <1>4, Steps DEF Change
<1> QED
    BY <1>5 DEF Change

LEMMA PublishedStep ==
    ASSUME IInv, PublishedInv, [Next]_vars
    PROVE  PublishedInv'
<1>1. cookie' \in published' /\ published \subseteq published'
    BY PublishedChange DEF PublishedInv
<1>2. \A u \in Threads : used'[u] = used[u] \/ used'[u] = cookie
  <2>1. CASE UNCHANGED vars
    BY <2>1 DEF vars
  <2>2. ASSUME NEW t \in Threads, Progress(t)
        PROVE  used' = used
    BY <2>2 DEF Progress, FirstAttempt, AlreadyRotated, Join, Lead, RotateOK,
       RotateError, Publish, Close, Persist, Wake, Finish, Retry, SecondAttempt,
       threadVars
  <2>3. ASSUME NEW t \in Threads, RoundTrip(t) \/ Refresh(t)
        PROVE  \A u \in Threads : used'[u] = used[u] \/ used'[u] = cookie
    BY <2>3 DEF RoundTrip, Refresh, Current, IInv, TypeOK
  <2> QED
    BY <2>1, <2>2, <2>3 DEF Next, Exit
<1> QED
    BY <1>1, <1>2 DEF PublishedInv

\* Only the thread that moves changes what RotatingCookie sees of it.
LEMMA CallerMoves ==
    ASSUME TypeOK, NEW t \in Threads, Progress(t) \/ RoundTrip(t) \/ Refresh(t)
    PROVE  caller' = [caller EXCEPT ![t] = caller'[t]]
<1>1. \A u \in Threads : u # t => caller'[u] = caller[u]
    BY OneThreadMoves DEF caller
<1>2. caller = [u \in Threads |-> caller[u]] /\ caller' = [u \in Threads |-> caller'[u]]
    BY DEF caller
<1> QED
    BY <1>1, <1>2

\* Every step of the source is a step of RotatingCookie, or none.
LEMMA RefinementStep ==
    ASSUME IInv, PublishedInv, [Next]_vars
    PROVE  [Abstract!Next]_(Abstract!vars)
<1> USE DEF IInv
<1> DEFINE Goal == [Abstract!Next]_(Abstract!vars)
<1>0. CASE published' # published
  <2>1. /\ published' = published \union {cookie'} /\ cookie < cookie' /\ caller' = caller
    BY <1>0, PublishedChange
  <2>2. \A d \in published : d < cookie'
    <3>1. cookie' \in Nat
      BY TypeStep DEF TypeOK, Cookie
    <3> QED
      BY <2>1, <3>1, PublishedCookies DEF TypeOK, Cookie
  <2>3. Abstract!Advance
    BY <2>1, <2>2 DEF Abstract!Advance
  <2> QED
    BY <2>3 DEF Abstract!Next
<1>1. CASE UNCHANGED vars
    BY <1>1 DEF vars, caller, published, Abstract!vars
<1>2. ASSUME NEW t \in Threads, Progress(t) \/ RoundTrip(t) \/ Refresh(t), published' = published
      PROVE  Goal
  <2>1. caller' = [caller EXCEPT ![t] = caller'[t]] /\ TypeOK' /\ published' = published
    BY <1>2, CallerMoves, TypeStep
  <2>2. CASE caller'[t] = caller[t]
    <3>1. caller' = caller
      BY <2>1, <2>2 DEF caller
    <3> QED
      BY <2>1, <3>1 DEF Abstract!vars
  <2>3. ASSUME caller[t] = Abstract!Idle, NEW c \in published, caller'[t] = Abstract!Asked(c)
        PROVE  Goal
    <3>1. Abstract!Ask(t)
      BY <2>1, <2>3 DEF Abstract!Ask
    <3> QED
      BY <3>1 DEF Abstract!Next
  <2>4. ASSUME caller[t] = Abstract!Asked(used[t]), NEW c \in published, c > used[t],
               caller'[t] = Abstract!Granted(c)
        PROVE  Goal
    <3>1. Abstract!Grant(t)
      BY <2>1, <2>4 DEF Abstract!Grant, Abstract!Asked
    <3> QED
      BY <3>1 DEF Abstract!Next, Abstract!Respond
  <2>5. ASSUME caller[t] = Abstract!Asked(used[t]), caller'[t] = Abstract!Refused
        PROVE  Goal
    <3>1. Abstract!Refuse(t)
      BY <2>1, <2>5 DEF Abstract!Refuse, Abstract!Asked
    <3> QED
      BY <3>1 DEF Abstract!Next, Abstract!Respond
  <2>6. ASSUME NEW c \in Nat, caller[t] = Abstract!Granted(c) \/ caller[t] = Abstract!Refused,
               caller'[t] = Abstract!Idle
        PROVE  Goal
    <3>1. Abstract!Return(t)
      BY <2>1, <2>6 DEF Abstract!Return, Abstract!Granted, Abstract!Refused
    <3> QED
      BY <3>1 DEF Abstract!Next, Abstract!Respond
  <2> HIDE DEF Goal
  <2>7. SeenInv(t) /\ JoinedInv(t) /\ ResultInv(t) /\ cookie \in published /\ used[t] \in published
    BY DEF ThreadInv, PublishedInv
  <2> USE DEF TypeOK, Goto, threadVars, sourceVars, None
  <2>8. CASE RoundTrip(t)
    <3>1. pc[t] = "idle" /\ pc'[t] = "send"
      BY <2>8 DEF RoundTrip, Current
    <3> QED
      BY <2>1, <2>2, <3>1, CallerOf DEF caller
  <2>9. CASE Refresh(t)
    <3>1. pc[t] = "idle" /\ pc'[t] = "rotate" /\ used'[t] = cookie
      BY <2>9 DEF Refresh, Current
    <3>2. caller[t] = Abstract!Idle /\ caller'[t] = Abstract!Asked(cookie)
      BY <3>1 DEF caller, Abstract!Idle, Abstract!Asked
    <3> QED
      BY <2>3, <2>7, <3>2
  <2>10. CASE FirstAttempt(t)
    <3>1. CASE pc'[t] = "idle"
      BY <2>2, <2>10, <3>1 DEF FirstAttempt, caller
    <3>2. CASE pc'[t] = "rotate"
      <4>1. caller[t] = Abstract!Idle /\ caller'[t] = Abstract!Asked(used[t])
        BY <2>10, <3>2 DEF FirstAttempt, caller, Abstract!Idle, Abstract!Asked
      <4> QED
        BY <2>3, <2>7, <4>1
    <3> QED
      BY <2>10, <3>1, <3>2 DEF FirstAttempt
  <2>11. CASE AlreadyRotated(t)
    <3>1. caller[t] = Abstract!Asked(used[t]) /\ caller'[t] = Abstract!Granted(cookie)
      BY <2>11 DEF AlreadyRotated, caller, Abstract!Granted, Abstract!Asked, Cookie
    <3>2. cookie > used[t]
      BY <2>7, <2>11 DEF AlreadyRotated, RotatedPast, SeenInv, Cookie
    <3> QED
      BY <2>4, <2>7, <3>1, <3>2
  <2>12. CASE Join(t) \/ Lead(t) \/ RotateOK(t) \/ RotateError(t) \/ Publish(t)
    <3>1. /\ pc[t] \in {"rotate", "rotating", "publish"}
          /\ pc'[t] \in {"wait", "rotating", "publish", "close"}
          /\ used'[t] = used[t]
      BY <2>12 DEF Join, Lead, RotateOK, RotateError, Publish
    <3> QED
      BY <2>2, <3>1 DEF caller
  <2>13. CASE Close(t)
    <3>1. CASE got[t] = None
      <4>1. caller[t] = Abstract!Asked(used[t]) /\ caller'[t] = Abstract!Refused
        BY <2>13, <3>1 DEF Close, caller, Abstract!Asked, Abstract!Refused
      <4> QED
        BY <2>5, <4>1
    <3>2. CASE got[t] # None
      BY <2>2, <2>13, <3>2 DEF Close, caller
    <3> QED
      BY <3>1, <3>2
  <2>14. CASE Persist(t)
    <3>1. caller[t] = Abstract!Asked(used[t]) /\ caller'[t] = Abstract!Granted(got[t])
      BY <2>7, <2>14 DEF Persist, ResultInv, caller, Abstract!Asked, Abstract!Granted
    <3>2. joined[t] \in DOMAIN calls /\ got[t] = calls[joined[t]].cookie /\ got[t] # None
          /\ calls[joined[t]].from = used[t]
      BY <2>7, <2>14 DEF Persist, ResultInv, JoinedInv
    <3>3. got[t] \in published /\ got[t] > used[t]
      BY <3>2, PublishedCookies DEF CallsInv, Cookie
    <3> QED
      BY <2>4, <3>1, <3>3
  <2>15. CASE Wake(t)
    <3>1. joined[t] \in DOMAIN calls /\ got'[t] = calls[joined[t]].cookie
          /\ calls[joined[t]].from = used[t]
      BY <2>7, <2>15 DEF Wake, JoinedInv
    <3>2. CASE got'[t] = None
      <4>1. caller[t] = Abstract!Asked(used[t]) /\ caller'[t] = Abstract!Refused
        BY <2>15, <3>2 DEF Wake, caller, Abstract!Asked, Abstract!Refused
      <4> QED
        BY <2>5, <4>1
    <3>3. CASE got'[t] # None
      <4>1. caller[t] = Abstract!Asked(used[t]) /\ caller'[t] = Abstract!Granted(got'[t])
        BY <2>15, <3>3 DEF Wake, caller, Abstract!Asked, Abstract!Granted
      <4>2. got'[t] \in published /\ got'[t] > used[t]
        BY <3>1, <3>3, PublishedCookies DEF CallsInv, Cookie
      <4> QED
        BY <2>4, <4>1, <4>2
    <3> QED
      BY <3>2, <3>3
  <2>16. CASE Finish(t) \/ SecondAttempt(t)
    <3>1. got[t] \in Nat /\ (caller[t] = Abstract!Granted(got[t]) \/ caller[t] = Abstract!Refused)
      BY <2>16 DEF Finish, SecondAttempt, caller, Abstract!Granted, Abstract!Refused
    <3>2. caller'[t] = Abstract!Idle
      BY <2>16 DEF Finish, SecondAttempt, caller, Abstract!Idle
    <3> QED
      BY <2>6, <3>1, <3>2
  <2>17. CASE Retry(t)
    BY <2>2, <2>17 DEF Retry, caller
  <2> QED
    BY <1>2, <2>8, <2>9, <2>10, <2>11, <2>12, <2>13, <2>14, <2>15, <2>16, <2>17
    DEF Progress
<1> QED
    BY <1>0, <1>1, <1>2 DEF Next, Exit

\* Rotate behaves as the atomic RotatingCookie: each answer is a cookie that
\* replaced the one the caller used, or a refusal.
THEOREM Refinement == Spec => Abstract!Init /\ [][Abstract!Next]_(Abstract!vars)
<1>1. Init => Abstract!Init /\ PublishedInv
  <2>1. Init => published = {1}
    BY DEF Init, published
  <2> QED
    BY <2>1 DEF Init, Abstract!Init, PublishedInv, caller, Abstract!Idle
<1>2. IInv /\ PublishedInv /\ [Next]_vars => PublishedInv' /\ [Abstract!Next]_(Abstract!vars)
    BY PublishedStep, RefinementStep
<1> QED
    BY <1>1, <1>2, Invariance, PTL DEF Spec

=============================================================================
