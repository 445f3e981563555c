---------------------------- MODULE SessionSource ----------------------------
(***************************************************************************)
(* internal/config/session_source.go: the holder of the Grafana session    *)
(* cookie that all transports of one context share, and the RoundTripper   *)
(* that injects the cookie and rotates it when Grafana answers 401.        *)
(*                                                                         *)
(* A thread is a goroutine inside RoundTrip or Refresh. One action is one  *)
(* critical section of s.mu, or one step outside it: the request to        *)
(* Grafana, the POST to the rotate endpoint, close(done), the Keychain     *)
(* write. Cookies are numbered from 1 in the order Grafana issues them.    *)
(***************************************************************************)
EXTENDS Naturals, Sequences

CONSTANTS
    Threads,       \* goroutines that share the source
    MaxRequests    \* bound on the requests and refreshes of one run

ASSUME MaxRequestsAssumption == MaxRequests \in Nat

None == 0          \* a nil *rotateCall, or the empty cookie of an error

VARIABLES
    cookie,        \* s.cookie
    gen,           \* s.gen
    inflight,      \* s.inflight: index in calls, or None
    calls,         \* every rotateCall made: [from, gen, status, cookie, done]
    pc,            \* where each thread is
    used,          \* the cookie the thread read with Current
    usedGen,       \* the generation it read with it
    joined,        \* the rotateCall the thread runs or waits for, or None
    got,           \* what Rotate gave the thread: a cookie, or None
    op,            \* the thread is in "RoundTrip" or in "Refresh"
    issued,        \* Grafana: the newest cookie it has issued
    keychain,      \* the cookie in the Keychain item of the context
    requests       \* requests begun so far

vars == <<cookie, gen, inflight, calls, pc, used, usedGen, joined, got,
          op, issued, keychain, requests>>

sourceVars == <<cookie, gen, inflight, calls>>
threadVars == <<used, usedGen, joined, got, op>>

Goto(t, label) == pc' = [pc EXCEPT ![t] = label]

Init ==
    /\ cookie = 1
    /\ gen = 0
    /\ inflight = None
    /\ calls = << >>
    /\ pc = [t \in Threads |-> "idle"]
    /\ used = [t \in Threads |-> 1]
    /\ usedGen = [t \in Threads |-> 0]
    /\ joined = [t \in Threads |-> None]
    /\ got = [t \in Threads |-> None]
    /\ op = [t \in Threads |-> "RoundTrip"]
    /\ issued = 1
    /\ keychain = 1
    /\ requests = 0

-----------------------------------------------------------------------------
(* The request                                                             *)

\* Current: the cookie and its generation are read under one lock. RoundTrip
\* goes on to send the request, Refresh goes straight to Rotate.
Current(t, name, label) ==
    /\ pc[t] = "idle"
    /\ requests < MaxRequests
    /\ requests' = requests + 1
    /\ used' = [used EXCEPT ![t] = cookie]
    /\ usedGen' = [usedGen EXCEPT ![t] = gen]
    /\ op' = [op EXCEPT ![t] = name]
    /\ Goto(t, label)
    /\ UNCHANGED <<sourceVars, joined, got, issued, keychain>>

RoundTrip(t) == Current(t, "RoundTrip", "send")

Refresh(t) == Current(t, "Refresh", "rotate")

\* Grafana answers the first attempt. Anything but a 401 is returned as it is;
\* Grafana may reject any cookie at any time (it expires sessions on its own).
FirstAttempt(t) ==
    /\ pc[t] = "send"
    /\ Goto(t, "idle") \/ Goto(t, "rotate")
    /\ UNCHANGED <<sourceVars, threadVars, issued, keychain, requests>>

-----------------------------------------------------------------------------
(* Rotate, first critical section: three ways to go                        *)

RotatedPastNever(t) == FALSE

RotatedPastOrAt(t) == gen >= usedGen[t]

\* s.gen > usedGen: another thread rotated past what this one used.
RotatedPast(t) == gen > usedGen[t]

InFlightUnseen == FALSE

InFlight == inflight # None

\* Return the cookie that the other thread's rotation left.
AlreadyRotated(t) ==
    /\ pc[t] = "rotate"
    /\ RotatedPast(t)
    /\ got' = [got EXCEPT ![t] = cookie]
    /\ Goto(t, "rotated")
    /\ UNCHANGED <<sourceVars, used, usedGen, joined, op, issued,
                   keychain, requests>>

\* A rotation is in flight: remember it, and wait without the lock.
Join(t) ==
    /\ pc[t] = "rotate"
    /\ ~ RotatedPast(t)
    /\ InFlight
    /\ joined' = [joined EXCEPT ![t] = inflight]
    /\ Goto(t, "wait")
    /\ UNCHANGED <<sourceVars, used, usedGen, got, op, issued, keychain,
                   requests>>

\* No rotation is in flight: publish a new call and run it.
Lead(t) ==
    /\ pc[t] = "rotate"
    /\ ~ RotatedPast(t)
    /\ ~ InFlight
    /\ calls' = Append(calls, [from |-> cookie, gen |-> gen,
                               status |-> "running", cookie |-> None,
                               done |-> FALSE])
    /\ inflight' = Len(calls) + 1
    /\ joined' = [joined EXCEPT ![t] = Len(calls) + 1]
    /\ Goto(t, "rotating")
    /\ UNCHANGED <<cookie, gen, used, usedGen, got, op, issued, keychain,
                   requests>>

-----------------------------------------------------------------------------
(* The rotation, run by the thread that leads                              *)

\* Grafana rotates the session and the answer arrives: a fresh cookie.
RotateOK(t) ==
    /\ pc[t] = "rotating"
    /\ issued' = issued + 1
    /\ got' = [got EXCEPT ![t] = issued + 1]
    /\ Goto(t, "publish")
    /\ UNCHANGED <<sourceVars, used, usedGen, joined, op, keychain,
                   requests>>

\* The rotation fails: Grafana refuses it, answers without a cookie, the 10
\* seconds of rotateTimeout pass, or rotate panics. Grafana may have rotated
\* the session all the same, and the new cookie is lost with the answer.
RotateError(t) ==
    /\ pc[t] = "rotating"
    /\ issued' \in {issued, issued + 1}
    /\ got' = [got EXCEPT ![t] = None]
    /\ Goto(t, "publish")
    /\ UNCHANGED <<sourceVars, used, usedGen, joined, op, keychain,
                   requests>>

Completed(call, c) ==
    [from |-> call.from, gen |-> call.gen, cookie |-> c, done |-> FALSE,
     status |-> IF c = None THEN "failed" ELSE "ok"]

Closed(call) ==
    [from |-> call.from, gen |-> call.gen, cookie |-> call.cookie,
     done |-> TRUE, status |-> call.status]

\* A success replaces the cookie and starts a generation; an error does not.
Install(t) ==
    IF got[t] = None
    THEN UNCHANGED <<cookie, gen>>
    ELSE cookie' = got[t] /\ gen' = gen + 1

\* The deferred function of runRotate, under one acquisition of the lock.
Publish(t) ==
    /\ pc[t] = "publish"
    /\ calls' = [calls EXCEPT ![joined[t]] = Completed(@, got[t])]
    /\ inflight' = None
    /\ Install(t)
    /\ Goto(t, "close")
    /\ UNCHANGED <<threadVars, issued, keychain, requests>>

CloseOnSuccess(t) ==
    /\ pc[t] = "close"
    /\ calls' = IF got[t] = None THEN calls ELSE [calls EXCEPT ![joined[t]] = Closed(@)]
    /\ Goto(t, IF got[t] = None THEN "rotated" ELSE "persist")
    /\ UNCHANGED <<cookie, gen, inflight, threadVars, issued, keychain, requests>>

\* close(call.done), after the lock is released, whatever the outcome.
Close(t) ==
    /\ pc[t] = "close"
    /\ calls' = [calls EXCEPT ![joined[t]] = Closed(@)]
    /\ Goto(t, IF got[t] = None THEN "rotated" ELSE "persist")
    /\ UNCHANGED <<cookie, gen, inflight, threadVars, issued, keychain, requests>>

\* persist: the write may fail or be skipped; a failure is only logged.
Persist(t) ==
    /\ pc[t] = "persist"
    /\ keychain' \in {keychain, got[t]}
    /\ Goto(t, "rotated")
    /\ UNCHANGED <<sourceVars, threadVars, issued, requests>>

\* <-call.done: a waiter wakes and takes the result of the call it joined.
Wake(t) ==
    /\ pc[t] = "wait"
    /\ calls[joined[t]].done
    /\ got' = [got EXCEPT ![t] = calls[joined[t]].cookie]
    /\ Goto(t, "rotated")
    /\ UNCHANGED <<sourceVars, used, usedGen, joined, op, issued,
                   keychain, requests>>

-----------------------------------------------------------------------------
(* Rotate has returned                                                     *)

\* Refresh returns to its caller; RoundTrip returns the original 401 when the
\* rotation failed or the body cannot be replayed (no GetBody, or it fails).
Finish(t) ==
    /\ pc[t] = "rotated"
    /\ joined' = [joined EXCEPT ![t] = None]
    /\ Goto(t, "idle")
    /\ UNCHANGED <<sourceVars, used, usedGen, got, op, issued, keychain,
                   requests>>

\* RoundTrip sends the request once more, with the cookie Rotate returned.
Retry(t) ==
    /\ pc[t] = "rotated"
    /\ op[t] = "RoundTrip"
    /\ got[t] # None
    /\ joined' = [joined EXCEPT ![t] = None]
    /\ Goto(t, "retry")
    /\ UNCHANGED <<sourceVars, used, usedGen, got, op, issued, keychain,
                   requests>>

\* Whatever the retry brings is returned as it is, a second 401 included.
SecondAttempt(t) ==
    /\ pc[t] = "retry"
    /\ Goto(t, "idle")
    /\ UNCHANGED <<sourceVars, threadVars, issued, keychain, requests>>

-----------------------------------------------------------------------------
\* Every step of a thread that has begun a request: none of them needs the
\* caller's context, so each is taken if it stays possible.
Progress(t) ==
    \/ FirstAttempt(t)
    \/ AlreadyRotated(t) \/ Join(t) \/ Lead(t)
    \/ RotateOK(t) \/ RotateError(t) \/ Publish(t) \/ Close(t) \/ Persist(t)
    \/ Wake(t)
    \/ Finish(t) \/ Retry(t) \/ SecondAttempt(t)

\* The process has made its last request.
Exit ==
    /\ requests = MaxRequests
    /\ \A t \in Threads : pc[t] = "idle"
    /\ UNCHANGED vars

Next ==
    \/ \E t \in Threads : RoundTrip(t) \/ Refresh(t) \/ Progress(t)
    \/ Exit

Spec == Init /\ [][Next]_vars

FairSpec == Spec /\ \A t \in Threads : WF_vars(Progress(t))

-----------------------------------------------------------------------------
(* Properties                                                              *)

Labels == {"idle", "send", "rotate", "rotating", "publish", "close",
           "persist", "wait", "rotated", "retry"}

Cookie == Nat \ {None}

Call == [from : Cookie, gen : Nat, status : {"running", "ok", "failed"},
         cookie : Nat, done : BOOLEAN]

\* The values each variable takes; joined always names a call that exists.
TypeOK ==
    /\ cookie \in Cookie
    /\ gen \in Nat
    /\ calls \in Seq(Call)
    /\ inflight \in DOMAIN calls \union {None}
    /\ pc \in [Threads -> Labels]
    /\ used \in [Threads -> Cookie]
    /\ usedGen \in [Threads -> Nat]
    /\ joined \in [Threads -> DOMAIN calls \union {None}]
    /\ got \in [Threads -> Nat]
    /\ op \in [Threads -> {"RoundTrip", "Refresh"}]
    /\ issued \in Cookie
    /\ keychain \in Cookie
    /\ requests \in 0 .. MaxRequests

Leading(t) == pc[t] \in {"rotating", "publish"}

\* However many threads see their requests rejected together, at most one of
\* them is at Grafana's rotate endpoint (the single flight of Rotate).
SingleFlight ==
    \A t, u \in Threads : Leading(t) /\ Leading(u) => t = u

\* Until its answer is published, the rotation in flight is of the newest
\* cookie the process holds, and of the one its leader saw rejected: a 401 that
\* arrives after someone else's rotation never spends another one.
RotatesNewestCookie ==
    \A t \in Threads : Leading(t) => /\ calls[joined[t]].from = cookie
                                     /\ used[t] = cookie
                                     /\ usedGen[t] = gen

\* A generation is rotated successfully at most once, and each success hands
\* out a cookie newer than every earlier one, whatever failed in between.
OneRotationPerGeneration ==
    \A i, j \in DOMAIN calls :
        i < j /\ calls[i].status = "ok" /\ calls[j].status = "ok" =>
            /\ calls[i].gen < calls[j].gen
            /\ calls[i].cookie < calls[j].cookie

\* A request is never retried with the cookie that was just rejected, whether
\* the thread led the rotation, joined one, or came too late for it.
RetryUsesNewerCookie ==
    \A t \in Threads : pc[t] = "retry" => got[t] > used[t]

\* Both: the rotation under way, and every retry, is of the newest cookie.
CookiesMoveForward == RotatesNewestCookie /\ RetryUsesNewerCookie

\* A waiter woken by close(done), or a thread that rotated, finds its cookie
\* already in force: no one who was answered reads an older one afterwards.
AnswerIsPublished ==
    \A t \in Threads :
        pc[t] \in {"rotated", "retry"} /\ got[t] # None =>
            cookie >= got[t] /\ gen > usedGen[t]

\* Only a waiter of a call that is not closed yet is blocked, and each such
\* call has a thread on its way to close it: nobody waits for nobody.
WaitersHaveALeader ==
    \A t \in Threads :
        pc[t] = "wait" /\ ~ calls[joined[t]].done =>
            \E u \in Threads :
                /\ pc[u] \in {"rotating", "publish", "close"}
                /\ joined[u] = joined[t]

\* Every request and refresh returns, whatever Grafana answers.
EveryRequestReturns ==
    \A t \in Threads : (pc[t] # "idle") ~> (pc[t] = "idle")

\* docs/configuration.md: a rotation leaves the fresh cookie in the Keychain,
\* so no write to the item puts back a cookie that an earlier write replaced.
KeychainMovesForward == [][keychain' >= keychain]_keychain

-----------------------------------------------------------------------------
(* The inductive invariant behind the safety properties                    *)

\* What a call records: only the call in flight is running, it is the last one
\* made, and a success is newer than what it rotated and is in force.
CallsInv ==
    /\ inflight # None => inflight = Len(calls) /\ calls[inflight].status = "running"
    /\ \A i \in DOMAIN calls :
          /\ calls[i].status = "running" => i = inflight
          /\ calls[i].status = "ok" =>
                /\ calls[i].from < calls[i].cookie
                /\ calls[i].cookie <= cookie
                /\ calls[i].gen < gen
          /\ calls[i].status # "ok" => calls[i].cookie = None
          /\ calls[i].done => calls[i].status # "running"

\* The call in flight rotates the newest cookie; its leader has joined it.
LeaderInv ==
    /\ cookie <= issued
    /\ inflight # None =>
          calls[inflight].from = cookie /\ calls[inflight].gen = gen
    /\ \A t \in Threads : Leading(t) => inflight # None /\ joined[t] = inflight
    /\ \A t \in Threads : pc[t] = "publish" /\ got[t] # None =>
          cookie < got[t] /\ got[t] <= issued

\* A call that is not closed has a thread that will close it.
CloserInv ==
    \A i \in DOMAIN calls : ~ calls[i].done =>
        \E t \in Threads :
            pc[t] \in {"rotating", "publish", "close"} /\ joined[t] = i

\* What a thread saw is not newer than the source, and is what the source
\* held at that generation.
SeenInv(t) ==
    /\ used[t] <= cookie /\ usedGen[t] <= gen
    /\ gen = usedGen[t] => cookie = used[t]
    /\ gen > usedGen[t] => cookie > used[t]

\* The call a thread leads or waits for rotates the cookie the thread saw.
JoinedInv(t) ==
    pc[t] \in {"rotating", "publish", "close", "persist", "wait"} =>
        /\ joined[t] # None
        /\ calls[joined[t]].from = used[t]
        /\ calls[joined[t]].gen = usedGen[t]

\* What a thread got is the result of the call, and newer than what it saw.
ResultInv(t) ==
    /\ pc[t] \in {"close", "persist"} =>
          /\ calls[joined[t]].status # "running"
          /\ got[t] = calls[joined[t]].cookie
    /\ pc[t] \in {"rotated", "retry"} /\ got[t] # None =>
          used[t] < got[t] /\ got[t] <= cookie /\ usedGen[t] < gen
    /\ pc[t] \in {"persist", "retry"} => got[t] # None

ThreadInv == \A t \in Threads : SeenInv(t) /\ JoinedInv(t) /\ ResultInv(t)

\* The invariant that every step keeps by itself: one rotation at a time, whose
\* outcome is what its callers get, however the goroutines interleave.
IInv ==
    /\ TypeOK
    /\ SingleFlight
    /\ CallsInv
    /\ LeaderInv
    /\ CloserInv
    /\ ThreadInv
    /\ OneRotationPerGeneration

-----------------------------------------------------------------------------
(* The source implements RotatingCookie: a rotation takes effect when it   *)
(* is published, and a caller is answered when Rotate returns to it.       *)

published == {1} \union {calls[i].cookie : i \in {j \in DOMAIN calls : calls[j].status = "ok"}}

caller == [t \in Threads |->
    CASE pc[t] \in {"idle", "send"} -> [state |-> "idle"]
      [] pc[t] \in {"rotated", "retry"} ->
            IF got[t] = None THEN [state |-> "refused"]
                             ELSE [state |-> "granted", cookie |-> got[t]]
      [] OTHER -> [state |-> "asked", used |-> used[t]]]

Abstract == INSTANCE RotatingCookie

\* Every behaviour of the source, with its fairness, is one of RotatingCookie.
ImplementsRotatingCookie == Abstract!Spec

=============================================================================
