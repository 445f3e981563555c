--------------------------- MODULE RotatingCookie ---------------------------
(***************************************************************************)
(* What a SessionSource promises to the goroutines that share it, without  *)
(* locks, in-flight calls or a Keychain: one session cookie that is        *)
(* replaced atomically, and a Rotate operation that answers every caller   *)
(* with a cookie that replaced the one the caller had used, or refuses.    *)
(*                                                                         *)
(* Cookies are numbered in the order Grafana issues them; 1 is the one the *)
(* source was created with.                                                *)
(***************************************************************************)
EXTENDS Naturals

CONSTANT Threads       \* the goroutines that send requests through the source

VARIABLES
    published,         \* every cookie that has been the current one
    caller             \* caller[t]: how far thread t is with its request

vars == <<published, caller>>

Idle == [state |-> "idle"]
Asked(c) == [state |-> "asked", used |-> c]       \* its request carried c
Granted(c) == [state |-> "granted", cookie |-> c] \* Rotate returned c
Refused == [state |-> "refused"]                  \* Rotate returned an error

Init ==
    /\ published = {1}
    /\ caller = [t \in Threads |-> Idle]

\* A caller whose request was rejected, or that refreshes, asks for a newer
\* cookie than the one it has seen.
Ask(t) ==
    /\ caller[t] = Idle
    /\ \E c \in published : caller' = [caller EXCEPT ![t] = Asked(c)]
    /\ UNCHANGED published

\* A rotation succeeds: a cookie newer than all before becomes the current one.
Advance ==
    /\ \E c \in published' :
          /\ \A d \in published : d < c
          /\ published' = published \union {c}
    /\ UNCHANGED caller

\* Rotate returns a cookie that became current after the one the caller used.
Grant(t) ==
    /\ caller[t].state = "asked"
    /\ \E c \in published :
          /\ c > caller[t].used
          /\ caller' = [caller EXCEPT ![t] = Granted(c)]
    /\ UNCHANGED published

\* Rotate returns an error.
Refuse(t) ==
    /\ caller[t].state = "asked"
    /\ caller' = [caller EXCEPT ![t] = Refused]
    /\ UNCHANGED published

\* The caller is done with the answer.
Return(t) ==
    /\ caller[t].state \in {"granted", "refused"}
    /\ caller' = [caller EXCEPT ![t] = Idle]
    /\ UNCHANGED published

Respond(t) == Grant(t) \/ Refuse(t) \/ Return(t)

Next == Advance \/ \E t \in Threads : Ask(t) \/ Respond(t)

Spec == Init /\ [][Next]_vars /\ \A t \in Threads : WF_vars(Respond(t))

=============================================================================
