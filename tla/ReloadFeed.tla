----------------------------- MODULE ReloadFeed -----------------------------
(***************************************************************************)
(* What the live-reload endpoint promises to the browsers: from the moment *)
(* it joins, a browser gets every reload message, in order and once each,  *)
(* until it is cut off; after a cut it gets nothing more. Internal queues, *)
(* the hub and its goroutines are not visible here.                        *)
(***************************************************************************)
EXTENDS Naturals

CONSTANT Client    \* browsers

VARIABLES
    sent,          \* reload messages published, numbered from 1
    status,        \* status[c]: "away", "joined" or "gone"
    last           \* last[c]: the last message that a joined browser c has

vars == <<sent, status, last>>

Init ==
    /\ sent = 0
    /\ status = [c \in Client |-> "away"]
    /\ last = [c \in Client |-> 0]

Publish ==
    /\ sent' = sent + 1
    /\ UNCHANGED <<status, last>>

\* A browser joins: it has no use for what was published before.
Join(c) ==
    /\ status[c] = "away"
    /\ status' = [status EXCEPT ![c] = "joined"]
    /\ last' = [last EXCEPT ![c] = sent]
    /\ UNCHANGED sent

Deliver(c) ==
    /\ status[c] = "joined"
    /\ last[c] < sent
    /\ last' = [last EXCEPT ![c] = @ + 1]
    /\ UNCHANGED <<sent, status>>

Cut(c) ==
    /\ status[c] # "gone"
    /\ status' = [status EXCEPT ![c] = "gone"]
    /\ last' = [last EXCEPT ![c] = 0]
    /\ UNCHANGED sent

Next ==
    \/ Publish
    \/ \E c \in Client : Join(c) \/ Deliver(c) \/ Cut(c)

Spec == Init /\ [][Next]_vars
=============================================================================
