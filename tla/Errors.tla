------------------------------- MODULE Errors -------------------------------
(***************************************************************************)
(* What the exit status of a command is when it ends with an error         *)
(* (cmd/grafanapi/fail, main.go): 2 if the user has to log in, or to bind  *)
(* the session, before trying again, and 1 otherwise.                      *)
(*                                                                         *)
(* An error is the sequence of the types and sentinels in its chain, or in *)
(* the errors it joins, in the order in which errors.As and errors.Is look *)
(* at them.                                                                *)
(***************************************************************************)
EXTENDS Naturals, Sequences, SequencesExt, FiniteSetsExt

Config == {"ValidationError", "UnmarshalError", "ErrContextNotFound"}
SessionBinding == {"ErrSessionUnbound", "ErrSessionOriginMismatch"}
FS == {"ErrNotExist", "ErrInvalid", "ErrPermission"}    \* of a PathError
Resources == {"InvalidSelectorError"}
Alerts == {"ErrRuleNotFound"}
ServerPolicy == {"UnsafeRedirectError", "ServerURLError"}
Network == {"url.Error"}
Auth == {"APIError 401", "APIError 403", "APIError"}
LoginRejected == {"ErrUnauthorized"}
API == {"StatusError 401", "StatusError"}

\* The converters are tried in this order, whatever the order in the error.
Converters == <<Config, SessionBinding, FS, Resources, Alerts, ServerPolicy, Network,
                Auth, LoginRejected, API>>

\* Where in the error there is what a converter looks for, and the first of it.
Finds(i, error) == {j \in DOMAIN error : error[j] \in Converters[i]}
First(i, error) == error[Min(Finds(i, error))]

\* An APIError of another status is left to the next converters.
Converting(error) ==
    {i \in DOMAIN Converters : Finds(i, error) # {} /\ First(i, error) # "APIError"}

\* The errors whose DetailedError has sessionAuthExitCode.
SessionErrors == {"ErrSessionUnbound", "APIError 401", "ErrUnauthorized", "StatusError 401"}

\* A DetailedError that a command made itself goes before all of them, and none
\* of these has a status of its own.
ExitStatus(error) ==
    IF /\ ~Contains(error, "DetailedError")
       /\ \E i \in Converting(error) :
             /\ \A j \in Converting(error) : i <= j
             /\ First(i, error) \in SessionErrors
    THEN "2" ELSE "1"

\* The dynamic client's errors become an APIError of its own package, which wraps
\* nothing and which no converter knows.
ParseStatusError(error) == <<"dynamic.APIError">>

\* errors.Join, in the order in which the errors were met.
Join(errors) == FlattenSeq(errors)

=============================================================================
