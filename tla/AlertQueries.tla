---------------------------- MODULE AlertQueries ----------------------------
(***************************************************************************)
(* `alerts rules list`, `alerts rules get` (internal/alerts/rules.go,      *)
(* get.go) and their two requests: the definitions, and then the state of  *)
(* the evaluation (state.go), joined by the rules' uids and by the folders'*)
(* uids. Everything may change between the two. (`contact-points list` is  *)
(* one request, whose answer it prints.)                                   *)
(***************************************************************************)
EXTENDS GrafanaAlerting

CONSTANTS
    Faults,        \* "request": a request may fail
    FolderNames    \* each folder's [path, leaf], in which the leaf is its title

VARIABLES
    groups, session,
    live,          \* the evaluated rules' "firing" or "inactive", by their uid
    query,         \* [cmd: "list", "get" or "none", uid, folder, state]
    asked,         \* "ask", "states" or "done"
    definitions,   \* what the first request found: [uid, folder, recording]
    answer         \* [rows, err], where err is "nil", "401" or "error"

queryVars == <<query, asked, definitions, answer>>

NoAnswer == [rows |-> {}, err |-> "nil"]
NoNames == [path |-> "", leaf |-> ""]

\* A rule with Record set, which is no alert. (In this model: with this val.)
RecordVal == 0

KnownStates == {"firing", "pending", "recovering", "inactive", "unknown", "recording",
                "unavailable"}

NormalizeState(state) == IF state = "normal" THEN "inactive" ELSE state

StateFilter == NormalizeState(query.state)

-----------------------------------------------------------------------------
(* What Grafana answers                                                    *)

\* ruleFromProvisioned, of every rule.
Definitions ==
    UNION {{[uid |-> r.uid, folder |-> g[1], recording |-> r.val = RecordVal] :
               r \in RuleSet(groups[g].rules)} : g \in DOMAIN groups}

\* ruleStatesFrom: ByUID and FolderPaths. Only what was evaluated is there.
ByUID ==
    LET entry(d) == [names |-> FolderNames[d.folder],
                     state |-> IF d.recording THEN "" ELSE live[d.uid]]
        found == {d \in Definitions : d.uid \in DOMAIN live}
    IN  [u \in {d.uid : d \in found} |-> entry(CHOOSE d \in found : d.uid = u)]

FolderPaths ==
    [f \in {d.folder : d \in {d \in Definitions : d.uid \in DOMAIN live}} |-> FolderNames[f]]

NoStates == [byUID |-> <<>>, folderPaths |-> <<>>]
States == [byUID |-> ByUID, folderPaths |-> FolderPaths]

-----------------------------------------------------------------------------
(* The join                                                                *)

\* applyState. A rule that was not evaluated gets its folder's names from the
\* other rules of the folder.
Joined(d, states, unjoined) ==
    LET found == d.uid \in DOMAIN states.byUID
    IN  [uid |-> d.uid, folder |-> d.folder,
         names |-> IF found THEN states.byUID[d.uid].names
                   ELSE IF d.folder \in DOMAIN states.folderPaths
                   THEN states.folderPaths[d.folder] ELSE NoNames,
         state |-> IF d.recording THEN "recording"
                   ELSE IF found /\ states.byUID[d.uid].state # ""
                   THEN states.byUID[d.uid].state ELSE unjoined]

InFolder(folder, uid, names) == folder \in {"", uid, names.path, names.leaf}

\* Rule.matches; get has no filters.
Matched(row) ==
    \/ query.cmd = "get"
    \/ /\ InFolder(query.folder, row.folder, row.names)
       /\ StateFilter \in {"", row.state}

Rows(states, unjoined) ==
    {row \in {Joined(d, states, unjoined) : d \in definitions} : Matched(row)}

FolderDependent == query.cmd = "list" /\ query.folder # ""

\* stateDependentFilter: the filter has no answer without the states.
StateDependent ==
    /\ query.cmd = "list"
    /\ query.folder # "" \/ StateFilter \notin {"", "recording", "unavailable"}

-----------------------------------------------------------------------------
(* The commands                                                            *)

Init ==
    /\ asked = IF query.cmd = "none" THEN "done" ELSE "ask"
    /\ definitions = {} /\ answer = NoAnswer

Errors ==
    (IF session THEN {} ELSE {"401"})
    \cup (IF session /\ "request" \in Faults THEN {"error"} ELSE {})

Fail(err) == asked' = "done" /\ answer' = [rows |-> {}, err |-> err]

\* ValidateState, and the first request. To get a rule that is not there is an
\* error.
AskDefinitions ==
    /\ asked = "ask"
    /\ LET found == {d \in Definitions : query.cmd = "get" => d.uid = query.uid}
       IN  \/ /\ StateFilter \notin KnownStates \cup {""}
              /\ Fail("error") /\ UNCHANGED definitions
           \/ /\ StateFilter \in KnownStates \cup {""} /\ session
              /\ IF query.cmd = "get" /\ found = {}
                 THEN Fail("error") /\ UNCHANGED definitions
                 ELSE definitions' = found /\ asked' = "states" /\ UNCHANGED answer
           \/ /\ StateFilter \in KnownStates \cup {""}
              /\ \E err \in Errors : Fail(err)
              /\ UNCHANGED definitions
    /\ UNCHANGED query

\* FetchRuleStates, and its answer. Without the states, and unless the session
\* died or a filter needs them, every alert rule is "unavailable".
AskStates ==
    /\ asked = "states"
    /\ \/ /\ session
          /\ asked' = "done"
          /\ answer' = [rows |-> Rows(States, "unknown"), err |-> "nil"]
       \/ \E err \in Errors :
             IF err = "401" \/ StateDependent THEN Fail(err)
             ELSE /\ asked' = "done"
                  /\ answer' = [rows |-> Rows(NoStates, "unavailable"), err |-> "nil"]
    /\ UNCHANGED <<query, definitions>>

Next == AskDefinitions \/ AskStates

-----------------------------------------------------------------------------
(* What is the case, for the properties                                    *)

\* Of each rule: its folder, whether the folder has an evaluated rule, and its
\* state.
Facts ==
    {[uid |-> d.uid, folder |-> d.folder, named |-> d.folder \in DOMAIN FolderPaths,
      state |-> IF d.recording THEN "recording"
                ELSE IF d.uid \in DOMAIN live THEN live[d.uid] ELSE "unknown"] :
        d \in Definitions}

Gone(uid) == [uid |-> uid, folder |-> "", named |-> FALSE, state |-> "gone"]

=============================================================================
