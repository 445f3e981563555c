---------------------------- MODULE ConfigProofs ----------------------------
(***************************************************************************)
(* What the commands that write the configuration may do to it, and what   *)
(* becomes of the stored sessions, for any configurations, names, servers, *)
(* processes and command lines.                                            *)
(***************************************************************************)
EXTENDS ConfigCommands, TLAPS

-----------------------------------------------------------------------------
(* Configurations                                                          *)

LEMMA Constants ==
    /\ Empty \in Context /\ Absent \in Context /\ Empty.exists /\ ~Absent.exists
    /\ NoContexts \in [Name -> Context]
    /\ Missing \notin Configs /\ Torn \notin Configs /\ Missing # Torn
    /\ Missing.contexts = NoContexts /\ Torn.contexts = NoContexts
    /\ Fresh \in Configs
    /\ "" \notin Name
<1>1. /\ Empty \in Context /\ Absent \in Context /\ Empty.exists /\ ~Absent.exists
    BY DEF Empty, Absent, Context
<1>2. NoContexts \in [Name -> Context]
    BY <1>1 DEF NoContexts
<1>3. /\ Missing \notin Configs /\ Torn \notin Configs /\ Missing # Torn
      /\ Missing.contexts = NoContexts /\ Torn.contexts = NoContexts
    BY NameAssumption DEF Missing, Torn, Config, Configs
<1>4. [NoContexts EXCEPT ![DefaultContextName] = Empty] \in [Name -> Context]
    BY <1>1, <1>2
<1>5. Fresh \in Configs
    BY <1>4, NameAssumption DEF Fresh, Config, Configs
<1> QED
    BY <1>1, <1>2, <1>3, <1>5, NameAssumption

\* A content loads if it is a configuration, and is loaded as it is.
LEMMA Loads ==
    ASSUME NEW content \in Contents
    PROVE  /\ Load(content) # {} <=> content \in Configs
           /\ content \in Configs => Load(content) = {content}
           /\ content.contexts \in [Name -> Context]
    BY Constants DEF Load, Contents, Configs

\* What the environment adds to a configuration.
LEMMA Environment ==
    ASSUME NEW cfg \in Configs, NEW i, WellFormed(i)
    PROVE  LET e == ApplyEnvironment(cfg, i)
               n == CurrentOr(cfg)
           IN  /\ e \in Configs /\ n \in Name /\ e.current = n
               /\ \A m \in Name \ {n} : e.contexts[m] = cfg.contexts[m]
               /\ e.contexts[n].window = cfg.contexts[n].window
               /\ e.contexts[n].server \in {cfg.contexts[n].server, i.env}
<1> DEFINE n == CurrentOr(cfg)
           c == cfg.contexts[n]
           ctx == [c EXCEPT !.exists = TRUE]
           new == IF i.env = Unset THEN ctx ELSE [ctx EXCEPT !.server = i.env]
<1>1. n \in Name
    BY NameAssumption DEF CurrentOr, Configs
<1>2. c \in Context
    BY <1>1 DEF Configs
<1>3. ctx \in Context /\ ctx.window = c.window /\ ctx.server = c.server
    BY <1>2 DEF Context
<1> HIDE DEF ctx
<1>4. new \in Context /\ new.window = c.window /\ new.server \in {c.server, i.env}
    BY <1>3 DEF Context, WellFormed
<1>5. ApplyEnvironment(cfg, i) = Config([cfg.contexts EXCEPT ![n] = new], n)
    BY DEF ApplyEnvironment, ctx
<1> HIDE DEF n, new
<1> DEFINE cs == [cfg.contexts EXCEPT ![n] = new]
<1>6. cs \in [Name -> Context] /\ cs[n] = new /\ \A m \in Name \ {n} : cs[m] = cfg.contexts[m]
    BY <1>1, <1>4 DEF Configs
<1> HIDE DEF cs
<1>7. ApplyEnvironment(cfg, i) = Config(cs, n)
    BY <1>5 DEF cs
<1>8. Config(cs, n) \in Configs /\ Config(cs, n).contexts = cs /\ Config(cs, n).current = n
    BY <1>1, <1>6 DEF Config, Configs
<1> QED
    BY <1>1, <1>4, <1>6, <1>7, <1>8 DEF n

\* What a command other than login starts from.
LEMMA Base ==
    ASSUME NEW cfg \in Configs, NEW i, WellFormed(i), i.cmd # "login"
    PROVE  LET b == Loaded(cfg, i)
               n == CurrentOr(cfg)
           IN  /\ b \in Configs /\ n \in Name
               /\ b.current = IF i.context = "" THEN n ELSE i.context
               /\ \A m \in Name \ {n} : b.contexts[m] = cfg.contexts[m]
               /\ b.contexts[n].window = cfg.contexts[n].window
               /\ b.contexts[n].server \in {cfg.contexts[n].server, i.env}
<1> DEFINE e == ApplyEnvironment(cfg, i)
           n == CurrentOr(cfg)
<1>1. /\ e \in Configs /\ n \in Name /\ e.current = n
      /\ \A m \in Name \ {n} : e.contexts[m] = cfg.contexts[m]
      /\ e.contexts[n].window = cfg.contexts[n].window
      /\ e.contexts[n].server \in {cfg.contexts[n].server, i.env}
    BY Environment
<1>2. Loaded(cfg, i) = IF i.context = "" THEN e ELSE [e EXCEPT !.current = i.context]
    BY DEF Loaded, ApplyContextFlag
<1> HIDE DEF e, n
<1>3. i.context = "" \/ i.context \in Name
    BY DEF WellFormed
<1>4. i.context # "" =>
        /\ [e EXCEPT !.current = i.context] \in Configs
        /\ [e EXCEPT !.current = i.context].current = i.context
        /\ [e EXCEPT !.current = i.context].contexts = e.contexts
    BY <1>1, <1>3 DEF Configs
<1> QED
    BY <1>1, <1>2, <1>4 DEF n

\* b became r by a change of what i names, and of nothing else.
Edited(i, b, r) ==
    /\ r \in Configs
    /\ \A m \in Name : r.contexts[m] # b.contexts[m] =>
          /\ Names(i, m)
          /\ i.field \in {"server", "window"} =>
                \A g \in {"server", "window"} \ {i.field} : r.contexts[m][g] = b.contexts[m][g]
    /\ r.current # b.current => i.field = "current" \/ i.cmd = "use"

\* To replace a context, or to say which one is current.
LEMMA ReplaceContext ==
    ASSUME NEW b \in Configs, NEW n \in Name, NEW c \in Context
    PROVE  /\ [b EXCEPT !.contexts[n] = c] \in Configs
           /\ [b EXCEPT !.contexts[n] = c].current = b.current
           /\ [b EXCEPT !.contexts[n] = c].contexts[n] = c
           /\ \A m \in Name \ {n} : [b EXCEPT !.contexts[n] = c].contexts[m] = b.contexts[m]
<1> DEFINE cs == [b.contexts EXCEPT ![n] = c]
<1>1. cs \in [Name -> Context] /\ cs[n] = c /\ \A m \in Name \ {n} : cs[m] = b.contexts[m]
    BY DEF Configs
<1>2. [b EXCEPT !.contexts[n] = c] = [b EXCEPT !.contexts = cs]
    BY DEF Configs
<1> HIDE DEF cs
<1> QED
    BY <1>1, <1>2 DEF Configs

Currents == Name \cup {""}
WithCurrent(b, n) == [b EXCEPT !.current = n]

LEMMA ReplaceCurrent ==
    ASSUME NEW b \in Configs, NEW n \in Currents
    PROVE  /\ WithCurrent(b, n) \in Configs
           /\ WithCurrent(b, n).contexts = b.contexts
           /\ WithCurrent(b, n).current = n
    BY DEF Configs, WithCurrent, Currents

LEMMA ReplaceAll ==
    ASSUME NEW b \in Configs
    PROVE  /\ [b EXCEPT !.contexts = NoContexts] \in Configs
           /\ [b EXCEPT !.contexts = NoContexts].current = b.current
    BY Constants DEF Configs

\* To set one value of a context.
WithField(b, n, field, v) == [b EXCEPT !.contexts[n].exists = TRUE, !.contexts[n][field] = v]

LEMMA SettingField ==
    ASSUME NEW b \in Configs, NEW n \in Name, NEW field \in {"server", "window"}, NEW v,
           field = "server" => v \in Server \cup {Unset},
           field = "window" => v \in {Unset, "6d"}
    PROVE  /\ WithField(b, n, field, v) \in Configs
           /\ WithField(b, n, field, v).current = b.current
           /\ \A m \in Name \ {n} : WithField(b, n, field, v).contexts[m] = b.contexts[m]
           /\ \A g \in {"server", "window"} \ {field} :
                 WithField(b, n, field, v).contexts[n][g] = b.contexts[n][g]
<1> DEFINE c == b.contexts[n]
           d == [c EXCEPT !.exists = TRUE, ![field] = v]
           r == [b EXCEPT !.contexts[n] = d]
<1>1. c \in Context
    BY DEF Configs
<1>2. d \in Context /\ \A g \in {"server", "window"} \ {field} : d[g] = c[g]
    BY <1>1 DEF Context
<1>3. WithField(b, n, field, v) = r
    BY DEF Configs, Context, WithField
<1> HIDE DEF d
<1>4. /\ r \in Configs /\ r.current = b.current /\ r.contexts[n] = d
      /\ \A m \in Name \ {n} : r.contexts[m] = b.contexts[m]
    BY <1>2, ReplaceContext
<1> HIDE DEF r
<1> QED
    BY <1>2, <1>3, <1>4

LEMMA SetIs ==
    ASSUME NEW b \in Configs, NEW i, WellFormed(i), i.cmd = "set", ~CannotSet(i)
    PROVE  Edited(i, b, SetValue(b, i))
<1>1. i.field \in {"server", "window", "current"}
    BY DEF WellFormed, CannotSet
<1>2. CASE i.field = "current"
  <2>1. i.value \in Currents /\ SetValue(b, i) = WithCurrent(b, i.value)
    BY <1>2 DEF WellFormed, Accepts, SetValue, WithCurrent, Currents
  <2> QED
    BY <1>2, <2>1, ReplaceCurrent DEF Edited
<1>3. CASE i.field \in {"server", "window"}
  <2> DEFINE r == WithField(b, i.name, i.field, i.value)
  <2>1. /\ i.name \in Name
        /\ i.field = "server" => i.value \in Server \cup {Unset}
        /\ i.field = "window" => i.value \in {Unset, "6d"}
    BY <1>3 DEF WellFormed, Accepts
  <2>2. SetValue(b, i) = r
    BY <1>3 DEF SetValue, WithField
  <2>3. /\ r \in Configs /\ r.current = b.current
        /\ \A m \in Name \ {i.name} : r.contexts[m] = b.contexts[m]
        /\ \A g \in {"server", "window"} \ {i.field} : r.contexts[i.name][g] = b.contexts[i.name][g]
    BY <1>3, <2>1, SettingField
  <2> HIDE DEF r
  <2> QED
    BY <2>2, <2>3 DEF Edited, Names
<1> QED
    BY <1>1, <1>2, <1>3

LEMMA UnsetIs ==
    ASSUME NEW b \in Configs, NEW i, WellFormed(i), i.cmd = "unset"
    PROVE  Edited(i, b, UnsetValue(b, i))
<1>1. i.field \in {"contexts", "context", "grafana", "server", "window", "current"}
    BY DEF WellFormed
<1>2. CASE i.field = "current"
  <2>1. "" \in Currents /\ UnsetValue(b, i) = WithCurrent(b, "")
    BY <1>2 DEF UnsetValue, WithCurrent, Currents
  <2>2. WithCurrent(b, "") \in Configs /\ WithCurrent(b, "").contexts = b.contexts
    BY <2>1, ReplaceCurrent
  <2> QED
    BY <1>2, <2>1, <2>2 DEF Edited
<1>3. CASE i.field = "contexts"
    BY <1>3, ReplaceAll DEF UnsetValue, Edited, Names
<1>4. CASE i.field \in {"context", "grafana"}
  <2>1. i.name \in Name
    BY <1>4 DEF WellFormed
  <2>2. PICK c \in {Absent, Empty} : UnsetValue(b, i) = [b EXCEPT !.contexts[i.name] = c]
    BY <1>4 DEF UnsetValue
  <2> DEFINE r == [b EXCEPT !.contexts[i.name] = c]
  <2>3. /\ r \in Configs /\ r.current = b.current
        /\ \A m \in Name \ {i.name} : r.contexts[m] = b.contexts[m]
    <3> DEFINE n == i.name
    <3>1. n \in Name /\ c \in Context
      BY <2>1, Constants
    <3> HIDE DEF n
    <3>2. /\ [b EXCEPT !.contexts[n] = c] \in Configs
          /\ [b EXCEPT !.contexts[n] = c].current = b.current
          /\ \A m \in Name \ {n} : [b EXCEPT !.contexts[n] = c].contexts[m] = b.contexts[m]
      BY <3>1, ReplaceContext
    <3> QED
      BY <3>2 DEF n
  <2> HIDE DEF r
  <2> QED
    BY <1>4, <2>2, <2>3 DEF Edited, Names, r
<1>5. CASE i.field \in {"server", "window"}
  <2> DEFINE r == WithField(b, i.name, i.field, Unset)
  <2>1. i.name \in Name
    BY <1>5 DEF WellFormed
  <2>2. UnsetValue(b, i) = r
    BY <1>5 DEF UnsetValue, WithField
  <2>3. /\ r \in Configs /\ r.current = b.current
        /\ \A m \in Name \ {i.name} : r.contexts[m] = b.contexts[m]
        /\ \A g \in {"server", "window"} \ {i.field} : r.contexts[i.name][g] = b.contexts[i.name][g]
    BY <1>5, <2>1, SettingField
  <2> HIDE DEF r
  <2> QED
    BY <2>2, <2>3 DEF Edited, Names
<1> QED
    BY <1>1, <1>2, <1>3, <1>4, <1>5

LEMMA LoginIs ==
    ASSUME NEW cfg \in Configs, NEW i, WellFormed(i), i.cmd = "login"
    PROVE  LET r == LoggedIn(cfg, i)
           IN  /\ r \in Configs /\ OnlyNamed(i, cfg, r)
               /\ LoginName(r, i) \in Name /\ r.contexts[LoginName(r, i)].exists
<1> DEFINE n == LoginName(cfg, i)
           new == [Empty EXCEPT !.server = i.value]
           cs == [cfg.contexts EXCEPT ![n] = new]
           current == IF cfg.current = "" THEN n ELSE cfg.current
<1>1. n \in Name
    BY NameAssumption DEF LoginName, CurrentOr, WellFormed, Configs
<1>2. new \in Context /\ new.exists
    BY DEF Empty, Context, WellFormed
<1>3. cs \in [Name -> Context] /\ cs[n] = new /\ \A m \in Name \ {n} : cs[m] = cfg.contexts[m]
    BY <1>1, <1>2 DEF Configs
<1>4. current \in Name /\ (cfg.current # "" => current = cfg.current)
    BY <1>1, NameAssumption DEF Configs
<1>5. LoggedIn(cfg, i) = Config(cs, current)
    BY DEF LoggedIn
<1> HIDE DEF cs, new
<1>6. Config(cs, current) \in Configs
    BY <1>3, <1>4 DEF Config, Configs
<1>7. LoginName(Config(cs, current), i) = n
    BY <1>1, <1>4, NameAssumption DEF LoginName, CurrentOr, Config
<1>8. OnlyNamed(i, cfg, Config(cs, current))
  <2>1. \A m \in Name : cs[m] # cfg.contexts[m] => m = n
    BY <1>3
  <2>2. n = i.context \/ n = CurrentOr(cfg)
    BY DEF LoginName
  <2>3. i.field \notin {"server", "window"}
    BY DEF WellFormed
  <2> HIDE DEF n, current
  <2> QED
    BY <1>4, <2>1, <2>2, <2>3 DEF OnlyNamed, MayChange, Names, Config
<1>9. Config(cs, current).contexts = cs
    BY DEF Config
<1> HIDE DEF n, current
<1> QED
    BY <1>1, <1>2, <1>3, <1>5, <1>6, <1>7, <1>8, <1>9

\* A command changes what it names, and what the overrides are of.
LEMMA ChangesAreNamed ==
    ASSUME NEW cfg \in Configs, NEW i, WellFormed(i), ~Refused(cfg, i)
    PROVE  /\ Changed(cfg, i) \in Configs
           /\ OnlyNamed(i, cfg, Changed(cfg, i))
<1> DEFINE b == Loaded(cfg, i)
           r == Changed(cfg, i)
           n == CurrentOr(cfg)
<1>1. CASE i.cmd = "login"
  <2>1. r = LoggedIn(cfg, i)
    BY <1>1 DEF Changed
  <2> QED
    BY <1>1, <2>1, LoginIs
<1>2. CASE i.cmd # "login"
  <2>1. /\ b \in Configs /\ n \in Name
        /\ b.current = IF i.context = "" THEN n ELSE i.context
        /\ \A m \in Name \ {n} : b.contexts[m] = cfg.contexts[m]
        /\ b.contexts[n].window = cfg.contexts[n].window
        /\ b.contexts[n].server \in {cfg.contexts[n].server, i.env}
    BY <1>2, Base
  <2>2. Edited(i, b, r)
    <3>1. CASE i.cmd = "set"
      <4>1. ~CannotSet(i)
        BY DEF Refused
      <4> QED
        BY <2>1, <3>1, <4>1, SetIs DEF Changed
    <3>2. CASE i.cmd = "unset"
      BY <2>1, <3>2, UnsetIs DEF Changed
    <3>3. CASE i.cmd = "use"
      <4>1. i.name \in Currents /\ r = WithCurrent(b, i.name)
        BY <3>3 DEF WellFormed, Changed, WithCurrent, Currents
      <4>2. WithCurrent(b, i.name) \in Configs /\ WithCurrent(b, i.name).contexts = b.contexts
        BY <2>1, <4>1, ReplaceCurrent
      <4> QED
        BY <3>3, <4>1, <4>2 DEF Edited
    <3> QED
      BY <1>2, <3>1, <3>2, <3>3 DEF WellFormed
  <2> HIDE DEF b, r, n
  <2>3. ASSUME NEW m \in Name, r.contexts[m] # cfg.contexts[m]
        PROVE  MayChange(i, cfg, m, r)
    <3>1. b.contexts[m].window = cfg.contexts[m].window
          /\ b.contexts[m].server \in {cfg.contexts[m].server, i.env}
      BY <2>1
    <3>2. CASE r.contexts[m] = b.contexts[m]
      <4>1. m = n
        BY <2>1, <2>3, <3>2
      <4> QED
        BY <3>1, <3>2, <4>1 DEF MayChange, n
    <3>3. CASE r.contexts[m] # b.contexts[m]
      <4>1. /\ Names(i, m)
            /\ i.field \in {"server", "window"} =>
                 \A g \in {"server", "window"} \ {i.field} : r.contexts[m][g] = b.contexts[m][g]
        BY <2>2, <3>3 DEF Edited
      <4>2. \A g \in {"server", "window"} : b.contexts[m][g] \in {cfg.contexts[m][g], i.env}
        BY <3>1
      <4> QED
        BY <4>1, <4>2 DEF MayChange
    <3> QED
      BY <3>2, <3>3
  <2>4. r.current # cfg.current =>
          \/ i.field = "current" \/ i.cmd = "use"
          \/ r.current = i.context \/ cfg.current = ""
    BY <2>1, <2>2 DEF Edited, CurrentOr, n
  <2>5. r \in Configs
    BY <2>2 DEF Edited
  <2> QED
    BY <2>3, <2>4, <2>5 DEF OnlyNamed, r
<1> QED
    BY <1>1, <1>2

-----------------------------------------------------------------------------
(* A file that gets another content                                        *)

LEMMA Invoked ==
    ASSUME NEW i \in Invocations
    PROVE  /\ WellFormed(i) /\ i.file \in Files
           /\ i.cmd = "login" => i.value \in Server
           /\ i.cmd = "unset" /\ i.field = "context" => i.name \in Name
<1>1. WellFormed(i)
    BY InvocationsAssumption
<1> QED
    BY <1>1 DEF WellFormed

\* What a failed Encode leaves is a content.
LEMMA CutShortIs ==
    ASSUME NEW cfg \in Configs, NEW new \in CutShort(cfg)
    PROVE  new \in Contents
<1>1. CASE new = Torn
    BY <1>1 DEF Contents
<1>2. CASE new # Torn
  <2>1. PICK kept \in SUBSET Name :
          new = Config([n \in Name |-> IF n \in kept THEN cfg.contexts[n] ELSE Absent], "")
    BY <1>2 DEF CutShort
  <2> DEFINE cs == [n \in Name |-> IF n \in kept THEN cfg.contexts[n] ELSE Absent]
  <2>2. cs \in [Name -> Context]
    BY Constants DEF Configs
  <2> HIDE DEF cs
  <2>3. Config(cs, "") \in Configs
    BY <2>2 DEF Config, Configs
  <2> QED
    BY <2>1, <2>3 DEF Contents, cs
<1> QED
    BY <1>1, <1>2

\* A context leaves the last content that loads because of the command that
\* removes it, or its session is abandoned; a command whose file changed is stale.
LEMMA BecameIs ==
    ASSUME TypeOK, NEW p \in Process, inv[p].file \in Files, NEW new \in Contents,
           NEW through \in BOOLEAN, Became(p, new, through)
    PROVE  LET f == inv[p].file
           IN  /\ file' \in [Files -> Contents] /\ file'[f] = new
               /\ good' \in [Files -> Contents]
               /\ good'[f] = IF new \in Configs THEN new ELSE good[f]
               /\ \A g \in Files \ {f} : file'[g] = file[g] /\ good'[g] = good[g]
               /\ stale \subseteq stale' /\ stale' \subseteq Process
               /\ p \in stale' => p \in stale
               /\ \A q \in Process \ {p} : pc[q] # "idle" /\ q \notin stale' =>
                     good'[inv[q].file] = good[inv[q].file]
               /\ abandoned \subseteq abandoned' /\ abandoned' \subseteq Name
               /\ \A n \in Name \ abandoned' :
                     \/ good[f].contexts[n].exists
                     \/ through /\ snapshot[p].contexts[n].exists
                     => \/ good'[f].contexts[n].exists
                        \/ through /\ RemovesContext(p) /\ inv[p].name = n
<1> DEFINE f == inv[p].file
<1>1. /\ file \in [Files -> Contents] /\ good \in [Files -> Contents]
      /\ stale \subseteq Process /\ abandoned \subseteq Name
    BY DEF TypeOK
<1>2. /\ file' = [file EXCEPT ![f] = new]
      /\ good' = [good EXCEPT ![f] = IF Load(new) = {} THEN @ ELSE new]
      /\ stale' = IF good'[f] = good[f] THEN stale
                  ELSE stale \cup {q \in Process \ {p} : pc[q] # "idle" /\ inv[q].file = f}
    BY DEF Became
<1>3. abandoned' = abandoned \cup
          {n \in Name : /\ \/ good[f].contexts[n].exists
                           \/ through /\ snapshot[p].contexts[n].exists
                        /\ ~good'[f].contexts[n].exists
                        /\ ~(through /\ RemovesContext(p) /\ inv[p].name = n)}
    BY DEF Became
<1> HIDE DEF f
<1>4. f \in Files
    BY DEF f
<1>5. Load(new) = {} <=> new \notin Configs
    BY Loads
<1>6. file' \in [Files -> Contents] /\ file'[f] = new
    BY <1>1, <1>2, <1>4
<1>7. good' \in [Files -> Contents] /\ good'[f] = IF new \in Configs THEN new ELSE good[f]
    BY <1>1, <1>2, <1>4, <1>5
<1>8. \A g \in Files \ {f} : file'[g] = file[g] /\ good'[g] = good[g]
    BY <1>1, <1>2, <1>4
<1>9. /\ stale \subseteq stale' /\ stale' \subseteq Process
      /\ p \in stale' => p \in stale
    BY <1>1, <1>2
<1>10. ASSUME NEW q \in Process \ {p}, pc[q] # "idle", q \notin stale'
       PROVE  good'[inv[q].file] = good[inv[q].file]
  <2>1. CASE inv[q].file # f
    BY <1>1, <1>2, <2>1
  <2>2. CASE inv[q].file = f
    BY <1>2, <1>10, <2>2
  <2> QED
    BY <2>1, <2>2
<1>11. /\ abandoned \subseteq abandoned' /\ abandoned' \subseteq Name
       /\ \A n \in Name \ abandoned' :
             \/ good[f].contexts[n].exists
             \/ through /\ snapshot[p].contexts[n].exists
             => \/ good'[f].contexts[n].exists
                \/ through /\ RemovesContext(p) /\ inv[p].name = n
    BY <1>1, <1>3
<1> QED
    BY <1>6, <1>7, <1>8, <1>9, <1>10, <1>11 DEF f

-----------------------------------------------------------------------------
(* What a step of one command leaves to the others                         *)

Others(p) ==
    \A q \in Process \ {p} :
        pc'[q] = pc[q] /\ inv'[q] = inv[q] /\ snapshot'[q] = snapshot[q] /\ prior'[q] = prior[q]

LEMMA OthersKeep ==
    ASSUME CommandsInv, NEW p \in Process, Others(p), CommandInv(p)',
           \A q \in Process \ {p} : pc[q] # "idle" /\ q \notin stale' =>
               q \notin stale /\ good'[inv[q].file] = good[inv[q].file]
    PROVE  CommandsInv'
<1> SUFFICES ASSUME NEW q \in Process, q # p PROVE CommandInv(q)'
    BY DEF CommandsInv
<1>1. CommandInv(q)
    BY DEF CommandsInv
<1>2. pc'[q] = pc[q] /\ inv'[q] = inv[q] /\ snapshot'[q] = snapshot[q]
    BY DEF Others
<1>3. Target(q)' = Target(q) /\ RemovesContext(q)' = RemovesContext(q)
    BY <1>2 DEF Target, RemovesContext
<1>4. pc[q] # "idle" /\ q \notin stale' =>
        q \notin stale /\ good'[inv[q].file] = good[inv[q].file]
    OBVIOUS
<1>5. /\ pc'[q] # "idle" => inv'[q] \in Invocations
      /\ pc'[q] \in {"verified", "rollback"} => inv'[q].cmd = "login"
      /\ pc'[q] = "clean" => RemovesContext(q)'
      /\ pc'[q] \in {"verified", "write", "open", "rollback"} =>
            /\ snapshot'[q] \in Configs
            /\ inv'[q].cmd = "login" =>
                  Target(q)' \in Name /\ snapshot'[q].contexts[Target(q)'].exists
    BY <1>1, <1>2, <1>3 DEF CommandInv
<1>6. ASSUME pc'[q] \in {"verified", "write", "open"}, q \notin stale'
      PROVE  /\ good'[inv'[q].file] \in Configs
             /\ ~Refused(good'[inv'[q].file], inv'[q])
             /\ snapshot'[q] = Changed(good'[inv'[q].file], inv'[q])
  <2>1. pc[q] \in {"verified", "write", "open"} /\ q \notin stale
    BY <1>2, <1>4, <1>6
  <2>2. good'[inv'[q].file] = good[inv[q].file]
    BY <1>2, <1>4, <1>6
  <2> QED
    BY <1>1, <1>2, <2>1, <2>2 DEF CommandInv
<1> QED
    BY <1>5, <1>6 DEF CommandInv

LEMMA FirstCommandKeeps ==
    ASSUME TypeOK, FirstCommandInv, NEW p \in Process, pc[p] # "idle", Others(p),
           commands' = commands, pc'[p] = "open" => file'[inv'[p].file] = Torn
    PROVE  FirstCommandInv'
<1>1. commands # 0
    BY DEF FirstCommandInv
<1>2. ASSUME commands <= 1, NEW q \in Process \ {p}
      PROVE  pc[q] = "idle" /\ pc'[q] = "idle"
    BY <1>2 DEF FirstCommandInv, Others
<1> QED
    BY <1>1, <1>2 DEF FirstCommandInv

LEMMA FilesKeep ==
    ASSUME TypeOK, FilesInv, file' = file, good' = good, faults' \in Nat, faults' >= faults,
           commands' \in Nat, commands' >= commands,
           faults' > 0 \/ \A q \in Process : pc[q] = "open" => pc'[q] = "open" /\ inv'[q] = inv[q]
    PROVE  FilesInv'
<1> SUFFICES ASSUME NEW f \in Files
             PROVE  /\ Load(file'[f]) # {} => file'[f] = good'[f]
                    /\ file'[f] = Torn =>
                          \/ good'[f] = Torn \/ faults' > 0 \/ commands' > 1
                          \/ \E p \in Process : pc'[p] = "open" /\ inv'[p].file = f
    BY DEF FilesInv
<1>1. /\ Load(file[f]) # {} => file[f] = good[f]
      /\ file[f] = Torn =>
            \/ good[f] = Torn \/ faults > 0 \/ commands > 1
            \/ \E p \in Process : pc[p] = "open" /\ inv[p].file = f
    BY DEF FilesInv
<1>2. faults \in Nat /\ commands \in Nat
    BY BoundsAssumption DEF TypeOK
<1> QED
    BY <1>1, <1>2

LEMMA FilesBecome ==
    ASSUME TypeOK, FilesInv, NEW p \in Process, inv[p].file \in Files, NEW new \in Contents,
           NEW through \in BOOLEAN, Became(p, new, through), Others(p),
           faults' \in Nat, faults' >= faults, commands' = commands, inv' = inv,
           pc[p] = "open" => new # Torn \/ faults' > 0 \/ commands > 1,
           new = Torn => pc'[p] = "open" \/ faults' > 0 \/ commands > 1
    PROVE  FilesInv'
<1> DEFINE f == inv[p].file
<1>1. /\ file'[f] = new /\ good'[f] = IF new \in Configs THEN new ELSE good[f]
      /\ \A g \in Files \ {f} : file'[g] = file[g] /\ good'[g] = good[g]
    BY BecameIs
<1> HIDE DEF f
<1>2. faults \in Nat /\ commands \in Nat
    BY BoundsAssumption DEF TypeOK
<1> SUFFICES ASSUME NEW g \in Files
             PROVE  /\ Load(file'[g]) # {} => file'[g] = good'[g]
                    /\ file'[g] = Torn =>
                          \/ good'[g] = Torn \/ faults' > 0 \/ commands' > 1
                          \/ \E q \in Process : pc'[q] = "open" /\ inv'[q].file = g
    BY DEF FilesInv
<1>3. CASE g = f
  <2>1. Load(new) # {} => new \in Configs
    BY Loads
  <2>2. new = Torn => (pc'[p] = "open" /\ inv'[p].file = f) \/ faults' > 0 \/ commands' > 1
    BY DEF f
  <2> QED
    BY <1>1, <1>3, <2>1, <2>2
<1>4. CASE g # f
  <2>1. file'[g] = file[g] /\ good'[g] = good[g]
    BY <1>1, <1>4
  <2>2. /\ Load(file[g]) # {} => file[g] = good[g]
        /\ file[g] = Torn =>
              \/ good[g] = Torn \/ faults > 0 \/ commands > 1
              \/ \E q \in Process : pc[q] = "open" /\ inv[q].file = g
    BY DEF FilesInv
  <2>3. ASSUME NEW q \in Process, pc[q] = "open", inv[q].file = g
        PROVE  pc'[q] = "open" /\ inv'[q].file = g
    <3>1. q # p
      BY <1>4, <2>3 DEF f
    <3> QED
      BY <2>3, <3>1 DEF Others
  <2> QED
    BY <1>2, <2>1, <2>2, <2>3
<1> QED
    BY <1>3, <1>4

LEMMA SessionsKeep ==
    ASSUME SessionsInv, NEW p \in Process, Others(p), abandoned \subseteq abandoned',
           \A n \in Name \ abandoned' :
               /\ item'[n] # NoItem => item[n] # NoItem \/ HasContext(n)' \/ Settles(p, n)'
               /\ item'[n] # NoItem /\ HasContext(n) => HasContext(n)' \/ Settles(p, n)'
               /\ item'[n] # NoItem /\ Settles(p, n) => HasContext(n)' \/ Settles(p, n)'
    PROVE  SessionsInv'
<1> SUFFICES ASSUME NEW n \in Name \ abandoned', item'[n] # NoItem, ~HasContext(n)', ~Settles(p, n)'
             PROVE  \E q \in Process : Settles(q, n)'
    BY DEF SessionsInv
<1>1. item[n] # NoItem /\ ~HasContext(n) /\ ~Settles(p, n) /\ n \in Name \ abandoned
    OBVIOUS
<1>2. PICK q \in Process : Settles(q, n)
    BY <1>1 DEF SessionsInv
<1>3. q # p
    BY <1>1, <1>2
<1>4. pc'[q] = pc[q] /\ inv'[q] = inv[q] /\ snapshot'[q] = snapshot[q] /\ prior'[q] = prior[q]
    BY <1>3 DEF Others
<1>5. Target(q)' = Target(q)
    BY <1>4 DEF Target
<1>6. Settles(q, n)'
    BY <1>2, <1>4, <1>5 DEF Settles
<1> QED
    BY <1>6

\* Of the contexts of a file that gets another content, those are gone that the
\* command removes, or whose sessions are abandoned.
LEMMA ContextsStay ==
    ASSUME TypeOK, NEW p \in Process, inv[p].file \in Files, NEW new \in Contents,
           NEW through \in BOOLEAN, Became(p, new, through), NEW n \in Name \ abandoned',
           HasContext(n) \/ (through /\ snapshot[p].contexts[n].exists)
    PROVE  HasContext(n)' \/ (through /\ RemovesContext(p) /\ inv[p].name = n)
<1> DEFINE f == inv[p].file
<1>1. /\ \A g \in Files \ {f} : good'[g] = good[g]
      /\ \/ good[f].contexts[n].exists
         \/ through /\ snapshot[p].contexts[n].exists
         => \/ good'[f].contexts[n].exists
            \/ through /\ RemovesContext(p) /\ inv[p].name = n
    BY BecameIs
<1> HIDE DEF f
<1>2. f \in Files
    BY DEF f
<1>3. CASE \E g \in Files \ {f} : good[g].contexts[n].exists
    BY <1>1, <1>3 DEF HasContext
<1>4. CASE good[f].contexts[n].exists \/ (through /\ snapshot[p].contexts[n].exists)
    BY <1>1, <1>2, <1>4 DEF HasContext
<1> QED
    BY <1>2, <1>3, <1>4 DEF HasContext

\* What is known of a command on its way.
LEMMA OnItsWay ==
    ASSUME TypeOK, CommandsInv, NEW p \in Process, pc[p] # "idle"
    PROVE  /\ inv[p] \in Invocations /\ WellFormed(inv[p]) /\ inv[p].file \in Files
           /\ inv[p].cmd = "login" => inv[p].value \in Server
           /\ RemovesContext(p) => inv[p].name \in Name
<1>1. inv[p] \in Invocations
    BY DEF CommandsInv, CommandInv
<1> QED
    BY <1>1, Invoked DEF RemovesContext

-----------------------------------------------------------------------------
(* The invariant, step by step                                             *)

LEMMA InitHolds == Init => Inv
<1> SUFFICES ASSUME Init PROVE Inv
    OBVIOUS
<1>1. file \in [Files -> Contents] /\ good = file
    BY FilesAssumption DEF Init
<1>2. TypeOK
    BY <1>1, BoundsAssumption DEF Init, TypeOK, Contents
<1>3. FilesInv
    BY <1>1 DEF FilesInv
<1>4. FirstCommandInv
    BY DEF Init, FirstCommandInv
<1>5. CommandsInv
  <2> SUFFICES ASSUME NEW p \in Process PROVE CommandInv(p)
    BY DEF CommandsInv
  <2>1. pc[p] = "idle"
    BY DEF Init
  <2> QED
    BY <2>1 DEF CommandInv
<1>6. SessionsInv
    BY DEF Init, SessionsInv
<1> QED
    BY <1>2, <1>3, <1>4, <1>5, <1>6 DEF Inv

LEMMA StartKeeps ==
    ASSUME Inv, NEW p \in Process, Start(p)
    PROVE  Inv'
<1>1. TypeOK /\ FilesInv /\ FirstCommandInv /\ CommandsInv /\ SessionsInv
    BY DEF Inv
<1>2. PICK i \in Invocations :
        /\ inv' = [inv EXCEPT ![p] = i]
        /\ Goto(p, IF i.file = "own" /\ file["own"] = Missing THEN "create" ELSE "load")
    BY DEF Start
<1>3. PICK label \in {"create", "load"} : pc' = [pc EXCEPT ![p] = label]
    BY <1>2 DEF Goto
<1>4. /\ pc[p] = "idle" /\ commands < MaxCommands /\ commands' = commands + 1
      /\ file' = file /\ item' = item /\ snapshot' = snapshot /\ prior' = prior
      /\ good' = good /\ stale' = stale /\ abandoned' = abandoned /\ faults' = faults
    BY DEF Start
<1>5. pc'[p] = label /\ inv'[p] = i /\ Others(p)
    BY <1>1, <1>2, <1>3, <1>4 DEF TypeOK, Others
<1>6. TypeOK'
    BY <1>1, <1>2, <1>3, <1>4, BoundsAssumption DEF TypeOK
<1>7. commands \in Nat /\ faults \in Nat
    BY <1>1, BoundsAssumption DEF TypeOK
<1>8. FilesInv'
  <2>1. \A q \in Process : pc[q] = "open" => pc'[q] = "open" /\ inv'[q] = inv[q]
    BY <1>4, <1>5 DEF Others
  <2> QED
    BY <1>1, <1>4, <1>7, <2>1, FilesKeep
<1>9. FirstCommandInv'
  <2>1. commands' # 0
    BY <1>4, <1>7
  <2>2. ASSUME commands' <= 1, NEW q \in Process \ {p}
        PROVE  pc'[q] = "idle"
    <3>1. commands = 0
      BY <1>4, <1>7, <2>2
    <3> QED
      BY <1>1, <1>5, <3>1 DEF FirstCommandInv, Others
  <2> QED
    BY <1>3, <1>5, <2>1, <2>2 DEF FirstCommandInv
<1>10. CommandsInv'
  <2>1. CommandInv(p)'
    BY <1>3, <1>5 DEF CommandInv
  <2> QED
    BY <1>1, <1>4, <1>5, <2>1, OthersKeep
<1>11. SessionsInv'
  <2>1. \A n \in Name : ~Settles(p, n) /\ (HasContext(n)' <=> HasContext(n))
    BY <1>4 DEF Settles, HasContext
  <2> QED
    BY <1>1, <1>4, <1>5, <2>1, SessionsKeep
<1> QED
    BY <1>6, <1>8, <1>9, <1>10, <1>11 DEF Inv

LEMMA CreateKeeps ==
    ASSUME Inv, NEW p \in Process, Create(p)
    PROVE  Inv'
<1>1. TypeOK /\ FilesInv /\ FirstCommandInv /\ CommandsInv /\ SessionsInv
    BY DEF Inv
<1>2. /\ pc[p] = "create" /\ Became(p, Fresh, FALSE) /\ pc' = [pc EXCEPT ![p] = "load"]
      /\ item' = item /\ inv' = inv /\ snapshot' = snapshot /\ prior' = prior
      /\ commands' = commands /\ faults' = faults
    BY DEF Create, Goto
<1>3. pc'[p] = "load" /\ Others(p)
    BY <1>1, <1>2 DEF TypeOK, Others
<1>4. inv[p] \in Invocations /\ inv[p].file \in Files
    BY <1>1, <1>2, OnItsWay
<1>5. Fresh \in Contents /\ Fresh # Torn
    BY Constants DEF Contents
<1>6. /\ file' \in [Files -> Contents] /\ good' \in [Files -> Contents]
      /\ stale \subseteq stale' /\ stale' \subseteq Process
      /\ abandoned \subseteq abandoned' /\ abandoned' \subseteq Name
      /\ \A q \in Process \ {p} : pc[q] # "idle" /\ q \notin stale' =>
            good'[inv[q].file] = good[inv[q].file]
    BY <1>1, <1>2, <1>4, <1>5, BecameIs
<1>7. TypeOK'
    BY <1>1, <1>2, <1>6 DEF TypeOK
<1>8. commands \in Nat /\ faults \in Nat
    BY <1>1, BoundsAssumption DEF TypeOK
<1>9. FilesInv'
  <2>1. /\ faults' \in Nat /\ faults' >= faults /\ FALSE \in BOOLEAN
        /\ pc[p] = "open" => Fresh # Torn \/ faults' > 0 \/ commands > 1
        /\ Fresh = Torn => pc'[p] = "open" \/ faults' > 0 \/ commands > 1
    BY <1>2, <1>5, <1>8
  <2> QED
    BY <1>1, <1>2, <1>3, <1>4, <1>5, <2>1, FilesBecome
<1>10. FirstCommandInv'
    BY <1>1, <1>2, <1>3, FirstCommandKeeps
<1>11. CommandsInv'
  <2>1. CommandInv(p)'
    BY <1>2, <1>3, <1>4 DEF CommandInv
  <2> QED
    BY <1>1, <1>3, <1>6, <2>1, OthersKeep
<1>12. SessionsInv'
  <2>1. \A n \in Name \ abandoned' : HasContext(n) => HasContext(n)'
    BY <1>1, <1>2, <1>4, <1>5, ContextsStay
  <2>2. \A n \in Name : ~Settles(p, n)
    BY <1>2 DEF Settles
  <2> QED
    BY <1>1, <1>2, <1>3, <1>6, <2>1, <2>2, SessionsKeep
<1> QED
    BY <1>7, <1>9, <1>10, <1>11, <1>12 DEF Inv

LEMMA LoadAndChangeKeeps ==
    ASSUME Inv, NEW p \in Process, LoadAndChange(p)
    PROVE  Inv'
<1> DEFINE i == inv[p]
           f == inv[p].file
<1>1. TypeOK /\ FilesInv /\ FirstCommandInv /\ CommandsInv /\ SessionsInv
    BY DEF Inv
<1>2. /\ pc[p] = "load" /\ stale' = stale \ {p}
      /\ file' = file /\ item' = item /\ inv' = inv /\ prior' = prior /\ good' = good
      /\ abandoned' = abandoned /\ commands' = commands /\ faults' = faults
    BY DEF LoadAndChange
<1>3. i \in Invocations /\ WellFormed(i) /\ f \in Files
    BY <1>1, <1>2, OnItsWay
<1>4. commands \in Nat /\ faults \in Nat
    BY <1>1, BoundsAssumption DEF TypeOK
<1>5. /\ Others(p) /\ CommandInv(p)'
      /\ pc' \in [Process -> {"idle", "create", "load", "verified", "write", "open",
                              "clean", "rollback", "done", "failed"}]
      /\ pc'[p] # "open"
      /\ snapshot' \in [Process -> Contents]
  <2>1. CASE /\ \A cfg \in Load(file[f]) : Refused(cfg, i)
             /\ pc' = [pc EXCEPT ![p] = "failed"] /\ snapshot' = snapshot
    <3>1. pc'[p] = "failed" /\ Others(p)
      BY <1>1, <1>2, <2>1 DEF TypeOK, Others
    <3>2. CommandInv(p)'
      BY <1>2, <1>3, <3>1 DEF CommandInv
    <3> QED
      BY <1>1, <2>1, <3>1, <3>2 DEF TypeOK
  <2>2. CASE \E cfg \in Load(file[f]) :
               /\ ~Refused(cfg, i)
               /\ snapshot' = [snapshot EXCEPT ![p] = Changed(cfg, i)]
               /\ pc' = [pc EXCEPT ![p] = IF i.cmd = "login" THEN "verified" ELSE "write"]
    <3>1. PICK cfg \in Load(file[f]) :
               /\ ~Refused(cfg, i)
               /\ snapshot' = [snapshot EXCEPT ![p] = Changed(cfg, i)]
               /\ pc' = [pc EXCEPT ![p] = IF i.cmd = "login" THEN "verified" ELSE "write"]
      BY <2>2
    <3>2. file[f] \in Contents
      BY <1>1, <1>3 DEF TypeOK
    <3>3. cfg \in Configs /\ cfg = file[f]
      BY <3>1, <3>2, Loads
    <3>4. cfg = good[f]
      BY <1>1, <1>3, <3>1, <3>3 DEF FilesInv
    <3>5. Changed(cfg, i) \in Configs
      BY <1>3, <3>1, <3>3, ChangesAreNamed
    <3>6. /\ pc'[p] = IF i.cmd = "login" THEN "verified" ELSE "write"
          /\ snapshot'[p] = Changed(cfg, i) /\ Others(p)
      BY <1>1, <1>2, <3>1 DEF TypeOK, Others
    <3>7. i.cmd = "login" => Target(p)' \in Name /\ snapshot'[p].contexts[Target(p)'].exists
      <4> HAVE i.cmd = "login"
      <4>1. Changed(cfg, i) = LoggedIn(cfg, i)
        BY DEF Changed
      <4>2. Target(p)' = LoginName(LoggedIn(cfg, i), i)
        BY <1>2, <3>6, <4>1 DEF Target
      <4>3. /\ LoginName(LoggedIn(cfg, i), i) \in Name
            /\ LoggedIn(cfg, i).contexts[LoginName(LoggedIn(cfg, i), i)].exists
        BY <1>3, <3>3, LoginIs
      <4> QED
        BY <3>6, <4>1, <4>2, <4>3
    <3>8. CommandInv(p)'
      <4>1. inv'[p] = i /\ p \notin stale' /\ good'[f] = cfg
        BY <1>2, <3>4
      <4>2. pc'[p] \in {"verified", "write"} /\ (pc'[p] = "verified" => i.cmd = "login")
        BY <3>6
      <4> HIDE DEF i
      <4> QED
        BY <1>2, <1>3, <3>1, <3>3, <3>5, <3>6, <3>7, <4>1, <4>2 DEF CommandInv
    <3>9. snapshot' \in [Process -> Contents]
      BY <1>1, <3>1, <3>5 DEF TypeOK, Contents
    <3>10. pc' \in [Process -> {"idle", "create", "load", "verified", "write", "open",
                              "clean", "rollback", "done", "failed"}]
      BY <1>1, <3>1 DEF TypeOK
    <3> QED
      BY <3>6, <3>8, <3>9, <3>10
  <2> QED
    BY <2>1, <2>2 DEF LoadAndChange, Goto
<1>6. TypeOK'
    BY <1>1, <1>2, <1>5 DEF TypeOK
<1>7. FilesInv'
  <2>1. \A q \in Process : pc[q] = "open" => pc'[q] = "open" /\ inv'[q] = inv[q]
    BY <1>2, <1>5 DEF Others
  <2> QED
    BY <1>1, <1>2, <1>4, <2>1, FilesKeep
<1>8. FirstCommandInv'
    BY <1>1, <1>2, <1>5, FirstCommandKeeps
<1>9. CommandsInv'
  <2>1. \A q \in Process \ {p} : pc[q] # "idle" /\ q \notin stale' =>
            q \notin stale /\ good'[inv[q].file] = good[inv[q].file]
    BY <1>2
  <2> QED
    BY <1>1, <1>5, <2>1, OthersKeep
<1>10. SessionsInv'
  <2>1. \A n \in Name : ~Settles(p, n) /\ (HasContext(n)' <=> HasContext(n))
    BY <1>2 DEF Settles, HasContext
  <2> QED
    BY <1>1, <1>2, <1>5, <2>1, SessionsKeep
<1> QED
    BY <1>6, <1>7, <1>8, <1>9, <1>10 DEF Inv

LEMMA StoreSessionKeeps ==
    ASSUME Inv, NEW p \in Process, StoreSession(p)
    PROVE  Inv'
<1> DEFINE t == Target(p)
<1>1. TypeOK /\ FilesInv /\ FirstCommandInv /\ CommandsInv /\ SessionsInv
    BY DEF Inv
<1>2. /\ pc[p] = "verified"
      /\ file' = file /\ inv' = inv /\ snapshot' = snapshot /\ good' = good
      /\ stale' = stale /\ abandoned' = abandoned /\ commands' = commands
    BY DEF StoreSession
<1>3. /\ inv[p].cmd = "login" /\ inv[p] \in Invocations /\ inv[p].value \in Server
      /\ CommandInv(p) /\ t \in Name
    BY <1>1, <1>2, OnItsWay DEF CommandsInv, CommandInv
<1>4. commands \in Nat /\ faults \in Nat
    BY <1>1, BoundsAssumption DEF TypeOK
<1>5. \/ /\ item' = [item EXCEPT ![t] = inv[p].value]
         /\ prior' = [prior EXCEPT ![p] = item[t]]
         /\ pc' = [pc EXCEPT ![p] = "write"] /\ faults' = faults
      \/ /\ faults < MaxFaults /\ faults' = faults + 1
         /\ pc' = [pc EXCEPT ![p] = "failed"] /\ item' = item /\ prior' = prior
    BY DEF StoreSession, Goto, Fault
<1> HIDE DEF t
<1>6. Others(p) /\ pc'[p] \in {"write", "failed"}
    BY <1>1, <1>2, <1>5 DEF TypeOK, Others
<1>7. faults' \in 0..MaxFaults /\ faults' >= faults
    BY <1>1, <1>4, <1>5, BoundsAssumption DEF TypeOK
<1>8. /\ item' \in [Name -> Server \cup {NoItem}] /\ prior' \in [Process -> Server \cup {NoItem}]
      /\ pc' \in [Process -> {"idle", "create", "load", "verified", "write", "open",
                              "clean", "rollback", "done", "failed"}]
    BY <1>1, <1>3, <1>5 DEF TypeOK
<1>9. TypeOK'
    BY <1>1, <1>2, <1>7, <1>8 DEF TypeOK
<1>10. FilesInv'
  <2>1. \A q \in Process : pc[q] = "open" => pc'[q] = "open" /\ inv'[q] = inv[q]
    BY <1>2, <1>6 DEF Others
  <2> QED
    BY <1>1, <1>2, <1>4, <1>7, <2>1, FilesKeep
<1>11. FirstCommandInv'
    BY <1>1, <1>2, <1>6, FirstCommandKeeps
<1>12. CommandsInv'
  <2>1. Target(p)' = Target(p)
    BY <1>2 DEF Target
  <2>2. CommandInv(p)'
    BY <1>2, <1>3, <1>6, <2>1 DEF CommandInv
  <2> QED
    BY <1>1, <1>2, <1>6, <2>2, OthersKeep
<1>13. SessionsInv'
  <2>1. \A n \in Name : ~Settles(p, n) /\ (HasContext(n)' <=> HasContext(n))
    BY <1>2 DEF Settles, HasContext
  <2>2. ASSUME NEW n \in Name, item'[n] # NoItem
        PROVE  item[n] # NoItem \/ Settles(p, n)'
    <3>1. CASE n # t \/ item' = item
      BY <1>1, <1>3, <1>5, <2>2, <3>1 DEF TypeOK
    <3>2. CASE n = t /\ item[t] = NoItem /\ item' # item
      <4>1. pc'[p] = "write" /\ prior'[p] = NoItem
        BY <1>1, <1>5, <3>2 DEF TypeOK
      <4>2. Target(p)' = n /\ inv'[p].cmd = "login"
        BY <1>2, <1>3, <3>2 DEF Target, t
      <4> QED
        BY <4>1, <4>2 DEF Settles
    <3> QED
      BY <3>1, <3>2
  <2> QED
    BY <1>1, <1>2, <1>6, <2>1, <2>2, SessionsKeep
<1> QED
    BY <1>9, <1>10, <1>11, <1>12, <1>13 DEF Inv

LEMMA TruncateKeeps ==
    ASSUME Inv, NEW p \in Process, Truncate(p)
    PROVE  Inv'
<1>1. TypeOK /\ FilesInv /\ FirstCommandInv /\ CommandsInv /\ SessionsInv
    BY DEF Inv
<1>2. /\ pc[p] = "write"
      /\ item' = item /\ inv' = inv /\ snapshot' = snapshot /\ prior' = prior
      /\ commands' = commands
    BY DEF Truncate
<1>3. inv[p] \in Invocations /\ inv[p].file \in Files /\ CommandInv(p)
    BY <1>1, <1>2, OnItsWay DEF CommandsInv
<1>4. commands \in Nat /\ faults \in Nat
    BY <1>1, BoundsAssumption DEF TypeOK
<1>5. Target(p)' = Target(p) /\ RemovesContext(p)' = RemovesContext(p)
    BY <1>2 DEF Target, RemovesContext
<1>6. CASE Became(p, Torn, FALSE) /\ pc' = [pc EXCEPT ![p] = "open"] /\ faults' = faults
  <2>1. pc'[p] = "open" /\ Others(p)
    BY <1>1, <1>2, <1>6 DEF TypeOK, Others
  <2>2. Torn \in Contents /\ Torn \notin Configs /\ FALSE \in BOOLEAN
    BY Constants DEF Contents
  <2>3. /\ file' \in [Files -> Contents] /\ file'[inv[p].file] = Torn
        /\ good' \in [Files -> Contents] /\ good'[inv[p].file] = good[inv[p].file]
        /\ stale \subseteq stale' /\ stale' \subseteq Process
        /\ p \in stale' => p \in stale
        /\ abandoned \subseteq abandoned' /\ abandoned' \subseteq Name
        /\ \A q \in Process \ {p} : pc[q] # "idle" /\ q \notin stale' =>
              good'[inv[q].file] = good[inv[q].file]
    BY <1>1, <1>3, <1>6, <2>2, BecameIs
  <2>4. TypeOK'
    BY <1>1, <1>2, <1>6, <2>3 DEF TypeOK
  <2>5. FilesInv'
    <3>1. /\ faults' \in Nat /\ faults' >= faults
          /\ pc[p] = "open" => Torn # Torn \/ faults' > 0 \/ commands > 1
          /\ Torn = Torn => pc'[p] = "open" \/ faults' > 0 \/ commands > 1
      BY <1>2, <1>4, <1>6, <2>1
    <3> QED
      BY <1>1, <1>2, <1>3, <1>6, <2>1, <2>2, <3>1, FilesBecome
  <2>6. FirstCommandInv'
    <3>1. file'[inv'[p].file] = Torn
      BY <1>2, <2>3
    <3> QED
      BY <1>1, <1>2, <2>1, <3>1, FirstCommandKeeps
  <2>7. CommandsInv'
    <3>1. CommandInv(p)'
      BY <1>2, <1>3, <1>5, <2>1, <2>3 DEF CommandInv
    <3> QED
      BY <1>1, <2>1, <2>3, <3>1, OthersKeep
  <2>8. SessionsInv'
    <3>1. \A n \in Name \ abandoned' : HasContext(n) => HasContext(n)'
      BY <1>1, <1>3, <1>6, <2>2, ContextsStay
    <3>2. \A n \in Name : Settles(p, n) => Settles(p, n)'
      BY <1>2, <1>5, <2>1 DEF Settles
    <3> QED
      BY <1>1, <1>2, <2>1, <2>3, <3>1, <3>2, SessionsKeep
  <2> QED
    BY <2>4, <2>5, <2>6, <2>7, <2>8 DEF Inv
<1>7. CASE /\ Fault /\ WriteFailed(p)
           /\ file' = file /\ good' = good /\ stale' = stale /\ abandoned' = abandoned
  <2>1. /\ pc' = [pc EXCEPT ![p] = IF inv[p].cmd = "login" THEN "rollback" ELSE "failed"]
        /\ faults < MaxFaults /\ faults' = faults + 1
    BY <1>7 DEF Fault, WriteFailed, Goto
  <2>2. pc'[p] = (IF inv[p].cmd = "login" THEN "rollback" ELSE "failed") /\ Others(p)
    BY <1>1, <1>2, <2>1 DEF TypeOK, Others
  <2>3. TypeOK'
    BY <1>1, <1>2, <1>7, <2>1, BoundsAssumption DEF TypeOK
  <2>4. FilesInv'
    <3>1. faults' \in Nat /\ faults' > 0 /\ faults' >= faults
      BY <1>4, <2>1
    <3> QED
      BY <1>1, <1>2, <1>4, <1>7, <3>1, FilesKeep
  <2>5. FirstCommandInv'
    BY <1>1, <1>2, <2>2, FirstCommandKeeps
  <2>6. CommandsInv'
    <3>1. CommandInv(p)'
      BY <1>2, <1>3, <1>5, <2>2 DEF CommandInv
    <3> QED
      BY <1>1, <1>7, <2>2, <3>1, OthersKeep
  <2>7. SessionsInv'
    <3>1. \A n \in Name : HasContext(n)' <=> HasContext(n)
      BY <1>7 DEF HasContext
    <3>2. \A n \in Name : Settles(p, n) => Settles(p, n)'
      BY <1>2, <1>5, <2>2 DEF Settles
    <3> QED
      BY <1>1, <1>2, <1>7, <2>2, <3>1, <3>2, SessionsKeep
  <2> QED
    BY <2>3, <2>4, <2>5, <2>6, <2>7 DEF Inv
<1> QED
    BY <1>6, <1>7 DEF Truncate, Goto

LEMMA EncodeKeeps ==
    ASSUME Inv, NEW p \in Process, Encode(p)
    PROVE  Inv'
<1>1. TypeOK /\ FilesInv /\ FirstCommandInv /\ CommandsInv /\ SessionsInv
    BY DEF Inv
<1>2. /\ pc[p] = "open"
      /\ item' = item /\ inv' = inv /\ snapshot' = snapshot /\ prior' = prior
      /\ commands' = commands
    BY DEF Encode
<1>3. /\ inv[p] \in Invocations /\ inv[p].file \in Files /\ CommandInv(p)
      /\ snapshot[p] \in Configs
      /\ inv[p].cmd = "login" => Target(p) \in Name /\ snapshot[p].contexts[Target(p)].exists
    BY <1>1, <1>2, OnItsWay DEF CommandsInv, CommandInv
<1>4. commands \in Nat /\ faults \in Nat
    BY <1>1, BoundsAssumption DEF TypeOK
<1>5. Target(p)' = Target(p) /\ RemovesContext(p)' = RemovesContext(p)
    BY <1>2 DEF Target, RemovesContext
<1>6. PICK new \in Contents, through \in BOOLEAN :
        /\ Became(p, new, through)
        /\ \/ /\ through /\ faults' = faults
              /\ pc' = [pc EXCEPT ![p] = IF RemovesContext(p) THEN "clean" ELSE "done"]
              /\ new = Torn => file[inv[p].file] # Torn
           \/ /\ ~through /\ faults < MaxFaults /\ faults' = faults + 1
              /\ pc' = [pc EXCEPT ![p] = IF inv[p].cmd = "login" THEN "rollback" ELSE "failed"]
  <2>1. CASE /\ Became(p, snapshot[p], TRUE) /\ Goto(p, AfterWrite(p)) /\ faults' = faults
    <3>1. snapshot[p] \in Contents /\ snapshot[p] # Torn
      BY <1>3, Constants DEF Contents
    <3> QED
      BY <2>1, <3>1 DEF Goto, AfterWrite
  <2>2. CASE /\ file[inv[p].file] \notin {Torn, snapshot[p]} /\ Became(p, Torn, TRUE)
             /\ Goto(p, AfterWrite(p)) /\ faults' = faults
    <3>1. Torn \in Contents
      BY DEF Contents
    <3> QED
      BY <2>2, <3>1 DEF Goto, AfterWrite
  <2>3. CASE /\ \E new \in CutShort(snapshot[p]) : Became(p, new, FALSE)
             /\ Fault /\ WriteFailed(p)
    <3>1. PICK new \in CutShort(snapshot[p]) : Became(p, new, FALSE)
      BY <2>3
    <3>2. new \in Contents
      BY <1>3, CutShortIs
    <3> QED
      BY <2>3, <3>1, <3>2 DEF Fault, WriteFailed, Goto
  <2> QED
    BY <2>1, <2>2, <2>3 DEF Encode
<1>7. /\ Others(p)
      /\ pc'[p] = IF through THEN IF RemovesContext(p) THEN "clean" ELSE "done"
                  ELSE IF inv[p].cmd = "login" THEN "rollback" ELSE "failed"
      /\ pc' \in [Process -> {"idle", "create", "load", "verified", "write", "open",
                              "clean", "rollback", "done", "failed"}]
    BY <1>1, <1>2, <1>6 DEF TypeOK, Others
<1>8. /\ file' \in [Files -> Contents] /\ good' \in [Files -> Contents]
      /\ stale \subseteq stale' /\ stale' \subseteq Process
      /\ p \in stale' => p \in stale
      /\ abandoned \subseteq abandoned' /\ abandoned' \subseteq Name
      /\ \A q \in Process \ {p} : pc[q] # "idle" /\ q \notin stale' =>
            good'[inv[q].file] = good[inv[q].file]
    BY <1>1, <1>3, <1>6, BecameIs
<1>9. faults' \in 0..MaxFaults /\ faults' >= faults /\ faults' \in Nat
    BY <1>1, <1>4, <1>6, BoundsAssumption DEF TypeOK
<1>10. TypeOK'
    BY <1>1, <1>2, <1>7, <1>8, <1>9 DEF TypeOK
<1>11. FilesInv'
  <2>1. new = Torn => faults' > 0 \/ commands > 1
    <3>1. CASE through
      <4>1. commands <= 1 => file[inv[p].file] = Torn
        BY <1>1, <1>2 DEF FirstCommandInv
      <4> QED
        BY <1>4, <1>6, <3>1, <4>1
    <3>2. CASE ~through
      BY <1>4, <1>6, <3>2
    <3> QED
      BY <3>1, <3>2
  <2> QED
    BY <1>1, <1>2, <1>3, <1>6, <1>7, <1>9, <2>1, FilesBecome
<1>12. FirstCommandInv'
    BY <1>1, <1>2, <1>7, FirstCommandKeeps
<1>13. CommandsInv'
  <2>1. CommandInv(p)'
    BY <1>2, <1>3, <1>5, <1>7 DEF CommandInv
  <2> QED
    BY <1>1, <1>7, <1>8, <2>1, OthersKeep
<1>14. SessionsInv'
  <2> SUFFICES ASSUME NEW n \in Name \ abandoned'
               PROVE  HasContext(n) \/ Settles(p, n) => HasContext(n)' \/ Settles(p, n)'
    BY <1>1, <1>2, <1>7, <1>8, SessionsKeep
  <2>1. HasContext(n) \/ (through /\ snapshot[p].contexts[n].exists) =>
          HasContext(n)' \/ (through /\ RemovesContext(p) /\ inv[p].name = n)
    BY <1>1, <1>3, <1>6, ContextsStay
  <2>2. through /\ RemovesContext(p) /\ inv[p].name = n => Settles(p, n)'
    BY <1>2, <1>7 DEF Settles
  <2>3. Settles(p, n) => /\ inv[p].cmd = "login" /\ Target(p) = n /\ prior[p] = NoItem
    BY <1>2 DEF Settles
  <2>4. Settles(p, n) /\ through => snapshot[p].contexts[n].exists
    BY <1>3, <2>3
  <2>5. Settles(p, n) /\ ~through => Settles(p, n)'
    BY <1>2, <1>5, <1>7, <2>3 DEF Settles
  <2> QED
    BY <2>1, <2>2, <2>4, <2>5
<1> QED
    BY <1>10, <1>11, <1>12, <1>13, <1>14 DEF Inv

LEMMA DeleteSessionKeeps ==
    ASSUME Inv, NEW p \in Process, DeleteSession(p)
    PROVE  Inv'
<1>1. TypeOK /\ FilesInv /\ FirstCommandInv /\ CommandsInv /\ SessionsInv
    BY DEF Inv
<1>2. /\ pc[p] = "clean" /\ pc' = [pc EXCEPT ![p] = "done"]
      /\ file' = file /\ inv' = inv /\ snapshot' = snapshot /\ prior' = prior
      /\ good' = good /\ stale' = stale /\ commands' = commands
    BY DEF DeleteSession, Goto
<1>3. /\ inv[p] \in Invocations /\ RemovesContext(p) /\ inv[p].name \in Name
    BY <1>1, <1>2, OnItsWay DEF CommandsInv, CommandInv
<1>4. commands \in Nat /\ faults \in Nat
    BY <1>1, BoundsAssumption DEF TypeOK
<1>5. \/ /\ item' = [item EXCEPT ![inv[p].name] = NoItem]
         /\ faults' = faults /\ abandoned' = abandoned
      \/ /\ faults < MaxFaults /\ faults' = faults + 1
         /\ abandoned' = abandoned \cup {inv[p].name} /\ item' = item
    BY DEF DeleteSession, Fault
<1>6. pc'[p] = "done" /\ Others(p)
    BY <1>1, <1>2 DEF TypeOK, Others
<1>7. faults' \in 0..MaxFaults /\ faults' >= faults
    BY <1>1, <1>4, <1>5, BoundsAssumption DEF TypeOK
<1>8. /\ item' \in [Name -> Server \cup {NoItem}]
      /\ abandoned \subseteq abandoned' /\ abandoned' \subseteq Name
    BY <1>1, <1>3, <1>5 DEF TypeOK
<1>9. TypeOK'
    BY <1>1, <1>2, <1>7, <1>8 DEF TypeOK
<1>10. FilesInv'
  <2>1. \A q \in Process : pc[q] = "open" => pc'[q] = "open" /\ inv'[q] = inv[q]
    BY <1>2, <1>6 DEF Others
  <2> QED
    BY <1>1, <1>2, <1>4, <1>7, <2>1, FilesKeep
<1>11. FirstCommandInv'
    BY <1>1, <1>2, <1>6, FirstCommandKeeps
<1>12. CommandsInv'
  <2>1. CommandInv(p)'
    BY <1>2, <1>3, <1>6 DEF CommandInv
  <2> QED
    BY <1>1, <1>2, <1>6, <2>1, OthersKeep
<1>13. SessionsInv'
  <2>1. \A n \in Name : HasContext(n)' <=> HasContext(n)
    BY <1>2 DEF HasContext
  <2>2. \A n \in Name : Settles(p, n) => inv[p].name = n
    BY <1>2 DEF Settles
  <2>3. ASSUME NEW n \in Name \ abandoned', item'[n] # NoItem
        PROVE  item[n] # NoItem /\ inv[p].name # n
    BY <1>1, <1>3, <1>5, <2>3 DEF TypeOK
  <2> QED
    BY <1>1, <1>6, <1>8, <2>1, <2>2, <2>3, SessionsKeep
<1> QED
    BY <1>9, <1>10, <1>11, <1>12, <1>13 DEF Inv

LEMMA RollbackKeeps ==
    ASSUME Inv, NEW p \in Process, Rollback(p)
    PROVE  Inv'
<1> DEFINE t == Target(p)
<1>1. TypeOK /\ FilesInv /\ FirstCommandInv /\ CommandsInv /\ SessionsInv
    BY DEF Inv
<1>2. /\ pc[p] = "rollback" /\ pc' = [pc EXCEPT ![p] = "failed"]
      /\ file' = file /\ inv' = inv /\ snapshot' = snapshot /\ prior' = prior
      /\ good' = good /\ stale' = stale /\ commands' = commands
    BY DEF Rollback, Goto
<1>3. /\ inv[p] \in Invocations /\ inv[p].cmd = "login" /\ inv[p].value \in Server /\ t \in Name
    BY <1>1, <1>2, OnItsWay DEF CommandsInv, CommandInv
<1>4. commands \in Nat /\ faults \in Nat
    BY <1>1, BoundsAssumption DEF TypeOK
<1>5. \/ /\ item' = [item EXCEPT ![t] = prior[p]] /\ faults' = faults
         /\ abandoned' = IF item[t] = inv[p].value THEN abandoned ELSE abandoned \cup {t}
      \/ /\ faults < MaxFaults /\ faults' = faults + 1
         /\ abandoned' = abandoned \cup {t} /\ item' = item
    BY DEF Rollback, Fault
<1>6. pc'[p] = "failed" /\ Others(p)
    BY <1>1, <1>2 DEF TypeOK, Others
<1>7. \A n \in Name : Settles(p, n) => n = t /\ prior[p] = NoItem
    BY <1>2 DEF Settles
<1> HIDE DEF t
<1>8. faults' \in 0..MaxFaults /\ faults' >= faults
    BY <1>1, <1>4, <1>5, BoundsAssumption DEF TypeOK
<1>9. /\ item' \in [Name -> Server \cup {NoItem}]
      /\ abandoned \subseteq abandoned' /\ abandoned' \subseteq Name
    BY <1>1, <1>3, <1>5 DEF TypeOK
<1>10. TypeOK'
    BY <1>1, <1>2, <1>8, <1>9 DEF TypeOK
<1>11. FilesInv'
  <2>1. \A q \in Process : pc[q] = "open" => pc'[q] = "open" /\ inv'[q] = inv[q]
    BY <1>2, <1>6 DEF Others
  <2> QED
    BY <1>1, <1>2, <1>4, <1>8, <2>1, FilesKeep
<1>12. FirstCommandInv'
    BY <1>1, <1>2, <1>6, FirstCommandKeeps
<1>13. CommandsInv'
  <2>1. CommandInv(p)'
    BY <1>2, <1>3, <1>6 DEF CommandInv
  <2> QED
    BY <1>1, <1>2, <1>6, <2>1, OthersKeep
<1>14. SessionsInv'
  <2>1. \A n \in Name : HasContext(n)' <=> HasContext(n)
    BY <1>2 DEF HasContext
  <2>2. ASSUME NEW n \in Name \ abandoned', item'[n] # NoItem
        PROVE  item[n] # NoItem /\ ~Settles(p, n)
    <3>1. CASE n # t
      BY <1>1, <1>3, <1>5, <1>7, <2>2, <3>1 DEF TypeOK
    <3>2. CASE n = t
      <4>1. item'[t] = prior[p] /\ item[t] = inv[p].value
        BY <1>1, <1>3, <1>5, <2>2, <3>2 DEF TypeOK
      <4> QED
        BY <1>3, <1>7, <2>2, <3>2, <4>1, ServerAssumption
    <3> QED
      BY <3>1, <3>2
  <2> QED
    BY <1>1, <1>6, <1>9, <2>1, <2>2, SessionsKeep
<1> QED
    BY <1>10, <1>11, <1>12, <1>13, <1>14 DEF Inv

LEMMA ExitKeeps ==
    ASSUME Inv, NEW p \in Process, Exit(p)
    PROVE  Inv'
<1>1. TypeOK /\ FilesInv /\ FirstCommandInv /\ CommandsInv /\ SessionsInv
    BY DEF Inv
<1>2. /\ pc[p] # "idle" /\ pc' = [pc EXCEPT ![p] = "idle"]
      /\ inv' = [inv EXCEPT ![p] = NoCommand]
      /\ snapshot' = [snapshot EXCEPT ![p] = Missing]
      /\ prior' = [prior EXCEPT ![p] = NoItem] /\ stale' = stale \ {p}
      /\ file' = file /\ item' = item /\ good' = good /\ commands' = commands
    BY DEF Exit, Goto
<1>3. commands \in Nat /\ faults \in Nat
    BY <1>1, BoundsAssumption DEF TypeOK
<1>4. \/ pc[p] \in {"done", "failed"} /\ faults' = faults /\ abandoned' = abandoned
      \/ /\ pc[p] \notin {"done", "failed"} /\ faults < MaxFaults /\ faults' = faults + 1
         /\ abandoned' = abandoned \cup ({Target(p)} \cap Name)
    BY DEF Exit, Fault
<1>5. pc'[p] = "idle" /\ Others(p)
    BY <1>1, <1>2 DEF TypeOK, Others
<1>6. faults' \in 0..MaxFaults /\ faults' >= faults
    BY <1>1, <1>3, <1>4, BoundsAssumption DEF TypeOK
<1>7. abandoned \subseteq abandoned' /\ abandoned' \subseteq Name
    BY <1>1, <1>4 DEF TypeOK
<1>8. TypeOK'
  <2>1. Missing \in Contents
    BY DEF Contents
  <2> QED
    BY <1>1, <1>2, <1>6, <1>7, <2>1 DEF TypeOK
<1>9. FilesInv'
  <2>1. ASSUME NEW q \in Process, pc[q] = "open", ~(faults' > 0)
        PROVE  pc'[q] = "open" /\ inv'[q] = inv[q]
    <3>1. q # p
      BY <1>3, <1>4, <2>1
    <3> QED
      BY <1>5, <2>1, <3>1 DEF Others
  <2> QED
    BY <1>1, <1>2, <1>3, <1>6, <2>1, FilesKeep
<1>10. FirstCommandInv'
    BY <1>1, <1>2, <1>5, FirstCommandKeeps
<1>11. CommandsInv'
  <2>1. CommandInv(p)'
    BY <1>5 DEF CommandInv
  <2>2. \A q \in Process \ {p} : pc[q] # "idle" /\ q \notin stale' =>
            q \notin stale /\ good'[inv[q].file] = good[inv[q].file]
    BY <1>2
  <2> QED
    BY <1>1, <1>5, <2>1, <2>2, OthersKeep
<1>12. SessionsInv'
  <2>1. \A n \in Name : HasContext(n)' <=> HasContext(n)
    BY <1>2 DEF HasContext
  <2>2. ASSUME NEW n \in Name \ abandoned', Settles(p, n)
        PROVE  FALSE
    <3>1. pc[p] \notin {"done", "failed"}
      BY <2>2 DEF Settles
    <3>2. Target(p) # n
      BY <1>4, <2>2, <3>1
    <3>3. pc[p] = "clean" /\ inv[p].name = n
      BY <2>2, <3>2 DEF Settles
    <3>4. inv[p].cmd = "unset"
      BY <1>1, <3>3 DEF CommandsInv, CommandInv, RemovesContext
    <3> QED
      BY <3>2, <3>3, <3>4 DEF Target
  <2> QED
    BY <1>1, <1>2, <1>5, <1>7, <2>1, <2>2, SessionsKeep
<1> QED
    BY <1>8, <1>9, <1>10, <1>11, <1>12 DEF Inv

-----------------------------------------------------------------------------
(* What holds of every behaviour                                           *)

LEMMA StepKeeps == Inv /\ [Next]_vars => Inv'
<1> SUFFICES ASSUME Inv, [Next]_vars PROVE Inv'
    OBVIOUS
<1>1. ASSUME NEW p \in Process, Start(p) PROVE Inv'
    BY <1>1, StartKeeps
<1>2. ASSUME NEW p \in Process, Create(p) PROVE Inv'
    BY <1>2, CreateKeeps
<1>3. ASSUME NEW p \in Process, LoadAndChange(p) PROVE Inv'
    BY <1>3, LoadAndChangeKeeps
<1>4. ASSUME NEW p \in Process, StoreSession(p) PROVE Inv'
    BY <1>4, StoreSessionKeeps
<1>5. ASSUME NEW p \in Process, Truncate(p) PROVE Inv'
    BY <1>5, TruncateKeeps
<1>6. ASSUME NEW p \in Process, Encode(p) PROVE Inv'
    BY <1>6, EncodeKeeps
<1>7. ASSUME NEW p \in Process, DeleteSession(p) PROVE Inv'
    BY <1>7, DeleteSessionKeeps
<1>8. ASSUME NEW p \in Process, Rollback(p) PROVE Inv'
    BY <1>8, RollbackKeeps
<1>9. ASSUME NEW p \in Process, Exit(p) PROVE Inv'
    BY <1>9, ExitKeeps
<1>10. CASE UNCHANGED vars
    BY <1>10 DEF vars, Inv, TypeOK, FilesInv, FirstCommandInv, CommandsInv, CommandInv,
                 SessionsInv, HasContext, Settles, Target, RemovesContext
<1> QED
    BY <1>1, <1>2, <1>3, <1>4, <1>5, <1>6, <1>7, <1>8, <1>9, <1>10 DEF Next

\* Whatever commands run at once and wherever they are cut short: what a file holds
\* and loads is the last configuration that was written whole, what a command that no
\* other overtook is about to write is its own change of that, and a session without a
\* context is one that some command is about to remove, to use, or has abandoned.
THEOREM ConfigIsSound == Spec => []Inv
    BY InitHolds, StepKeeps, PTL DEF Spec

\* When the commands have ended, a session has a context to be used from, or was
\* abandoned by a crash, an error or an overtaken write. (runLogin, unsetCmd)
THEOREM SessionsAreReachable == Spec => []SessionsHaveContexts
<1>1. Inv => SessionsHaveContexts
  <2> SUFFICES ASSUME Inv, \A p \in Process : pc[p] = "idle",
                      NEW n \in Name \ abandoned, item[n] # NoItem
               PROVE  HasContext(n)
    BY DEF SessionsHaveContexts, HasContext
  <2>1. \A p \in Process : ~Settles(p, n)
    BY DEF Settles
  <2> QED
    BY <2>1 DEF Inv, SessionsInv
<1> QED
    BY <1>1, ConfigIsSound, PTL

\* A command that went through, and that no other overtook, has changed what it
\* names and nothing else. (Load, updateValue, Write)
THEOREM CommandsChangeWhatTheyName == Spec => OnlyNamedChanges
<1> DEFINE Named(p) ==
        /\ pc[p] = "open" /\ pc'[p] \in {"clean", "done"}
        /\ p \notin stale /\ Load(file'[inv[p].file]) # {}
        => OnlyNamed(inv[p], good[inv[p].file], file'[inv[p].file])
<1>1. Inv /\ [Next]_vars => [\A p \in Process : Named(p)]_vars
  <2> SUFFICES ASSUME Inv, Next, NEW p \in Process,
                      pc[p] = "open", pc'[p] \in {"clean", "done"},
                      p \notin stale, Load(file'[inv[p].file]) # {}
               PROVE  OnlyNamed(inv[p], good[inv[p].file], file'[inv[p].file])
    OBVIOUS
  <2>1. TypeOK /\ CommandsInv
    BY DEF Inv
  <2>2. Encode(p)
    <3>1. PICK q \in Process :
            \/ Start(q) \/ Create(q) \/ LoadAndChange(q) \/ StoreSession(q) \/ Truncate(q)
            \/ Encode(q) \/ DeleteSession(q) \/ Rollback(q) \/ Exit(q)
      BY DEF Next
    <3>2. \E label : pc' = [pc EXCEPT ![q] = label]
      BY <3>1 DEF Start, Create, LoadAndChange, StoreSession, Truncate, WriteFailed, Encode,
                  DeleteSession, Rollback, Exit, Goto
    <3>3. q = p
      BY <2>1, <3>2 DEF TypeOK
    <3>4. ~Exit(p)
      BY <2>1 DEF Exit, Goto, TypeOK
    <3> QED
      BY <3>1, <3>3, <3>4 DEF Start, Create, LoadAndChange, StoreSession, Truncate,
                              DeleteSession, Rollback
  <2>3. inv[p].file \in Files /\ WellFormed(inv[p])
    BY <2>1, OnItsWay
  <2> DEFINE old == good[inv[p].file]
  <2>4. old \in Configs /\ ~Refused(old, inv[p]) /\ snapshot[p] = Changed(old, inv[p])
    BY <2>1 DEF CommandsInv, CommandInv
  <2>5. ~WriteFailed(p)
    BY <2>1 DEF WriteFailed, Goto, TypeOK
  <2>6. PICK new \in {snapshot[p], Torn} : Became(p, new, TRUE)
    BY <2>2, <2>5 DEF Encode
  <2>7. file'[inv[p].file] = new
    BY <2>1, <2>3, <2>6 DEF Became, TypeOK
  <2>8. new = snapshot[p]
    BY <2>6, <2>7 DEF Load
  <2> HIDE DEF old
  <2>9. OnlyNamed(inv[p], old, snapshot[p])
    BY <2>3, <2>4, ChangesAreNamed
  <2> QED
    BY <2>7, <2>8, <2>9 DEF old
<1>2. Spec => [][\A p \in Process : Named(p)]_vars
    BY <1>1, ConfigIsSound, PTL DEF Spec
<1> QED
    BY <1>2 DEF OnlyNamedChanges

=============================================================================
