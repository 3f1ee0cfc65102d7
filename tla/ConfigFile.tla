----------------------------- MODULE ConfigFile -----------------------------
(***************************************************************************)
(* The commands that change ~/.jacques/config.hcl: `config init`, `config  *)
(* use` and `config set` (src/main.go, src/config/config.go).  Each reads  *)
(* the whole file, and os.WriteFile then truncates it and writes its text  *)
(* from the start; nothing keeps two of them apart, or a reader from the   *)
(* empty file.  Of two that have both truncated it, the one that writes    *)
(* last leaves the end of a longer text behind its own (`mixed`).          *)
(*                                                                         *)
(* Operators marked "Wrong" are variants with a bug; README.md says which  *)
(* property finds each of them.                                            *)
(***************************************************************************)
EXTENDS ConfigText

CONSTANTS
    Editor,     \* processes that run config commands
    Texts,      \* contents the file may have at first, or None: no file
    Default,    \* the text `config init` writes
    Uses,       \* names given to `config use`
    Sets,       \* arguments of `config set`: name, field, value
    Kill,       \* whether an editor may be killed between two steps
    Onward      \* bound: whether commands go on editing a file that is `mixed`

ASSUME TextsAssumption ==
    /\ Texts \subseteq Seq(Line) \union {None}
    /\ Default \in Seq(Line)
    /\ Uses \subseteq STRING
    /\ Sets \subseteq [name : STRING, field : STRING, value : STRING]
    /\ Onward \in BOOLEAN

VARIABLES
    file,       \* the contents of config.hcl, None if there is none
    step,       \* the next system call of each editor
    todo,       \* its command
    seen,       \* what it read: nothing yet is None
    settled,    \* history: the contents when a command last wrote them all
    mixed,      \* history: a command has left the end of a longer text behind
                \* its own
    alone       \* history: the command at work found the file whole, and no
                \* other command has run beside it

config == <<file, step, todo, seen, settled, mixed, alone>>

Commands == [op : {"init"}]
              \union {[op |-> "use", name |-> n] : n \in Uses}
              \union {[op |-> "set", name |-> s.name, field |-> s.field,
                       value |-> s.value] : s \in Sets}

----------------------------------------------------------------------------
InitConfig ==
    /\ file \in Texts
    /\ step = [e \in Editor |-> "idle"]
    /\ todo = [e \in Editor |-> None]
    /\ seen = [e \in Editor |-> None]
    /\ settled = file
    /\ mixed = FALSE
    /\ alone = TRUE

Rest == {"idle", "killed"}
To(e, s) == step' = [step EXCEPT ![e] = s]
AtRest == \A e \in Editor : step[e] \in Rest

\* A field that `config set` does not know is refused at once.
Start(e, c) ==
    /\ step[e] \in Rest
    /\ c.op = "set" => c.field \in Field
    /\ mixed /\ ~ Onward => c.op = "init"
    /\ To(e, CASE c.op = "init" -> "stat" [] c.op = "use" -> "load" [] c.op = "set" -> "read")
    /\ todo' = [todo EXCEPT ![e] = c]
    /\ seen' = [seen EXCEPT ![e] = None]
    /\ alone' = (AtRest /\ file = settled /\ ~ mixed)
    /\ UNCHANGED <<file, settled, mixed>>

\* Wrong: `config init` does not look whether there is a file.
StatIgnored(e) ==
    /\ step[e] = "stat"
    /\ To(e, "truncate")
    /\ UNCHANGED <<file, todo, seen, settled, mixed, alone>>

\* WriteDefault leaves a file that exists alone.
Stat(e) ==
    /\ step[e] = "stat"
    /\ To(e, IF file = None THEN "truncate" ELSE "idle")
    /\ UNCHANGED <<file, todo, seen, settled, mixed, alone>>

\* Wrong: `config use` takes any name.
LoadForUseUnchecked(e) ==
    /\ step[e] = "load"
    /\ To(e, "read")
    /\ UNCHANGED <<file, todo, seen, settled, mixed, alone>>

\* `config use` looks the name up first; the text it edits is read again.
LoadForUse(e) ==
    /\ step[e] = "load"
    /\ To(e, IF FindConnection(Load(file), todo[e].name) = None THEN "idle" ELSE "read")
    /\ UNCHANGED <<file, todo, seen, settled, mixed, alone>>

ReadFile(e) ==
    /\ step[e] = "read"
    /\ To(e, IF file = None THEN "idle" ELSE "truncate")
    /\ seen' = [seen EXCEPT ![e] = file]
    /\ UNCHANGED <<file, todo, settled, mixed, alone>>

\* os.WriteFile opens with O_CREATE and O_TRUNC, ...
Truncate(e) ==
    /\ step[e] = "truncate"
    /\ file' = <<>>
    /\ To(e, "write")
    /\ UNCHANGED <<todo, seen, settled, mixed, alone>>

\* ... and then writes what the command made of the text it read, ...
Edited(c, text) ==
    CASE c.op = "init" -> Default
      [] c.op = "use"  -> ReplaceTop(text, Current, c.name)
      [] c.op = "set"  -> ReplaceField(text, c.name, c.field, c.value)

\* Wrong: the file is opened for appending.
WriteFileAppends(e) ==
    /\ step[e] = "write"
    /\ file' = file \o Edited(todo[e], seen[e])
    /\ settled' = file'
    /\ To(e, "idle")
    /\ UNCHANGED <<todo, seen, mixed, alone>>

\* ... from the start of the file, over what another one has written there since
\* both truncated it: the end of that stays if it is longer.
WriteFile(e) ==
    /\ step[e] = "write"
    /\ LET text == Edited(todo[e], seen[e])
       IN  \E tail \in Left(file) :
             /\ file' = text \o tail
             /\ mixed' = (mixed \/ tail # <<>>)
    /\ settled' = file'
    /\ To(e, "idle")
    /\ UNCHANGED <<todo, seen, alone>>

Killed(e) ==
    /\ Kill
    /\ step[e] \notin Rest
    /\ To(e, "killed")
    /\ UNCHANGED <<file, todo, seen, settled, mixed, alone>>

EditorStep(e) == \/ Stat(e) \/ LoadForUse(e) \/ ReadFile(e)
                 \/ Truncate(e) \/ WriteFile(e) \/ Killed(e)

NextConfig == \E e \in Editor : EditorStep(e) \/ \E c \in Commands : Start(e, c)

SpecConfig == InitConfig /\ [][NextConfig]_config

----------------------------------------------------------------------------
(* What should hold of it                                                  *)

LabelsOf(text) == [i \in DOMAIN Load(text).conns |->
                     <<Load(text).conns[i].type, Load(text).conns[i].name>>]
Whole == {LabelsOf(t) : t \in Texts \union {Default}}

\* The connections of the file are those it started with, all of them, or
\* none: `config use` and `config set` edit lines (main.go:606-654) without
\* making, dropping or renaming a connection, in whatever order they run,
\* overlap or are killed, as long as none has written over a longer text.
ConnectionsKept == ~ mixed /\ file # None => LabelsOf(file) \in Whole \union {<<>>}

\* The same whatever they write over.
ConnectionsAlwaysKept == file # None => LabelsOf(file) \in Whole \union {<<>>}

Writes(e) == step[e] = "write" /\ step'[e] = "idle"

\* `config set <name> <field> <value>` updates a connection field: when it has
\* written the file, every other connection and the current one are as they
\* were in the text it read (main.go:606-642), whoever runs beside it, as long
\* as no command has written over a longer text.
SetTouchesOnlyNamed ==
    [][\A e \in Editor : Writes(e) /\ todo[e].op = "set" /\ ~ mixed' =>
         LET old == Load(seen[e])  new == Load(file')
         IN  /\ new.current = old.current
             /\ \A i \in DOMAIN old.conns :
                  old.conns[i].name # todo[e].name => new.conns[i] = old.conns[i]]_config

\* When `config set` has reported "updated", the configuration has the value
\* (main.go:563-568), and when `config use` has reported "switched", the
\* connection is the default (main.go:592-597).
Has(cfg, c) ==
    CASE c.op = "set" -> \E i \in DOMAIN cfg.conns :
                           cfg.conns[i].name = c.name /\ cfg.conns[i].attrs[c.field] = c.value
      [] c.op = "use" -> DefaultConn(cfg) # None /\ DefaultConn(cfg).name = c.name
      [] c.op = "init" -> cfg = Load(Default)

AlwaysTakesEffect ==
    [][\A e \in Editor : Writes(e) => Has(Load(file'), todo[e])]_config

\* The same of a command that ran alone, on a connection that is there.
Known(c) == c.op = "set" => FindConnection(Load(settled), c.name) # None

EditTakesEffect ==
    [][\A e \in Editor :
         Writes(e) /\ alone /\ Known(todo[e]) => Has(Load(file'), todo[e])]_config

\* A command changes what its arguments say of the configuration as the last
\* finished command left it, and nothing else.
DoesWhatItSays(c) ==
    LET old == Load(settled)
    IN  CASE c.op = "set" -> Load(file') = SetField(old, c.name, c.field, c.value)
          [] c.op = "use" -> Load(file') = [old EXCEPT !.current = c.name]
          [] c.op = "init" -> settled = None

\* No setting another command made is ever lost.
NeverLosesUpdate == [][\A e \in Editor : Writes(e) => DoesWhatItSays(todo[e])]_config

\* No setting is lost by a command that ran alone, whatever overlapped or was
\* killed before it (main.go:545-597, config.go:99-108).
NoLostUpdate ==
    [][\A e \in Editor : Writes(e) /\ alone => DoesWhatItSays(todo[e])]_config

\* A configuration that has connections never ends up with none, neither in
\* what a command writes nor in what is left when no command is at work.
NeverEmptied ==
    [][LabelsOf(settled) # <<>> =>
         /\ LabelsOf(settled') # <<>>
         /\ AtRest' => LabelsOf(file') # <<>>]_config

TypeOK ==
    /\ step \in [Editor -> Rest \union {"stat", "load", "read", "truncate", "write"}]
    /\ todo \in [Editor -> Commands \union {None}]
    /\ mixed \in BOOLEAN /\ alone \in BOOLEAN
    /\ \A e \in Editor :
         /\ step[e] = "write" => file # None
         /\ step[e] \in {"truncate", "write"} => (seen[e] = None <=> todo[e].op = "init")
=============================================================================
