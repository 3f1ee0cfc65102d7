------------------------------ MODULE Command ------------------------------
(***************************************************************************)
(* The course of one `jacques` query in its process (src/main.go:85-276):  *)
(* the token it runs with, which msauth keeps in a cache that all          *)
(* processes share (src/auth/auth.go), and the terminal, on which the      *)
(* spinner's goroutine draws while the backend works                       *)
(* (src/render/spinner.go).  Which answer the cache or the backend gives   *)
(* is the subject of QueryFlow and left open here.                         *)
(*                                                                         *)
(* Operators marked "Wrong" are variants with a bug; README.md says which  *)
(* property finds each of them.                                            *)
(***************************************************************************)
EXTENDS Naturals

CONSTANTS
    Proc,      \* shells, in which one command runs after another
    Cwd,       \* working directories
    Spelling,  \* values of AZURE_CONFIG_DIR, with Unset among them
    Unset,
    Path,      \* absolute paths as filepath.Abs and Clean give them
    Absolute,  \* the path that a value means in a working directory
    Login,     \* accounts: those of `az login` and that of the broker
    LoginAt,   \* the login of the directory a path leads to
    Default,   \* the one the CLI uses when the variable is not set
    Broker,    \* the broker's account
    DotEnv,    \* the value in the .env file of a working directory
    Shell,     \* where each shell may be, and what it may have in the variable
    Conn,      \* connections; known: the token_provider is, needs: the backend
               \* needs a token
    Tenant,    \* values of their tenant_id
    NoScopes,
    NoConn,
    Source     \* where msauth finds a credential: "broker", "cli"

Resource == {c.scopes.resource : c \in {d \in Conn : d.scopes # NoScopes}}
TailForm == {"", "/", "/.default", "/user_impersonation"}

ASSUME SpellingAssumption ==
    /\ Unset \in Spelling
    /\ Absolute \in [Cwd -> [Spelling \ {Unset} -> Path]]
    /\ LoginAt \in [Path -> Login]
    /\ DotEnv \in [Cwd -> Spelling]
    /\ Shell \in [Proc -> SUBSET [cwd : Cwd, env : Spelling]]
    /\ {Default, Broker} \subseteq Login
    /\ Unset \notin Path
ASSUME ConnAssumption ==
    NoConn \notin Conn /\ \A c \in Conn :
      /\ c.scopes = NoScopes \/ (c.scopes.tail \in TailForm)
      /\ c.tenant \in Tenant
      /\ c.known \in BOOLEAN /\ c.needs \in BOOLEAN
ASSUME SourceAssumption == Source \subseteq {"broker", "cli"}

VARIABLES
    pc,
    cwd, env,  \* the shell's directory, and its AZURE_CONFIG_DIR
    conn,
    token,     \* resolved.Token
    spinner,   \* the goroutine: "none", "running", "told" to stop, "gone"
    drawn,     \* a frame of the spinner is on the terminal's last line
    garbled,   \* history: something was printed beside a frame, or could be
    tokens     \* msauth's cache: tokens with the key they are stored under

process == <<cwd, env, conn>>
terminal == <<spinner, drawn, garbled>>
vars == <<pc, process, token, terminal, tokens>>

NoToken == [by |-> "nobody"]

----------------------------------------------------------------------------
(* Which token                                                             *)

\* loadEnv: .env sets what the environment has not.
Effective(p) == IF env[p] # Unset THEN env[p] ELSE DotEnv[cwd[p]]

\* The path of the Azure CLI's directory in this process, if one is set, and the
\* login there: links and upper or lower case may lead from several paths to one.
DirPath(p) == IF Effective(p) = Unset THEN Unset ELSE Absolute[cwd[p]][Effective(p)]
AzLogin(p) == IF DirPath(p) = Unset THEN Default ELSE LoginAt[DirPath(p)]

\* Wrong: the variable is read before .env is loaded.
NamespaceEarly(p) == IF env[p] = Unset THEN Unset ELSE Absolute[cwd[p]][env[p]]

\* Wrong: the value is not made an absolute path.
NamespaceRaw(p) == Effective(p)

\* cacheNamespace: empty if the variable is not set; the hash tells paths apart.
Namespace(p) == DirPath(p)

\* selectorFor, with the scope that msauth makes of an audience.
Selector(scopes) ==
    [resource |-> scopes.resource,
     path |-> IF scopes.tail \in {"", "/"} THEN "/.default" ELSE scopes.tail]

\* msauth's key: besides the client, which is always the same, the tenant that
\* newAcquirer gives the provider, the scope and the namespace.
Key(p) == [namespace |-> Namespace(p), tenant |-> conn[p].tenant,
           scope |-> Selector(conn[p].scopes)]

\* What a source gives a process: the broker, where there is one, has an account
\* of its own; the Azure CLI uses the login of its directory.
Fetched(p, s) ==
    [key |-> Key(p), source |-> s, login |-> IF s = "broker" THEN Broker ELSE AzLogin(p),
     path |-> DirPath(p), tenant |-> conn[p].tenant, scope |-> Selector(conn[p].scopes)]

----------------------------------------------------------------------------
Init ==
    /\ pc = [p \in Proc |-> "idle"]
    /\ cwd \in [Proc -> Cwd] /\ env \in [Proc -> Spelling]
    /\ \A p \in Proc : [cwd |-> cwd[p], env |-> env[p]] \in Shell[p]
    /\ conn = [p \in Proc |-> NoConn]
    /\ token = [p \in Proc |-> NoToken]
    /\ spinner = [p \in Proc |-> "none"]
    /\ drawn = [p \in Proc |-> FALSE]
    /\ garbled = [p \in Proc |-> FALSE]
    /\ tokens = {}

Goto(p, next) == pc' = [pc EXCEPT ![p] = next]

\* A line is printed.  The spinner must neither be on the screen nor come back.
Output(p) ==
    garbled' = [garbled EXCEPT ![p] = @ \/ drawn[p] \/ spinner[p] \in {"running", "told"}]

Start(p) ==
    /\ pc[p] = "idle"
    /\ \E c \in Conn : conn' = [conn EXCEPT ![p] = c]
    /\ Goto(p, "look up")
    /\ UNCHANGED <<cwd, env, token, terminal, tokens>>

\* A hit needs no token; a miss, and -refresh, do.
LookUp(p) ==
    /\ pc[p] = "look up"
    /\ \E next \in {"show", "token"} : Goto(p, next)
    /\ Output(p)
    /\ UNCHANGED <<process, token, spinner, drawn, tokens>>

\* GetToken without msauth: no scopes, no token.  A token that a connection comes
\* with would be returned too, but none has one before main has called GetToken.
TokenNotNeeded(p) ==
    /\ pc[p] = "token"
    /\ conn[p].scopes = NoScopes
    /\ Goto(p, "construct")
    /\ UNCHANGED <<process, token, terminal, tokens>>

AsksMsauth(p) == pc[p] = "token" /\ conn[p].scopes # NoScopes

UnknownProvider(p) ==
    /\ AsksMsauth(p)
    /\ ~ conn[p].known
    /\ Goto(p, "fail")
    /\ UNCHANGED <<process, token, terminal, tokens>>

Request(p) ==
    /\ AsksMsauth(p)
    /\ conn[p].known
    /\ Goto(p, "acquire")
    /\ Output(p)
    /\ UNCHANGED <<process, token, spinner, drawn, tokens>>

\* msauth returns a stored token while it is valid.
AcquireStored(p) ==
    /\ pc[p] = "acquire"
    /\ \E t \in tokens :
         t.key = Key(p) /\ token' = [token EXCEPT ![p] = [by |-> "msauth", is |-> t]]
    /\ Goto(p, "construct")
    /\ UNCHANGED <<process, terminal, tokens>>

\* The broker first, the Azure CLI where there is none.
AcquireNew(p) ==
    /\ pc[p] = "acquire"
    /\ \A t \in tokens : t.key # Key(p)
    /\ \E s \in Source :
         /\ token' = [token EXCEPT ![p] = [by |-> "msauth", is |-> Fetched(p, s)]]
         /\ tokens' = tokens \union {Fetched(p, s)}
    /\ Goto(p, "construct")
    /\ UNCHANGED <<process, terminal>>

\* No credential, or an empty token.
AcquireFail(p) ==
    /\ pc[p] = "acquire"
    /\ Goto(p, "fail")
    /\ UNCHANGED <<process, token, terminal, tokens>>

Expire ==
    /\ \E t \in tokens : tokens' = tokens \ {t}
    /\ UNCHANGED <<pc, process, token, terminal>>

\* backend.New refuses a Kusto connection without a token.
Construct(p) ==
    /\ pc[p] = "construct"
    /\ IF conn[p].needs /\ token[p] = NoToken
         THEN Goto(p, "fail") /\ UNCHANGED spinner
         ELSE Goto(p, "query") /\ spinner' = [spinner EXCEPT ![p] = "running"]
    /\ UNCHANGED <<process, token, drawn, garbled, tokens>>

----------------------------------------------------------------------------
(* The spinner                                                             *)

\* A tick may win the select even when the goroutine has been told to stop.
Tick(p) ==
    /\ spinner[p] \in {"running", "told"}
    /\ drawn' = [drawn EXCEPT ![p] = TRUE]
    /\ UNCHANGED <<pc, process, token, spinner, garbled, tokens>>

\* Wrong: `break` leaves the select and not the loop.
EraseBreak(p) ==
    /\ spinner[p] = "told"
    /\ drawn' = [drawn EXCEPT ![p] = FALSE]
    /\ UNCHANGED <<pc, process, token, spinner, garbled, tokens>>

Erase(p) ==
    /\ spinner[p] = "told"
    /\ drawn' = [drawn EXCEPT ![p] = FALSE]
    /\ spinner' = [spinner EXCEPT ![p] = "gone"]
    /\ UNCHANGED <<pc, process, token, garbled, tokens>>

\* The query ends, with rows or an error, and Stop closes the channel.
QueryEnds(p) ==
    /\ pc[p] = "query"
    /\ \E next \in {"stop with rows", "stop with error"} : Goto(p, next)
    /\ spinner' = [spinner EXCEPT ![p] = "told"]
    /\ UNCHANGED <<process, token, drawn, garbled, tokens>>

\* Wrong: Stop does not wait for the goroutine.
StoppedAtOnce(p) ==
    /\ \/ pc[p] = "stop with rows" /\ Goto(p, "answer")
       \/ pc[p] = "stop with error" /\ Goto(p, "fail")
    /\ UNCHANGED <<process, token, terminal, tokens>>

\* Stop waits for the goroutine.
Stopped(p) ==
    /\ spinner[p] = "gone"
    /\ \/ pc[p] = "stop with rows" /\ Goto(p, "answer")
       \/ pc[p] = "stop with error" /\ Goto(p, "fail")
    /\ UNCHANGED <<process, token, terminal, tokens>>

----------------------------------------------------------------------------
(* The end                                                                 *)

\* The line with the number of rows; the Put prints nothing.
Answer(p) ==
    /\ pc[p] = "answer"
    /\ Goto(p, "show")
    /\ Output(p)
    /\ UNCHANGED <<process, token, spinner, drawn, tokens>>

\* The result, or "unknown format"; an error, and exit status 1.
Exit(p) ==
    /\ pc[p] \in {"show", "fail"}
    /\ Goto(p, "idle")
    /\ Output(p)
    /\ token' = [token EXCEPT ![p] = NoToken]
    /\ conn' = [conn EXCEPT ![p] = NoConn]
    /\ spinner' = [spinner EXCEPT ![p] = "none"]
    /\ UNCHANGED <<cwd, env, drawn, tokens>>

MainStep(p) ==
    \/ LookUp(p) \/ TokenNotNeeded(p) \/ UnknownProvider(p) \/ Request(p)
    \/ AcquireStored(p) \/ AcquireNew(p) \/ AcquireFail(p)
    \/ Construct(p) \/ QueryEnds(p) \/ Stopped(p) \/ Answer(p) \/ Exit(p)

Next ==
    \/ \E p \in Proc : Start(p) \/ MainStep(p) \/ Tick(p) \/ Erase(p)
    \/ Expire

\* Nobody has to start a command.  The goroutine is scheduled, and a tick comes
\* every 80 ms only, so its select finds the channel closed in the end.
Fairness == \A p \in Proc : WF_vars(MainStep(p)) /\ WF_vars(Erase(p))

Spec == Init /\ [][Next]_vars /\ Fairness

----------------------------------------------------------------------------
(* What should hold of it                                                  *)

State == {"idle", "look up", "show", "token", "acquire", "construct", "query",
          "stop with rows", "stop with error", "answer", "fail"}
Namespaces == Path \union {Unset}
Scopes == [resource : Resource, path : TailForm]
Token == [key : [namespace : Namespaces, tenant : Tenant, scope : Scopes],
          source : Source, login : Login, path : Namespaces, tenant : Tenant, scope : Scopes]

TypeOK ==
    /\ pc \in [Proc -> State]
    /\ cwd \in [Proc -> Cwd] /\ env \in [Proc -> Spelling] /\ conn \in [Proc -> Conn \union {NoConn}]
    /\ spinner \in [Proc -> {"none", "running", "told", "gone"}]
    /\ drawn \in [Proc -> BOOLEAN] /\ garbled \in [Proc -> BOOLEAN]
    /\ tokens \subseteq Token
    /\ token \in [Proc -> {NoToken} \union [by : {"msauth"}, is : Token]]

\* A query runs with a token for the tenant and the resource its connection names
\* and, if the Azure CLI gave it, of the login in its own process's directory,
\* although all processes share msauth's cache (auth.go:47-49, 132-175).
OwnLogin ==
    \A p \in Proc :
      pc[p] \in {"construct", "query"} /\ token[p].by = "msauth" =>
        LET t == token[p].is
        IN  /\ t.source = "cli" => t.login = AzLogin(p)
            /\ t.tenant = conn[p].tenant
            /\ t.scope.resource = conn[p].scopes.resource

SameAudience(s, t) ==
    /\ s.tenant = t.tenant /\ s.scope.resource = t.scope.resource
    /\ s.scope.path = "/user_impersonation" <=> t.scope.path = "/user_impersonation"

\* Processes whose variable means one path share an entry of that cache per tenant
\* and resource, whatever their connections, the spelling of the value and that
\* of the resource (auth.go:142-143, 155-156, 189-191).
OneEntryPerPath ==
    \A s, t \in tokens : s.path = t.path /\ SameAudience(s, t) => s.key = t.key

\* The same of one login, to which several paths may lead.
OneEntryPerLogin ==
    \A s, t \in tokens :
      s.source = t.source /\ s.login = t.login /\ SameAudience(s, t) => s.key = t.key

\* Every line of output comes on a clean line: the spinner has erased its frame
\* and cannot draw another one (spinner.go:36-63, main.go:210-219).
CleanOutput == \A p \in Proc : ~ garbled[p]

\* A command ends: Stop, which waits for the goroutine, comes back.
EveryCommandEnds == \A p \in Proc : pc[p] # "idle" ~> pc[p] = "idle"

\* The identity is the current `az login`.
IdentityIsAzLogin ==
    \A p \in Proc : token[p].by = "msauth" => token[p].is.source = "cli"
=============================================================================
