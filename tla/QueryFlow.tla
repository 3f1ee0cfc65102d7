----------------------------- MODULE QueryFlow -----------------------------
(***************************************************************************)
(* From a request to an answer: which connection a query runs against and  *)
(* where its answer comes from, for a command (main in src/main.go) and    *)
(* for a request of the web server (handleQuery in src/server/server.go),  *)
(* while `config` commands edit the file they read.                        *)
(*                                                                         *)
(* The result cache is the map ResultCache specifies.  An answer is        *)
(* modelled by its origin: the place the backend read it from.             *)
(*                                                                         *)
(* Operators marked "Wrong" are variants with a bug; README.md says which  *)
(* property finds each of them.                                            *)
(***************************************************************************)
EXTENDS ConfigFile

CONSTANTS
    Command,     \* processes that run one query
    Slot,        \* requests the server works on at one time
    Query,       \* query texts
    Names,       \* names of connections: in the file, after -c, in requests
    Flags,       \* values of -cluster and -db: [cluster, database]
    Env,         \* KUSTO_CLUSTER and KUSTO_DATABASE of the commands
    Modes        \* "cached", "refresh" (-refresh), "nocache" (-no-cache)

Override == [cluster : Word, database : Word]
HeadersNamed(text) == \A i \in 1..Len(text) : IsHeader(text[i]) => text[i].labels[2] \in Names

ASSUME RequestsAssumption ==
    /\ Flags \subseteq Override /\ Env \subseteq Override
    /\ Modes \subseteq {"cached", "refresh", "nocache"}
    /\ Command \cap Slot = {}
    /\ \A t \in (Texts \union {Default}) \ {None} : HeadersNamed(t)

VARIABLES
    server,      \* the configuration the server read when it started, or None
    pc,          \* "idle", "lookup", "token", "ask", "put", "shown", "failed"
    req,         \* the request of each worker
    conn,        \* the connection it was resolved to
    store,       \* the result cache
    shown        \* the answer each worker shows

Worker == Command \union Slot
flow == <<pc, req, conn>>
vars == <<config, server, flow, store, shown>>

Or(a, b) == IF a = Empty THEN b ELSE a
Absent == [type |-> Empty, name |-> Empty, attrs |-> Unset]

\* Where the backend of a connection reads: the first places it looks at.
Origin(c) ==
    [type |-> c.type,
     at |-> IF c.type = "kusto" THEN <<c.attrs["cluster"], c.attrs["database"]>>
            ELSE <<c.attrs["path"]>>]

Answer == [type : Word, at : Seq(Word)]
Request == [name : Names \union {Empty}, query : Query, mode : Modes \union {"cached"}]

ASSUME NotNone == None \notin Answer \union Request

\* Wrong: the query text alone is the key.
KeyOfQuery(c, q) == <<"(cli)", q>>

\* The cache key: the connection's name and the query text.
KeyOf(c, q) == <<c.name, q>>
Key == (Names \union {"(cli)"}) \X Query

Cache == INSTANCE ResultCache WITH
    Value <- Answer, Client <- Worker, reply <- shown

----------------------------------------------------------------------------
\* Wrong: the environment goes before the configuration.
ResolveEnvFirst(c, flags, env) ==
    LET b == IF c = None THEN Absent ELSE c
    IN  [type  |-> Or(b.type, "kusto"),
         name  |-> Or(b.name, "(cli)"),
         attrs |-> [b.attrs EXCEPT
                     !["cluster"]  = Or(flags.cluster, Or(env.cluster, @)),
                     !["database"] = Or(flags.database, Or(env.database, @))]]

\* resolveConnection: flag, then config, then environment, then a fallback.
Resolve(c, flags, env) ==
    LET b == IF c = None THEN Absent ELSE c
    IN  [type  |-> Or(b.type, "kusto"),
         name  |-> Or(b.name, "(cli)"),
         attrs |-> [b.attrs EXCEPT
                     !["cluster"]  = Or(flags.cluster, Or(@, env.cluster)),
                     !["database"] = Or(flags.database, Or(@, env.database))]]

\* auth.GetToken: no token without scopes; an unknown provider is an error.  An
\* acquired token is "bearer".
Token(c) ==
    IF c.attrs["scopes"] = Empty THEN Empty
    ELSE IF c.attrs["token_provider"] \in {Empty, "az"} THEN "bearer"
    ELSE None

\* The constructor of a backend accepts the connection.
Constructs(c, token) ==
    CASE c.type = "kusto"  -> token # Empty /\ c.attrs["cluster"] # Empty
      [] c.type = "csv"    -> c.attrs["path"] # Empty
      [] c.type = "duckdb" -> TRUE
      [] OTHER             -> FALSE

Init ==
    /\ InitConfig
    /\ server = None
    /\ pc = [w \in Worker |-> "idle"]
    /\ req = [w \in Worker |-> None]
    /\ conn = [w \in Worker |-> None]
    /\ Cache!Init

Goto(w, l) == pc' = [pc EXCEPT ![w] = l]
Show(w, a) == shown' = [shown EXCEPT ![w] = a]

\* A command loads the configuration and resolves its connection.  With -c it
\* ends if there is none of that name; without, it takes the default, if any.
Run(w, name, q, flags, env, mode) ==
    LET cfg == Load(file)
        c == IF name # Empty THEN FindConnection(cfg, name) ELSE DefaultConn(cfg)
    IN  /\ pc[w] = "idle"
        /\ req' = [req EXCEPT ![w] = [name |-> name, query |-> q, mode |-> mode]]
        /\ IF name # Empty /\ c = None
             THEN Goto(w, "failed") /\ UNCHANGED conn
             ELSE /\ Goto(w, IF mode = "cached" THEN "lookup" ELSE "token")
                  /\ conn' = [conn EXCEPT ![w] = Resolve(c, flags, env)]
        /\ UNCHANGED <<config, server, store, shown>>

\* `jacques serve` loads the configuration once.
Serve ==
    /\ server = None
    /\ server' = Load(file)
    /\ UNCHANGED <<config, flow, store, shown>>

\* Wrong: "no connection configured" is not checked.
HandleUnchecked(w, name, q) ==
    /\ server # None
    /\ pc[w] = "idle"
    /\ req' = [req EXCEPT ![w] = [name |-> name, query |-> q, mode |-> "cached"]]
    /\ Goto(w, "lookup")
    /\ conn' = [conn EXCEPT ![w] = LET c == FindConnection(server, name)
                                   IN  IF c # None THEN c ELSE DefaultConn(server)]
    /\ UNCHANGED <<config, server, store, shown>>

\* handleQuery: an unknown name means the default connection; no override and
\* no environment applies.
Handle(w, name, q) ==
    LET named == FindConnection(server, name)
        c == IF named # None THEN named ELSE DefaultConn(server)
    IN  /\ server # None
        /\ pc[w] = "idle"
        /\ req' = [req EXCEPT ![w] = [name |-> name, query |-> q, mode |-> "cached"]]
        /\ IF c = None
             THEN Goto(w, "failed") /\ UNCHANGED conn
             ELSE Goto(w, "lookup") /\ conn' = [conn EXCEPT ![w] = c]
        /\ UNCHANGED <<config, server, store, shown>>

----------------------------------------------------------------------------
\* A hit ends the request.  A lookup may also find the cache file in use, which
\* is a miss like any other.
Hit(w) ==
    /\ pc[w] = "lookup"
    /\ Cache!Lookup(w, KeyOf(conn[w], req[w].query))
    /\ Goto(w, "shown")
    /\ UNCHANGED <<config, server, req, conn>>

Miss(w) ==
    /\ pc[w] = "lookup"
    /\ Goto(w, "token")
    /\ UNCHANGED <<config, server, req, conn, store, shown>>

\* GetToken may fail whatever the connection says.
Acquire(w) ==
    /\ pc[w] = "token"
    /\ \/ Token(conn[w]) # None /\ Goto(w, "ask")
       \/ Goto(w, "failed")
    /\ UNCHANGED <<config, server, req, conn, store, shown>>

\* backend.New and Query; the query may fail.
Ask(w) ==
    /\ pc[w] = "ask"
    /\ \/ /\ Constructs(conn[w], Token(conn[w]))
          /\ Show(w, Origin(conn[w]))
          /\ Goto(w, IF req[w].mode = "nocache" THEN "shown" ELSE "put")
       \/ Goto(w, "failed") /\ UNCHANGED shown
    /\ UNCHANGED <<config, server, req, conn, store>>

\* A Put that fails is logged and the answer is shown all the same.
Put(w) ==
    /\ pc[w] = "put"
    /\ \/ Cache!Store(KeyOf(conn[w], req[w].query), shown[w])
       \/ UNCHANGED <<store, shown>>
    /\ Goto(w, "shown")
    /\ UNCHANGED <<config, server, req, conn>>

\* The answer is on the screen, or an error is; the worker is free again.
Done(w) ==
    /\ pc[w] \in {"shown", "failed"}
    /\ Goto(w, "idle")
    /\ Cache!Forget(w)
    /\ req' = [req EXCEPT ![w] = None]
    /\ conn' = [conn EXCEPT ![w] = None]
    /\ UNCHANGED <<config, server>>

\* `cache clear`, and whatever else drops entries.
Clear ==
    /\ Cache!Evict(Key)
    /\ UNCHANGED <<config, server, flow>>

Steps(w) == Hit(w) \/ Miss(w) \/ Acquire(w) \/ Ask(w) \/ Put(w) \/ Done(w)

Next ==
    \/ NextConfig /\ UNCHANGED <<server, flow, store, shown>>
    \/ Serve
    \/ Clear
    \/ \E w \in Worker : Steps(w)
    \/ \E w \in Command, name \in Names \union {Empty}, q \in Query,
          flags \in Flags, env \in Env, mode \in Modes : Run(w, name, q, flags, env, mode)
    \/ \E w \in Slot, name \in Names, q \in Query : Handle(w, name, q)

Spec == Init /\ [][Next]_vars

----------------------------------------------------------------------------
(* What should hold of it                                                  *)

\* A request is answered with data of the connection it was resolved to, by
\* main.go:103-116 or server.go:128-136, whoever put it in the cache, as long
\* as no `config` command has written over a longer text.
AnswerFromTarget ==
    ~ mixed => \A w \in Worker : shown[w] # None => shown[w] = Origin(conn[w])

\* The cache holds under a connection's name what that connection, as it is
\* in the file, would answer (main.go:176-225: read, asked and written by name).
CacheMatchesConfig ==
    ~ mixed => LET cfg == Load(file) IN
      \A k \in Key :
        LET c == FindConnection(cfg, k[1]) IN
          store[k] # None /\ c # None => store[k] = Origin(c)

\* When every name is configured, a command asks the connection it names, or
\* the default: it is not told there is none and not sent to the fallback
\* "(cli)" (main.go:103-116), although other commands edit the file.
ResolvesConfigured ==
    [][\A w \in Command :
         pc[w] = "idle" /\ pc'[w] # "idle" =>
           conn'[w] # None /\ conn'[w].name \in Names]_vars

FlowTypeOK ==
    /\ TypeOK
    /\ pc \in [Worker -> {"idle", "lookup", "token", "ask", "put", "shown", "failed"}]
    /\ DOMAIN store = Key
    /\ \A w \in Worker :
         /\ pc[w] \in {"lookup", "token", "ask", "put", "shown"} => conn[w] # None
         /\ pc[w] \in {"idle", "lookup", "token", "ask", "failed"} => shown[w] = None
         /\ pc[w] \in {"put", "shown"} => shown[w] # None
         /\ pc[w] = "idle" <=> req[w] = None
=============================================================================
