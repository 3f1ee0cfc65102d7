--------------------------- MODULE CommandProofs ---------------------------
(***************************************************************************)
(* Theorems about Command, for any shells, directories, connections and    *)
(* credential sources: types, the terminal, whose token a query uses, and  *)
(* how many entries msauth's cache has.                                    *)
(***************************************************************************)
EXTENDS Command, TLAPS

\* One shell's steps, without fairness.
Step(p) == Start(p) \/ MainStep(p) \/ Tick(p) \/ Erase(p)

----------------------------------------------------------------------------
(* Types                                                                   *)

\* A namespace is of the type of msauth's keys.
LEMMA NamespaceType ==
    ASSUME TypeOK, NEW p \in Proc
    PROVE  DirPath(p) \in Namespaces /\ AzLogin(p) \in Login
<1>1. Effective(p) \in Spelling
  BY SpellingAssumption DEF TypeOK, Effective
<1>2. CASE Effective(p) = Unset
  BY <1>2, SpellingAssumption DEF Namespaces, DirPath, AzLogin
<1>3. CASE Effective(p) # Unset
  <2>1. Absolute[cwd[p]][Effective(p)] \in Path
    BY <1>1, <1>3, SpellingAssumption DEF TypeOK
  <2> QED
    BY <1>3, <2>1, SpellingAssumption DEF Namespaces, DirPath, AzLogin
<1> QED
  BY <1>2, <1>3

\* The selector of a connection that has scopes is well typed.
LEMMA SelectorType ==
    ASSUME NEW p \in Proc, conn[p] \in Conn, conn[p].scopes # NoScopes
    PROVE  Selector(conn[p].scopes) \in Scopes
<1>1. conn[p] \in Conn
  OBVIOUS
<1>2. conn[p].scopes.tail \in TailForm
  BY <1>1, ConnAssumption
<1>3. conn[p].scopes.resource \in Resource
  BY <1>1 DEF Resource
<1> QED
  BY <1>2, <1>3 DEF Selector, Scopes, TailForm

\* A command has a connection, and one that waits for msauth has scopes.
Asking ==
    \A p \in Proc : /\ pc[p] # "idle" => conn[p] \in Conn
                    /\ pc[p] = "acquire" => conn[p].scopes # NoScopes

\* A token msauth fetches is well typed.
LEMMA FetchedType ==
    ASSUME TypeOK, Asking, NEW p \in Proc, pc[p] = "acquire", NEW s \in Source
    PROVE  Fetched(p, s) \in Token
<1>1. conn[p] \in Conn /\ Selector(conn[p].scopes) \in Scopes
  BY SelectorType DEF Asking
<1>2. DirPath(p) \in Namespaces /\ AzLogin(p) \in Login
  BY NamespaceType
<1>3. conn[p].tenant \in Tenant /\ Broker \in Login
  BY <1>1, ConnAssumption, SpellingAssumption
<1> QED
  BY <1>1, <1>2, <1>3 DEF Token, Fetched, Key, Namespace

\* The types are inductive.
LEMMA TypeStep ==
    ASSUME TypeOK, Asking, [Next]_vars
    PROVE  TypeOK' /\ Asking'
<1> USE DEF TypeOK, Asking, State, Goto
<1>1. CASE UNCHANGED vars
  BY <1>1 DEF vars, process, terminal
<1>2. CASE Expire
  BY <1>2 DEF Expire, process, terminal
<1>3. ASSUME NEW p \in Proc, Step(p)
      PROVE  TypeOK' /\ Asking'
  <2>1. CASE Start(p)
    <3>1. PICK c \in Conn : conn' = [conn EXCEPT ![p] = c]
      BY <2>1 DEF Start
    <3>2. conn' \in [Proc -> Conn \union {NoConn}]
      BY <3>1
    <3> QED
      BY <2>1, <3>1, <3>2 DEF Start, terminal
  <2>2. CASE LookUp(p)
    BY <2>2 DEF LookUp, Output, process
  <2>3. CASE TokenNotNeeded(p)
    BY <2>3 DEF TokenNotNeeded, process, terminal
  <2>4. CASE UnknownProvider(p)
    BY <2>4 DEF UnknownProvider, AsksMsauth, process, terminal
  <2>5. CASE Request(p)
    BY <2>5 DEF Request, AsksMsauth, Output, process
  <2>6. CASE AcquireStored(p)
    <3>1. PICK t \in tokens : token' = [token EXCEPT ![p] = [by |-> "msauth", is |-> t]]
      BY <2>6 DEF AcquireStored
    <3>2. [by |-> "msauth", is |-> t] \in [by : {"msauth"}, is : Token]
      OBVIOUS
    <3> QED
      BY <2>6, <3>1, <3>2 DEF AcquireStored, process, terminal
  <2>7. CASE AcquireNew(p)
    <3>1. PICK s \in Source :
            /\ token' = [token EXCEPT ![p] = [by |-> "msauth", is |-> Fetched(p, s)]]
            /\ tokens' = tokens \union {Fetched(p, s)}
      BY <2>7 DEF AcquireNew
    <3> DEFINE t == Fetched(p, s)
    <3>2. t \in Token
      BY <2>7, FetchedType DEF AcquireNew
    <3> HIDE DEF t
    <3>3. /\ token' = [token EXCEPT ![p] = [by |-> "msauth", is |-> t]]
          /\ tokens' = tokens \union {t}
      BY <3>1 DEF t
    <3>4. [by |-> "msauth", is |-> t] \in [by : {"msauth"}, is : Token]
      BY <3>2
    <3> QED
      BY <2>7, <3>2, <3>3, <3>4 DEF AcquireNew, process, terminal
  <2>8. CASE AcquireFail(p)
    BY <2>8 DEF AcquireFail, process, terminal
  <2>9. CASE Construct(p)
    BY <2>9 DEF Construct, process
  <2>10. CASE QueryEnds(p)
    BY <2>10 DEF QueryEnds, process
  <2>11. CASE Stopped(p)
    BY <2>11 DEF Stopped, process, terminal
  <2>12. CASE Answer(p)
    BY <2>12 DEF Answer, Output, process
  <2>13. CASE Exit(p)
    BY <2>13 DEF Exit, Output
  <2>14. CASE Tick(p)
    BY <2>14 DEF Tick, process
  <2>15. CASE Erase(p)
    BY <2>15 DEF Erase, process
  <2> QED
    BY <1>3, <2>1, <2>2, <2>3, <2>4, <2>5, <2>6, <2>7, <2>8, <2>9, <2>10, <2>11,
       <2>12, <2>13, <2>14, <2>15 DEF Step, MainStep
<1> QED
  BY <1>1, <1>2, <1>3 DEF Next, Step

\* They hold at first.
LEMMA InitTyped == Init => TypeOK /\ Asking
BY DEF Init, TypeOK, State, Asking

\* The variables of Command are well typed.
THEOREM CommandTyped == Spec => []TypeOK
<1>1. Init => TypeOK /\ Asking
  BY InitTyped
<1>2. TypeOK /\ Asking /\ [Next]_vars => (TypeOK /\ Asking)'
  BY TypeStep
<1> QED
  BY <1>1, <1>2, PTL DEF Spec

----------------------------------------------------------------------------
(* The terminal                                                            *)

\* Why output is clean: frames are drawn by a live goroutine only, and it lives
\* from the start of the query until Stop returns.
SpinnerInv ==
    \A p \in Proc :
      /\ ~ garbled[p]
      /\ drawn[p] => spinner[p] \in {"running", "told"}
      /\ spinner[p] = "running" => pc[p] = "query"
      /\ spinner[p] = "told" => pc[p] \in {"stop with rows", "stop with error"}

\* The goroutine does not outlive Stop.
LEMMA SpinnerStep ==
    ASSUME TypeOK, SpinnerInv, [Next]_vars
    PROVE  SpinnerInv'
<1> USE DEF TypeOK, SpinnerInv, Goto
<1>1. CASE UNCHANGED vars
  BY <1>1 DEF vars, terminal
<1>2. CASE Expire
  BY <1>2 DEF Expire, terminal
<1>3. ASSUME NEW p \in Proc, Step(p)
      PROVE  SpinnerInv'
  <2>1. CASE Start(p)
    BY <2>1 DEF Start, terminal
  <2>2. CASE LookUp(p)
    BY <2>2 DEF LookUp, Output
  <2>3. CASE TokenNotNeeded(p)
    BY <2>3 DEF TokenNotNeeded, terminal
  <2>4. CASE UnknownProvider(p)
    BY <2>4 DEF UnknownProvider, AsksMsauth, terminal
  <2>5. CASE Request(p)
    BY <2>5 DEF Request, AsksMsauth, Output
  <2>6. CASE AcquireStored(p) \/ AcquireNew(p) \/ AcquireFail(p)
    BY <2>6 DEF AcquireStored, AcquireNew, AcquireFail, terminal
  <2>7. CASE Construct(p)
    BY <2>7 DEF Construct
  <2>8. CASE QueryEnds(p)
    BY <2>8 DEF QueryEnds
  <2>9. CASE Stopped(p)
    BY <2>9 DEF Stopped, terminal
  <2>10. CASE Answer(p)
    BY <2>10 DEF Answer, Output
  <2>11. CASE Exit(p)
    BY <2>11 DEF Exit, Output
  <2>12. CASE Tick(p)
    BY <2>12 DEF Tick
  <2>13. CASE Erase(p)
    BY <2>13 DEF Erase
  <2> QED
    BY <1>3, <2>1, <2>2, <2>3, <2>4, <2>5, <2>6, <2>7, <2>8, <2>9, <2>10, <2>11,
       <2>12, <2>13 DEF Step, MainStep
<1> QED
  BY <1>1, <1>2, <1>3 DEF Next, Step

\* Whatever the goroutine's select chooses, no line of a command's output is
\* printed beside a frame of its spinner, and none is drawn over it later.
THEOREM OutputIsClean == Spec => []CleanOutput
<1>1. Init => SpinnerInv
  BY DEF Init, SpinnerInv
<1>2. TypeOK /\ SpinnerInv /\ [Next]_vars => SpinnerInv'
  BY SpinnerStep
<1>3. SpinnerInv => CleanOutput
  BY DEF SpinnerInv, CleanOutput
<1> QED
  BY <1>1, <1>2, <1>3, CommandTyped, PTL DEF Spec

----------------------------------------------------------------------------
(* Whose token                                                             *)

\* The login the Azure CLI used for an entry follows from its key, and so does
\* what it is for.
LoginFor(key) == IF key.namespace = Unset THEN Default ELSE LoginAt[key.namespace]

Honest(t) ==
    /\ t.source = "cli" => t.login = LoginFor(t.key)
    /\ t.scope = t.key.scope /\ t.tenant = t.key.tenant /\ t.path = t.key.namespace

\* Why a stored token can be trusted: the key says whose it is.
TokenInv ==
    /\ \A t \in tokens : Honest(t)
    /\ \A p \in Proc :
         /\ pc[p] = "idle" => token[p] = NoToken
         /\ token[p].by = "msauth" =>
              Honest(token[p].is) /\ token[p].is.key = Key(p)

\* The login of a process is the one its key stands for.
LEMMA OwnKey ==
    ASSUME NEW p \in Proc
    PROVE  AzLogin(p) = LoginFor(Key(p))
BY DEF AzLogin, LoginFor, Key, Namespace

\* Tokens are stored and served under the key of their login.
LEMMA TokenStep ==
    ASSUME TypeOK, TokenInv, [Next]_vars
    PROVE  TokenInv'
<1> USE DEF TypeOK, Goto, NoToken, DirPath
<1>1. CASE UNCHANGED vars
  BY <1>1 DEF vars, process, TokenInv, Key, Namespace, Effective
<1>2. CASE Expire
  BY <1>2 DEF Expire, process, TokenInv, Key, Namespace, Effective
<1>3. ASSUME NEW p \in Proc, Step(p)
      PROVE  TokenInv'
  <2>1. CASE Start(p)
    <3>1. \A q \in Proc : q # p => Key(q)' = Key(q)
      BY <2>1 DEF Start, Key, Namespace, Effective
    <3>2. token[p] = NoToken
      BY <2>1 DEF Start, TokenInv
    <3>3. /\ tokens' = tokens /\ token' = token
          /\ pc' = [pc EXCEPT ![p] = "look up"]
      BY <2>1 DEF Start
    <3>4. \A q \in Proc : pc'[q] = "idle" => pc[q] = "idle"
      BY <3>3
    <3>5. token[p].by # "msauth"
      BY <3>2
    <3> QED
      BY <3>1, <3>3, <3>4, <3>5 DEF TokenInv
  <2>2. CASE AcquireStored(p)
    <3>1. PICK t \in tokens :
            t.key = Key(p) /\ token' = [token EXCEPT ![p] = [by |-> "msauth", is |-> t]]
      BY <2>2 DEF AcquireStored
    <3>2. \A q \in Proc : Key(q)' = Key(q)
      BY <2>2 DEF AcquireStored, process, Key, Namespace, Effective
    <3>3. tokens' = tokens /\ pc' = [pc EXCEPT ![p] = "construct"]
      BY <2>2 DEF AcquireStored
    <3> QED
      BY <3>1, <3>2, <3>3 DEF TokenInv
  <2>3. CASE AcquireNew(p)
    <3>1. PICK s \in Source :
            /\ token' = [token EXCEPT ![p] = [by |-> "msauth", is |-> Fetched(p, s)]]
            /\ tokens' = tokens \union {Fetched(p, s)}
      BY <2>3 DEF AcquireNew
    <3> DEFINE t == Fetched(p, s)
    <3>2. Honest(t) /\ t.key = Key(p)
      <4>1. t.scope = t.key.scope /\ t.tenant = t.key.tenant /\ t.path = t.key.namespace
        BY DEF Fetched, Key, Namespace
      <4>2. t.key = Key(p) /\ (t.source = "cli" => t.login = AzLogin(p))
        BY DEF Fetched
      <4> QED
        BY <4>1, <4>2, OwnKey DEF Honest
    <3>3. \A q \in Proc : Key(q)' = Key(q)
      BY <2>3 DEF AcquireNew, process, Key, Namespace, Effective
    <3> HIDE DEF t
    <3>4. /\ token' = [token EXCEPT ![p] = [by |-> "msauth", is |-> t]]
          /\ tokens' = tokens \union {t}
          /\ pc' = [pc EXCEPT ![p] = "construct"]
      BY <2>3, <3>1 DEF t, AcquireNew
    <3> QED
      BY <3>2, <3>3, <3>4 DEF TokenInv
  <2>4. CASE Exit(p)
    <3>1. \A q \in Proc : q # p => Key(q)' = Key(q)
      BY <2>4 DEF Exit, Key, Namespace, Effective
    <3>2. tokens' = tokens
      BY <2>4 DEF Exit
    <3>3. /\ token' = [token EXCEPT ![p] = NoToken]
          /\ pc' = [pc EXCEPT ![p] = "idle"]
      BY <2>4 DEF Exit
    <3> QED
      BY <3>1, <3>2, <3>3 DEF TokenInv
  <2>5. ASSUME UNCHANGED <<process, token, tokens>>,
               \A q \in Proc : pc'[q] = "idle" => pc[q] = "idle"
        PROVE  TokenInv'
    BY <2>5 DEF TokenInv, process, Key, Namespace, Effective
  <2>6. CASE \/ LookUp(p) \/ TokenNotNeeded(p) \/ UnknownProvider(p) \/ Request(p)
             \/ AcquireFail(p)
    <3>1. UNCHANGED <<process, token, tokens>>
      BY <2>6 DEF LookUp, TokenNotNeeded, UnknownProvider, Request, AcquireFail
    <3>2. \E l \in State \ {"idle"} : pc' = [pc EXCEPT ![p] = l]
      BY <2>6 DEF LookUp, TokenNotNeeded, UnknownProvider, Request, AcquireFail, State
    <3>3. \A q \in Proc : pc'[q] = "idle" => pc[q] = "idle"
      BY <3>2 DEF TypeOK
    <3> QED
      BY <2>5, <3>1, <3>3
  <2>7. CASE Construct(p) \/ QueryEnds(p) \/ Stopped(p) \/ Answer(p)
    BY <2>5, <2>7 DEF Construct, QueryEnds, Stopped, Answer
  <2>8. CASE Tick(p) \/ Erase(p)
    BY <2>5, <2>8 DEF Tick, Erase
  <2> QED
    BY <1>3, <2>1, <2>2, <2>3, <2>4, <2>6, <2>7, <2>8 DEF Step, MainStep
<1> QED
  BY <1>1, <1>2, <1>3 DEF Next, Step

\* Whatever logins, spellings of their directories, connections and processes
\* share msauth's cache, a query runs with a token for its connection's tenant and
\* resource, and one the Azure CLI gave is of its own directory's login.
THEOREM TokenOfOwnLogin == Spec => []OwnLogin
<1>1. Init => TokenInv
  BY DEF Init, TokenInv, NoToken
<1>2. TypeOK /\ TokenInv /\ [Next]_vars => TokenInv'
  BY TokenStep
<1>3. TokenInv => OwnLogin
  <2> SUFFICES ASSUME TokenInv, NEW p \in Proc, token[p].by = "msauth"
               PROVE  /\ token[p].is.source = "cli" => token[p].is.login = AzLogin(p)
                      /\ token[p].is.tenant = conn[p].tenant
                      /\ token[p].is.scope.resource = conn[p].scopes.resource
    BY DEF OwnLogin
  <2>1. Honest(token[p].is) /\ token[p].is.key = Key(p)
    BY DEF TokenInv
  <2>2. token[p].is.source = "cli" => token[p].is.login = AzLogin(p)
    BY <2>1, OwnKey DEF Honest
  <2>3. token[p].is.scope = Selector(conn[p].scopes) /\ token[p].is.tenant = conn[p].tenant
    BY <2>1 DEF Honest, Key
  <2>4. Selector(conn[p].scopes).resource = conn[p].scopes.resource
    BY DEF Selector
  <2> QED
    BY <2>2, <2>3, <2>4
<1> QED
  BY <1>1, <1>2, <1>3, CommandTyped, PTL DEF Spec

----------------------------------------------------------------------------
(* One entry per path                                                      *)

\* Of the four forms of a scope two are left in the cache.
EntryInv == \A t \in tokens : t.scope.path \in {"/.default", "/user_impersonation"}

\* selectorFor folds the forms of an audience.
LEMMA SelectorPath ==
    ASSUME TypeOK, Asking, NEW p \in Proc, conn[p].scopes # NoScopes, pc[p] = "acquire"
    PROVE  Selector(conn[p].scopes).path \in {"/.default", "/user_impersonation"}
<1>1. conn[p].scopes.tail \in TailForm
  BY ConnAssumption DEF TypeOK, Asking
<1> QED
  BY <1>1 DEF Selector, TailForm

\* Only AcquireNew adds an entry.
LEMMA EntryStep ==
    ASSUME TypeOK, Asking, EntryInv, [Next]_vars
    PROVE  EntryInv'
<1>1. CASE tokens' \subseteq tokens
  BY <1>1 DEF EntryInv
<1>2. ASSUME NEW p \in Proc, AcquireNew(p) PROVE EntryInv'
  <2>1. PICK s \in Source : tokens' = tokens \union {Fetched(p, s)}
    BY <1>2 DEF AcquireNew
  <2>2. Selector(conn[p].scopes).path \in {"/.default", "/user_impersonation"}
    BY <1>2, SelectorPath DEF AcquireNew, Asking
  <2> QED
    BY <2>1, <2>2 DEF EntryInv, Fetched
<1>3. \/ tokens' \subseteq tokens
      \/ \E p \in Proc : AcquireNew(p)
  BY DEF Next, vars, Expire, Start, MainStep, LookUp, TokenNotNeeded, UnknownProvider,
         Request, AcquireStored, AcquireFail, Construct, QueryEnds, Stopped, Answer,
         Exit, Tick, Erase
<1> QED
  BY <1>1, <1>2, <1>3

\* Two entries of one path and one audience have the same key, so they are one
\* entry: whichever connection, spelling of the path and form of the scope they
\* were fetched for.
LEMMA SameKey ==
    ASSUME TypeOK, TokenInv, EntryInv
    PROVE  OneEntryPerPath
<1> SUFFICES ASSUME NEW s \in tokens, NEW t \in tokens, s.path = t.path, SameAudience(s, t)
             PROVE  s.key = t.key
  BY DEF OneEntryPerPath
<1>1. /\ s.key \in [namespace : Namespaces, tenant : Tenant, scope : Scopes]
      /\ t.key \in [namespace : Namespaces, tenant : Tenant, scope : Scopes]
  BY DEF TypeOK, Token
<1>2. /\ s.scope = s.key.scope /\ s.tenant = s.key.tenant /\ s.path = s.key.namespace
      /\ t.scope = t.key.scope /\ t.tenant = t.key.tenant /\ t.path = t.key.namespace
  BY DEF TokenInv, Honest
<1>3. s.key.scope = t.key.scope
  <2>1. s.scope.path = t.scope.path /\ s.scope.resource = t.scope.resource
    BY DEF EntryInv, SameAudience
  <2> QED
    BY <1>1, <1>2, <2>1 DEF Scopes
<1>4. s.key.tenant = t.key.tenant /\ s.key.namespace = t.key.namespace
  BY <1>2 DEF SameAudience
<1> QED
  BY <1>1, <1>3, <1>4

\* msauth's cache has one entry per path, tenant and audience, for any processes,
\* connections and spellings.  A login that several paths lead to has several, as
\* command_default.cfg shows.
THEOREM EntriesShared == Spec => []OneEntryPerPath
<1>1. Init => TokenInv /\ EntryInv /\ TypeOK /\ Asking
  BY InitTyped DEF Init, TokenInv, EntryInv, NoToken
<1>2. TypeOK /\ Asking /\ TokenInv /\ EntryInv /\ [Next]_vars
        => (TypeOK /\ Asking /\ TokenInv /\ EntryInv)'
  BY TypeStep, TokenStep, EntryStep
<1>3. TypeOK /\ TokenInv /\ EntryInv => OneEntryPerPath
  BY SameKey
<1> QED
  BY <1>1, <1>2, <1>3, PTL DEF Spec
=============================================================================
