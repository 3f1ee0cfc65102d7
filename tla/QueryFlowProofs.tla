-------------------------- MODULE QueryFlowProofs --------------------------
(***************************************************************************)
(* What QueryFlow keeps, for every configuration file, any number of       *)
(* commands, requests and editors: its types, and, where nobody overrides  *)
(* or edits where a connection reads (Steady), that every answer and every *)
(* cached entry comes from the place the connection's name stands for.     *)
(* The runs query_flags, query_env and query_set are counterexamples       *)
(* without it.                                                             *)
(***************************************************************************)
EXTENDS QueryFlow, ConfigProofs

\* The default connection is one that its name finds.
LEMMA DefaultIs ==
    ASSUME NEW cfg \in Config, DefaultConn(cfg) # None
    PROVE  /\ DefaultConn(cfg) \in Conn
           /\ DefaultConn(cfg) = FindConnection(cfg, DefaultConn(cfg).name)
           /\ \E i \in 1..Len(cfg.conns) : DefaultConn(cfg) = cfg.conns[i]
<1>1. CASE cfg.current # Empty
  <2>1. DefaultConn(cfg) = FindConnection(cfg, cfg.current)
    BY <1>1 DEF DefaultConn
  <2>2. DefaultConn(cfg).name = cfg.current
    BY <2>1, FindTyped
  <2> QED BY <2>1, <2>2, FindTyped
<1>2. CASE cfg.current = Empty /\ cfg.conns # <<>>
  <2>1. DefaultConn(cfg) = cfg.conns[1]
    BY <1>2 DEF DefaultConn
  <2>2. cfg.conns \in Seq(Conn)
    BY DEF Config
  <2>3. 1 \in 1..Len(cfg.conns) /\ cfg.conns[1] \in Conn
    BY <1>2, <2>2
  <2>4. FindConnection(cfg, cfg.conns[1].name) = cfg.conns[1]
    <3>1. PICK i \in 1..Len(cfg.conns) :
            /\ FindConnection(cfg, cfg.conns[1].name) = cfg.conns[i]
            /\ \A j \in 1..Len(cfg.conns) : cfg.conns[j].name = cfg.conns[1].name => i <= j
      BY <2>3, FindIs
    <3>2. i = 1
      BY <2>3, <3>1
    <3> QED BY <3>1, <3>2
  <2> QED BY <2>1, <2>3, <2>4
<1>3. CASE cfg.current = Empty /\ cfg.conns = <<>>
  BY <1>3 DEF DefaultConn
<1> QED
  BY <1>1, <1>2, <1>3

\* What -cluster, -db and the environment make of a connection, or of none.
LEMMA ResolveIs ==
    ASSUME NEW c \in Conn \union {None}, NEW flags \in Override, NEW env \in Override
    PROVE  /\ Resolve(c, flags, env) \in Conn
           /\ c # None =>
                /\ Resolve(c, flags, env).name = Or(c.name, "(cli)")
                /\ Resolve(c, flags, env).type = Or(c.type, "kusto")
                /\ Resolve(c, flags, env).attrs["cluster"] =
                     Or(flags.cluster, Or(c.attrs["cluster"], env.cluster))
                /\ Resolve(c, flags, env).attrs["database"] =
                     Or(flags.database, Or(c.attrs["database"], env.database))
                /\ Resolve(c, flags, env).attrs["path"] = c.attrs["path"]
           /\ c = None => Resolve(c, flags, env).name = "(cli)"
<1> DEFINE b == IF c = None THEN Absent ELSE c
           cluster == Or(flags.cluster, Or(b.attrs["cluster"], env.cluster))
           database == Or(flags.database, Or(b.attrs["database"], env.database))
<1>1. b \in Conn
  BY DEF Absent, Unset, Conn, Word
<1>2. /\ b.attrs \in [Field -> Word] /\ b.type \in Word /\ b.name \in Word
      /\ cluster \in Word /\ database \in Word
  BY <1>1 DEF Conn, Or, Override, Field
<1>3. Or(b.type, "kusto") \in Word /\ Or(b.name, "(cli)") \in Word
  BY <1>2 DEF Or, Word
<1>4. Resolve(c, flags, env) =
        [type |-> Or(b.type, "kusto"), name |-> Or(b.name, "(cli)"),
         attrs |-> [[b.attrs EXCEPT !["cluster"] = cluster] EXCEPT !["database"] = database]]
  BY <1>2 DEF Resolve, Field
<1> DEFINE attrs == [[b.attrs EXCEPT !["cluster"] = cluster] EXCEPT !["database"] = database]
<1>5. /\ attrs \in [Field -> Word] /\ attrs["cluster"] = cluster
      /\ attrs["database"] = database /\ attrs["path"] = b.attrs["path"]
  BY <1>2 DEF Field
<1> HIDE DEF attrs
<1>6. Resolve(c, flags, env) \in Conn
  BY <1>3, <1>4, <1>5 DEF Conn, attrs
<1>7. ASSUME c = None PROVE Or(b.name, "(cli)") = "(cli)"
  BY <1>7 DEF Or, Absent
<1> QED
  BY <1>4, <1>5, <1>6, <1>7 DEF attrs

----------------------------------------------------------------------------
\* Every connection has a name of Names.
Named(cfg) == \A i \in 1..Len(cfg.conns) : cfg.conns[i].name \in Names

\* It has if every header has, ...
LEMMA LoadNamed ==
    ASSUME NEW text \in Seq(Line), HeadersNamed(text)
    PROVE  Named(Load(text))
<1> DEFINE T == {n \in 0..Len(text) : Named(Decoded(text)[n])}
<1>0. Len(text) \in Nat
  OBVIOUS
<1>1. 0 \in T
  BY <1>0, DecodedIs DEF NoConfig, Named
<1>2. ASSUME NEW n \in 0..(Len(text) - 1), n \in T PROVE n + 1 \in T
  <2> DEFINE c == Decoded(text)[n]
             d == Decoded(text)[n + 1]
             l == text[n + 1]
  <2>1. n + 1 \in 1..Len(text) /\ n + 1 \in 0..Len(text) /\ n \in 0..Len(text) /\ (n + 1) - 1 = n
    BY <1>0
  <2>2. c \in Config /\ l \in Line /\ d = Decode(c, l) /\ Named(c)
    BY <1>0, <1>2, <2>1, DecodedIs, DecodedTyped
  <2>3. d.conns = Conns(c.conns, c.inside, l)
    BY <2>2 DEF Decode
  <2>4. c.conns \in Seq(Conn) /\ c.inside \in BOOLEAN /\ Len(c.conns) \in Nat
    BY <2>2 DEF Config
  <2>5. IsHeader(l) => l.labels[2] \in Names
    BY <2>1 DEF HeadersNamed
  <2> HIDE DEF c, d, l
  <2>6. CASE IsHeader(l)
    <3>1. d.conns = Append(c.conns, NewConn(l)) /\ NewConn(l).name \in Names
      BY <2>3, <2>5, <2>6 DEF Conns, NewConn
    <3>2. NewConn(l) \in Conn
      BY <2>2, <2>6, NewConnTyped
    <3>3. /\ Len(d.conns) = Len(c.conns) + 1 /\ d.conns[Len(c.conns) + 1] = NewConn(l)
          /\ \A i \in 1..Len(c.conns) : d.conns[i] = c.conns[i]
      BY <2>4, <3>1, <3>2
    <3>4. Named(d)
      BY <2>2, <2>4, <3>1, <3>3 DEF Named
    <3> QED BY <2>1, <3>4 DEF d
  <2>7. CASE ~ IsHeader(l)
    <3>1. /\ Len(d.conns) = Len(c.conns)
          /\ \A i \in 1..Len(c.conns) : d.conns[i].name = c.conns[i].name
      BY <2>2, <2>3, <2>4, <2>7, ConnsIs
    <3>2. Named(d)
      BY <2>2, <3>1 DEF Named
    <3> QED BY <2>1, <3>2 DEF d
  <2> QED BY <2>6, <2>7
<1> HIDE DEF T
<1>3. Len(text) \in T
  <2>1. \A n \in 0..Len(text) : n \in T
    BY <1>0, <1>1, <1>2, Climb
  <2> QED BY <1>0, <2>1
<1>4. Named(NoConfig)
  BY DEF Named, NoConfig
<1> QED
  BY <1>3, <1>4, LoadIs DEF T

\* ... and lines that differ in values only have the same headers.
LEMMA LikeNamed ==
    ASSUME NEW F, NEW s \in Seq(Line), NEW t \in Seq(Line), Len(s) = Len(t),
           \A i \in 1..Len(s) : Like(F, s[i], t[i]), HeadersNamed(s)
    PROVE  HeadersNamed(t)
BY DEF Like, HeadersNamed, IsHeader

\* Nor does a text that goes on with another have others.
LEMMA JoinNamed ==
    ASSUME NEW s \in Seq(Line), NEW t \in Seq(Line), HeadersNamed(s), HeadersNamed(t)
    PROVE  HeadersNamed(s \o t)
<1>1. ASSUME NEW i \in 1..Len(s \o t), IsHeader((s \o t)[i])
      PROVE  (s \o t)[i].labels[2] \in Names
  <2>1. CASE i \in 1..Len(s)
    <3>1. (s \o t)[i] = s[i]
      BY <2>1
    <3> QED BY <1>1, <2>1, <3>1 DEF HeadersNamed
  <2>2. CASE i \notin 1..Len(s)
    <3>1. i - Len(s) \in 1..Len(t) /\ (s \o t)[i] = t[i - Len(s)]
      BY <2>2
    <3> QED BY <1>1, <3>1 DEF HeadersNamed
  <2> QED BY <2>1, <2>2
<1> QED
  BY <1>1 DEF HeadersNamed

\* An edit makes no header, ...
LEMMA EditedNamed ==
    ASSUME NEW c \in Commands, NEW text,
           c.op # "init" => text \in Seq(Line) /\ HeadersNamed(text)
    PROVE  HeadersNamed(Edited(c, text))
<1>1. CASE c.op = "init"
  BY <1>1, RequestsAssumption, TextsAssumption, NoneAssumption DEF Edited
<1>2. CASE c.op = "set"
  <2>1. Edited(c, text) = ReplaceField(text, c.name, c.field, c.value) /\ c.value \in Word
    BY <1>2, CommandIs DEF Edited, Word
  <2> QED BY <1>2, <2>1, FieldKeeps, LikeNamed
<1>3. CASE c.op = "use"
  <2> DEFINE lines == {i \in 1..Len(text) : Assigns(text[i], Current)}
             first == Attr(Current, c.name)
  <2>1. Edited(c, text) = ReplaceTop(text, Current, c.name) /\ c.name \in Word
    BY <1>3, CommandIs DEF Edited, Word
  <2>2. CASE lines = {}
    <3>1. Edited(c, text) = <<first>> \o text
      BY <2>1, <2>2 DEF ReplaceTop
    <3>2. first \in Line /\ ~ IsHeader(first)
      BY <2>1 DEF Attr, Line, IsHeader, Word
    <3> HIDE DEF first
    <3>3. <<first>> \in Seq(Line) /\ HeadersNamed(<<first>>)
      BY <3>2 DEF HeadersNamed
    <3> QED BY <1>3, <3>1, <3>3, JoinNamed
  <2>3. CASE lines # {}
    <3>1. Edited(c, text) = Set(text, {Min(lines)}, c.name)
      BY <2>1, <2>3 DEF ReplaceTop
    <3>2. Min(lines) \in lines
      <4>1. lines \in SUBSET Nat
        OBVIOUS
      <4> HIDE DEF lines
      <4> QED BY <2>3, <4>1, MinInSet
    <3> DEFINE v == c.name
               new == Set(text, {Min(lines)}, v)
    <3>3. \A i \in {Min(lines)} \cap (1..Len(text)) : Assigns(text[i], Current)
      BY <3>2
    <3>4. text \in Seq(Line) /\ HeadersNamed(text) /\ v \in Word
      BY <1>3, <2>1
    <3>5. new = Set(text, {Min(lines)}, v)
      OBVIOUS
    <3> HIDE DEF lines, v, new
    <3>6. /\ new \in Seq(Line) /\ Len(new) = Len(text)
          /\ \A i \in 1..Len(text) : Like({Current}, text[i], new[i])
      BY <3>3, <3>4, <3>5, SetIs
    <3>7. HeadersNamed(new)
      BY <3>4, <3>6, LikeNamed
    <3> QED BY <3>1, <3>7 DEF new, v
  <2> QED BY <2>2, <2>3
<1> QED
  BY <1>1, <1>2, <1>3, CommandIs

\* ... nor does what is left of a text.
LEMMA LeftNamed ==
    ASSUME NEW text \in Seq(Line), HeadersNamed(text), NEW tail \in Left(text)
    PROVE  HeadersNamed(tail)
<1>1. ASSUME NEW m \in 1..(Len(text) + 1) PROVE HeadersNamed(SubSeq(text, m, Len(text)))
  <2> DEFINE s == SubSeq(text, m, Len(text))
  <2>1. \A i \in 1..Len(s) : s[i] = text[m + i - 1] /\ m + i - 1 \in 1..Len(text)
    OBVIOUS
  <2> HIDE DEF s
  <2> QED BY <2>1 DEF HeadersNamed, s
<1>2. CASE tail = <<>>
  BY <1>2 DEF HeadersNamed
<1>3. CASE \E n \in 2..Len(text) : tail = SubSeq(text, n, Len(text))
  BY <1>1, <1>3
<1>4. CASE \E n \in 1..Len(text) :
             tail = <<Fragment(text[n])>> \o SubSeq(text, n + 1, Len(text))
  <2>1. PICK n \in 1..Len(text) :
               tail = <<Fragment(text[n])>> \o SubSeq(text, n + 1, Len(text))
    BY <1>4
  <2> DEFINE l == Fragment(text[n])
             s == SubSeq(text, n + 1, Len(text))
  <2>2. l \in Line /\ ~ IsHeader(l)
    <3>1. text[n] \in Line
      OBVIOUS
    <3> QED BY <3>1 DEF Fragment, Line, IsHeader, Word
  <2>3. n + 1 \in 1..(Len(text) + 1) /\ s \in Seq(Line)
    OBVIOUS
  <2>4. HeadersNamed(s)
    BY <1>1, <2>3
  <2> HIDE DEF l, s
  <2>5. <<l>> \in Seq(Line) /\ HeadersNamed(<<l>>)
    BY <2>2 DEF HeadersNamed
  <2> QED BY <2>1, <2>3, <2>4, <2>5, JoinNamed DEF l, s
<1> QED
  BY <1>2, <1>3, <1>4, Zenon DEF Left

\* So every connection of the file has a name of Names, whatever the editors do.
NamedInv ==
    /\ file # None => HeadersNamed(file)
    /\ \A e \in Editor : seen[e] # None => HeadersNamed(seen[e])

FilesInv == EditorInv /\ NamedInv

LEMMA FilesInit == InitConfig => FilesInv
BY EditorInit, RequestsAssumption DEF InitConfig, FilesInv, NamedInv

LEMMA FilesNext == FilesInv /\ [NextConfig]_config => FilesInv'
<1> SUFFICES ASSUME FilesInv, [NextConfig]_config PROVE NamedInv'
  BY EditorNext DEF FilesInv
<1> USE DEF NamedInv
<1>0. EditorInv /\ NamedInv
  BY DEF FilesInv
<1>1. CASE UNCHANGED config
  BY <1>0, <1>1 DEF config
<1>2. ASSUME NEW e \in Editor, NEW c \in Commands, Start(e, c) PROVE NamedInv'
  BY <1>0, <1>2 DEF Start, EditorInv
<1>3. ASSUME NEW e \in Editor, EditorStep(e) PROVE NamedInv'
  <2>1. CASE Stat(e) \/ LoadForUse(e) \/ Killed(e)
    BY <1>0, <2>1 DEF Stat, LoadForUse, Killed
  <2>2. CASE ReadFile(e)
    BY <1>0, <2>2 DEF ReadFile, EditorInv
  <2>3. CASE Truncate(e)
    <3>1. HeadersNamed(<<>>)
      BY DEF HeadersNamed
    <3>2. file' = <<>> /\ seen' = seen
      BY <2>3 DEF Truncate
    <3> QED BY <1>0, <3>1, <3>2
  <2>4. CASE WriteFile(e)
    <3> DEFINE text == Edited(todo[e], seen[e])
    <3>1. /\ todo[e] \in Commands /\ file \in Seq(Line) /\ HeadersNamed(file)
          /\ todo[e].op # "init" => seen[e] \in Seq(Line) /\ HeadersNamed(seen[e])
      BY <1>0, <2>4 DEF WriteFile, EditorInv, Rest
    <3>2. text \in Seq(Line) /\ HeadersNamed(text)
      BY <3>1, EditedTyped, EditedNamed
    <3>3. PICK tail \in Left(file) : file' = text \o tail
      BY <2>4 DEF WriteFile
    <3>4. tail \in Seq(Line) /\ HeadersNamed(tail)
      BY <3>1, LeftTyped, LeftNamed
    <3>5. seen' = seen
      BY <2>4 DEF WriteFile
    <3> HIDE DEF text
    <3>6. HeadersNamed(file')
      BY <3>2, <3>3, <3>4, JoinNamed
    <3> QED BY <1>0, <3>5, <3>6
  <2> QED BY <1>3, <2>1, <2>2, <2>3, <2>4 DEF EditorStep
<1> QED
  BY <1>1, <1>2, <1>3 DEF NextConfig

LEMMA FileNamed ==
    ASSUME FilesInv
    PROVE  Load(file) \in Config /\ Named(Load(file))
<1>1. file \in Seq(Line) \union {None} /\ Load(file) \in Config
  BY LoadTyped DEF FilesInv, EditorInv
<1>2. CASE file = None
  BY <1>1, <1>2 DEF Load, NoConfig, Named
<1>3. CASE file # None
  BY <1>1, <1>3, LoadNamed DEF FilesInv, NamedInv
<1> QED
  BY <1>2, <1>3

\* The inductive invariant of the types.
FlowTyped ==
    /\ server \in Config \union {None}
    /\ server # None => Named(server)
    /\ pc \in [Worker -> {"idle", "lookup", "token", "ask", "put", "shown", "failed"}]
    /\ req \in [Worker -> Request \union {None}]
    /\ conn \in [Worker -> Conn \union {None}]
    /\ shown \in [Worker -> Answer \union {None}]
    /\ store \in [Key -> Answer \union {None}]
    /\ \A w \in Worker :
         /\ conn[w] # None => conn[w].name \in Names \union {"(cli)"}
         /\ pc[w] \in {"lookup", "token", "ask", "put", "shown"} => conn[w] # None
         /\ pc[w] \in {"idle", "lookup", "token", "ask", "failed"} => shown[w] = None
         /\ pc[w] \in {"put", "shown"} => shown[w] # None
         /\ pc[w] = "idle" <=> req[w] = None

\* A connection says where its answers come from.
LEMMA OriginTyped ==
    ASSUME NEW c \in Conn
    PROVE  Origin(c) \in Answer
<1>1. /\ c.type \in Word /\ c.attrs["cluster"] \in Word
      /\ c.attrs["database"] \in Word /\ c.attrs["path"] \in Word
  BY DEF Conn, Field
<1>2. /\ <<c.attrs["cluster"], c.attrs["database"]>> \in Seq(Word)
      /\ <<c.attrs["path"]>> \in Seq(Word)
  BY <1>1
<1> QED
  BY <1>1, <1>2 DEF Origin, Answer

\* A worker at work asks under a key of the cache.
LEMMA KeyTyped ==
    ASSUME FlowTyped, NEW w \in Worker, conn[w] # None, pc[w] # "idle"
    PROVE  KeyOf(conn[w], req[w].query) \in Key
<1>1. req[w] \in Request /\ conn[w].name \in Names \union {"(cli)"}
  BY DEF FlowTyped
<1>2. req[w].query \in Query
  BY <1>1 DEF Request
<1> QED
  BY <1>1, <1>2 DEF KeyOf, Key

\* The invariant holds at first, ...
LEMMA FlowInit == Init => FilesInv /\ FlowTyped
BY FilesInit, NotNone DEF Init, FlowTyped, Cache!Init

\* The connection a command starts from.
Chosen(cfg, name) == IF name # Empty THEN FindConnection(cfg, name) ELSE DefaultConn(cfg)

\* What a worker is given to ask with.
LEMMA ResolvedNamed ==
    ASSUME NEW cfg \in Config, Named(cfg), NEW name, NEW flags \in Flags, NEW env \in Env
    PROVE  /\ Resolve(Chosen(cfg, name), flags, env) \in Conn
           /\ Resolve(Chosen(cfg, name), flags, env).name \in Names \union {"(cli)"}
<1> DEFINE c == Chosen(cfg, name)
<1>1. c \in Conn \union {None} /\ (c # None => c.name \in Names)
  BY FindTyped, DefaultIs DEF Named, Chosen
<1>2. flags \in Override /\ env \in Override
  BY RequestsAssumption
<1> HIDE DEF c
<1>3. Resolve(c, flags, env) \in Conn
  BY <1>1, <1>2, ResolveIs
<1>4. Resolve(c, flags, env).name \in Names \union {"(cli)"}
  BY <1>1, <1>2, ResolveIs DEF Or
<1> QED
  BY <1>3, <1>4 DEF c

\* ... when a command starts, ...
LEMMA RunTyped ==
    ASSUME FilesInv, FlowTyped, NEW w \in Command, NEW name \in Names \union {Empty},
           NEW q \in Query, NEW flags \in Flags, NEW env \in Env, NEW mode \in Modes,
           Run(w, name, q, flags, env, mode)
    PROVE  FlowTyped'
<1> DEFINE c == Chosen(Load(file), name)
           r == [name |-> name, query |-> q, mode |-> mode]
           d == Resolve(c, flags, env)
<1>1. w \in Worker /\ r \in Request /\ r # None
  BY NotNone DEF Worker, Request
<1>2. d \in Conn /\ d.name \in Names \union {"(cli)"} /\ d # None
  <2>1. Load(file) \in Config /\ Named(Load(file))
    BY FileNamed
  <2>2. d \in Conn /\ d.name \in Names \union {"(cli)"}
    BY <2>1, ResolvedNamed
  <2> HIDE DEF d
  <2> QED BY <2>2, NoneAssumption
<1>3. /\ pc[w] = "idle" /\ req' = [req EXCEPT ![w] = r]
      /\ UNCHANGED <<server, store, shown>>
      /\ \/ pc' = [pc EXCEPT ![w] = "failed"] /\ conn' = conn
         \/ pc' = [pc EXCEPT ![w] = "lookup"] /\ conn' = [conn EXCEPT ![w] = d]
         \/ pc' = [pc EXCEPT ![w] = "token"] /\ conn' = [conn EXCEPT ![w] = d]
  BY DEF Run, Goto, config, Chosen
<1> HIDE DEF r, d
<1> QED
  BY <1>1, <1>2, <1>3 DEF FlowTyped, Named

\* ... when a request comes, ...
LEMMA HandleTyped ==
    ASSUME FlowTyped, NEW w \in Slot, NEW name \in Names, NEW q \in Query, Handle(w, name, q)
    PROVE  FlowTyped'
<1> DEFINE named == FindConnection(server, name)
           c == IF named # None THEN named ELSE DefaultConn(server)
           r == [name |-> name, query |-> q, mode |-> "cached"]
<1>1. w \in Worker /\ r \in Request /\ r # None
  BY NotNone DEF Worker, Request
<1>2. server \in Config /\ Named(server)
  BY DEF FlowTyped, Handle
<1>3. c \in Conn \union {None} /\ (c # None => c.name \in Names)
  BY <1>2, FindTyped, DefaultIs DEF Named
<1>4. /\ pc[w] = "idle" /\ req' = [req EXCEPT ![w] = r]
      /\ UNCHANGED <<server, store, shown>>
      /\ \/ pc' = [pc EXCEPT ![w] = "failed"] /\ conn' = conn
         \/ c # None /\ pc' = [pc EXCEPT ![w] = "lookup"] /\ conn' = [conn EXCEPT ![w] = c]
  BY DEF Handle, Goto, config
<1> HIDE DEF r, c
<1> QED
  BY <1>1, <1>3, <1>4 DEF FlowTyped, Named

\* ... and after each step of either.
LEMMA StepsTyped ==
    ASSUME FlowTyped, NEW w \in Worker, Steps(w)
    PROVE  FlowTyped'
<1> USE DEF Goto
<1>1. CASE Hit(w)
  <2> DEFINE k == KeyOf(conn[w], req[w].query)
  <2>1. conn[w] # None /\ pc[w] = "lookup" /\ k \in Key
    BY <1>1, KeyTyped DEF Hit, FlowTyped
  <2>2. /\ store[k] # None /\ shown' = [shown EXCEPT ![w] = store[k]] /\ store' = store
        /\ pc' = [pc EXCEPT ![w] = "shown"] /\ UNCHANGED <<server, req, conn>>
    BY <1>1 DEF Hit, Cache!Lookup
  <2>3. store[k] \in Answer
    BY <2>1, <2>2 DEF FlowTyped
  <2> HIDE DEF k
  <2> QED BY <2>1, <2>2, <2>3 DEF FlowTyped, Named
<1>2. CASE Miss(w)
  BY <1>2 DEF Miss, FlowTyped, Named
<1>3. CASE Acquire(w)
  BY <1>3 DEF Acquire, FlowTyped, Named
<1>4. CASE Ask(w)
  <2>1. conn[w] \in Conn
    BY <1>4 DEF Ask, FlowTyped
  <2>2. Origin(conn[w]) \in Answer \ {None}
    BY <2>1, OriginTyped, NotNone
  <2>3. /\ pc[w] = "ask" /\ UNCHANGED <<server, req, conn, store>>
        /\ \/ /\ shown' = [shown EXCEPT ![w] = Origin(conn[w])]
              /\ \/ pc' = [pc EXCEPT ![w] = "shown"]
                 \/ pc' = [pc EXCEPT ![w] = "put"]
           \/ shown' = shown /\ pc' = [pc EXCEPT ![w] = "failed"]
    BY <1>4 DEF Ask, Show
  <2> QED BY <2>2, <2>3 DEF FlowTyped, Named
<1>5. CASE Put(w)
  <2> DEFINE k == KeyOf(conn[w], req[w].query)
  <2>1. conn[w] # None /\ pc[w] = "put" /\ shown[w] \in Answer /\ k \in Key
    BY <1>5, KeyTyped DEF Put, FlowTyped
  <2>2. /\ store' = [store EXCEPT ![k] = shown[w]] \/ store' = store
        /\ pc' = [pc EXCEPT ![w] = "shown"] /\ UNCHANGED <<server, req, conn, shown>>
    BY <1>5 DEF Put, Cache!Store
  <2> HIDE DEF k
  <2> QED BY <2>1, <2>2 DEF FlowTyped, Named
<1>6. CASE Done(w)
  BY <1>6 DEF Done, Cache!Forget, FlowTyped, Named
<1> QED
  BY <1>1, <1>2, <1>3, <1>4, <1>5, <1>6 DEF Steps

\* It is inductive.
LEMMA FlowNext == FilesInv /\ FlowTyped /\ [Next]_vars => FilesInv' /\ FlowTyped'
<1> SUFFICES ASSUME FilesInv, FlowTyped, [Next]_vars PROVE FilesInv' /\ FlowTyped'
  OBVIOUS
<1>1. CASE UNCHANGED vars
  BY <1>1, FilesNext DEF vars, flow, FlowTyped, Named
<1>2. CASE NextConfig /\ UNCHANGED <<server, flow, store, shown>>
  BY <1>2, FilesNext DEF flow, FlowTyped, Named
<1>3. CASE Serve
  <2>1. UNCHANGED config /\ server' = Load(file) /\ UNCHANGED <<flow, store, shown>>
    BY <1>3 DEF Serve
  <2> QED BY <2>1, FilesNext, FileNamed DEF flow, FlowTyped, Named
<1>4. CASE Clear
  <2>1. store' = [k \in Key |-> None] /\ UNCHANGED <<config, server, flow, shown>>
    BY <1>4 DEF Clear, Cache!Evict
  <2> QED BY <2>1, FilesNext DEF flow, FlowTyped, Named
<1>5. ASSUME NEW w \in Worker, Steps(w) PROVE FilesInv' /\ FlowTyped'
  <2>1. UNCHANGED config
    BY <1>5 DEF Steps, Hit, Miss, Acquire, Ask, Put, Done
  <2> QED BY <1>5, <2>1, FilesNext, StepsTyped
<1>6. ASSUME NEW w \in Command, NEW name \in Names \union {Empty}, NEW q \in Query,
             NEW flags \in Flags, NEW env \in Env, NEW mode \in Modes,
             Run(w, name, q, flags, env, mode)
      PROVE  FilesInv' /\ FlowTyped'
  <2>1. UNCHANGED config
    BY <1>6 DEF Run
  <2> QED BY <1>6, <2>1, FilesNext, RunTyped
<1>7. ASSUME NEW w \in Slot, NEW name \in Names, NEW q \in Query, Handle(w, name, q)
      PROVE  FilesInv' /\ FlowTyped'
  <2>1. UNCHANGED config
    BY <1>7 DEF Handle
  <2> QED BY <1>7, <2>1, FilesNext, HandleTyped
<1> QED
  BY <1>1, <1>2, <1>3, <1>4, <1>5, <1>6, <1>7 DEF Next

\* The workers' state fits together: who looks up, asks or stores has a connection,
\* and a worker holds an answer from the backend or the cache to the screen and at
\* no other time.
THEOREM FlowTypes == Spec => []FlowTypeOK
<1>1. FilesInv /\ FlowTyped => FlowTypeOK
  BY DEF FilesInv, EditorInv, TypeOK, FlowTyped, FlowTypeOK
<1> QED
  BY <1>1, FlowInit, FlowNext, PTL DEF Spec

----------------------------------------------------------------------------
(* When the cache answers for the configuration                            *)

\* What says where a connection reads.
Place == {"cluster", "database", "path"}
\* The configurations the file may start with.
Homes == {Load(t) : t \in (Texts \union {Default}) \ {None}}

\* A connection says all of where it reads: the environment adds nothing.
Complete(c) ==
    /\ c.type # Empty
    /\ c.name \notin {Empty, "(cli)"}
    /\ c.type = "kusto" =>
         \A env \in Env : /\ c.attrs["cluster"] # Empty \/ env.cluster = Empty
                          /\ c.attrs["database"] # Empty \/ env.database = Empty

\* Nobody overrides or changes where a connection reads.
Steady ==
    /\ \A flags \in Flags : flags.cluster = Empty /\ flags.database = Empty
    /\ \A e, f \in Env : e = f
    /\ \A s \in Sets : s.field \notin Place
    /\ \A h \in Homes : \A i \in DOMAIN h.conns : Complete(h.conns[i])

\* Two configurations with the same connections in the same places.
SamePlaces(c, d) ==
    /\ Len(c.conns) = Len(d.conns)
    /\ \A i \in 1..Len(c.conns) :
         /\ c.conns[i].type = d.conns[i].type /\ c.conns[i].name = d.conns[i].name
         /\ \A f \in Place : c.conns[i].attrs[f] = d.conns[i].attrs[f]

\* A configuration as the file of h gives it: that of h, or a truncated one.
At(h, c) == Len(c.conns) = 0 \/ SamePlaces(h, c)

\* Where an answer kept under a name may come from.
Targets(h, name) ==
    IF name = "(cli)" THEN {Origin(Resolve(None, flags, env)) : flags \in Flags, env \in Env}
    ELSE {Origin(FindConnection(h, name))}

\* They are configurations.
LEMMA HomeTyped ==
    ASSUME NEW h \in Homes
    PROVE  h \in Config
BY TextsAssumption, LoadTyped DEF Homes

\* A connection found in a configuration like h is one of h, complete, in the
\* same place.
LEMMA Agree ==
    ASSUME Steady, NEW h \in Homes, NEW c \in Config, At(h, c),
           NEW i \in 1..Len(c.conns)
    PROVE  /\ Complete(c.conns[i])
           /\ \A f \in Place : c.conns[i].attrs[f] = h.conns[i].attrs[f]
           /\ c.conns[i].type = h.conns[i].type /\ c.conns[i].name = h.conns[i].name
           /\ Len(h.conns) = Len(c.conns)
<1>1. h \in Config /\ Len(c.conns) \in Nat /\ DOMAIN h.conns = 1..Len(h.conns)
  BY HomeTyped DEF Config
<1>2. SamePlaces(h, c)
  BY <1>1 DEF At
<1>3. /\ Len(h.conns) = Len(c.conns)
      /\ c.conns[i].type = h.conns[i].type /\ c.conns[i].name = h.conns[i].name
      /\ \A f \in Place : c.conns[i].attrs[f] = h.conns[i].attrs[f]
  BY <1>2 DEF SamePlaces
<1>4. Complete(h.conns[i])
  BY <1>1, <1>3 DEF Steady
<1>5. Complete(c.conns[i])
  BY <1>3, <1>4 DEF Complete, Place
<1> QED
  BY <1>3, <1>5

\* The place of a connection is what its origin is made of.
LEMMA SameOrigin ==
    ASSUME NEW c, NEW d, c.type = d.type, \A f \in Place : c.attrs[f] = d.attrs[f]
    PROVE  Origin(c) = Origin(d)
<1>1. /\ c.attrs["cluster"] = d.attrs["cluster"] /\ c.attrs["database"] = d.attrs["database"]
      /\ c.attrs["path"] = d.attrs["path"]
  BY DEF Place
<1> QED
  BY <1>1 DEF Origin

\* A name found in such a configuration stands for a place of h.
LEMMA FoundAtHome ==
    ASSUME Steady, NEW h \in Homes, NEW c \in Config, At(h, c), NEW name,
           FindConnection(c, name) # None
    PROVE  /\ FindConnection(c, name).name = name
           /\ Complete(FindConnection(c, name))
           /\ Origin(FindConnection(c, name)) \in Targets(h, name)
<1>1. PICK i \in 1..Len(c.conns) :
        /\ FindConnection(c, name) = c.conns[i] /\ c.conns[i].name = name
        /\ \A j \in 1..Len(c.conns) : c.conns[j].name = name => i <= j
  BY FindIs
<1>2. /\ Complete(c.conns[i]) /\ Len(h.conns) = Len(c.conns)
      /\ \A j \in 1..Len(c.conns) : c.conns[j].name = h.conns[j].name
      /\ c.conns[i].type = h.conns[i].type
      /\ \A f \in Place : c.conns[i].attrs[f] = h.conns[i].attrs[f]
  BY Agree
<1>3. h \in Config
  BY HomeTyped
<1>4. FindConnection(h, name) = h.conns[i]
  <2>1. PICK j \in 1..Len(h.conns) :
          /\ FindConnection(h, name) = h.conns[j] /\ h.conns[j].name = name
          /\ \A k \in 1..Len(h.conns) : h.conns[k].name = name => j <= k
    BY <1>1, <1>2, <1>3, FindIs
  <2>2. i <= j /\ j <= i
    BY <1>1, <1>2, <2>1
  <2>3. i = j
    BY <2>2
  <2> QED BY <2>1, <2>3
<1>5. Origin(c.conns[i]) = Origin(h.conns[i])
  BY <1>2, SameOrigin
<1>6. name # "(cli)"
  BY <1>1, <1>2 DEF Complete
<1> QED
  BY <1>1, <1>2, <1>4, <1>5, <1>6 DEF Targets

\* There is one place to answer from.
LEMMA OneTarget ==
    ASSUME Steady, NEW h, NEW name, NEW a \in Targets(h, name), NEW b \in Targets(h, name)
    PROVE  a = b
<1>1. CASE name # "(cli)"
  BY <1>1 DEF Targets
<1>2. CASE name = "(cli)"
  <2>1. PICK f \in Flags, e \in Env : a = Origin(Resolve(None, f, e))
    BY <1>2 DEF Targets
  <2>2. PICK g \in Flags, d \in Env : b = Origin(Resolve(None, g, d))
    BY <1>2 DEF Targets
  <2>3. f = g
    <3>1. f \in Override /\ g \in Override
      BY RequestsAssumption
    <3>2. f.cluster = g.cluster /\ f.database = g.database
      BY DEF Steady
    <3> QED BY <3>1, <3>2 DEF Override
  <2>4. e = d
    BY DEF Steady
  <2> QED BY <2>1, <2>2, <2>3, <2>4
<1> QED
  BY <1>1, <1>2

\* Without overrides, a complete connection is resolved to where it is.
LEMMA ResolvedStays ==
    ASSUME Steady, NEW c \in Conn, Complete(c), NEW flags \in Flags, NEW env \in Env
    PROVE  /\ Resolve(c, flags, env).name = c.name
           /\ Origin(Resolve(c, flags, env)) = Origin(c)
<1> DEFINE d == Resolve(c, flags, env)
<1>1. /\ flags \in Override /\ env \in Override /\ c # None
      /\ flags.cluster = Empty /\ flags.database = Empty
  BY RequestsAssumption, NoneAssumption DEF Steady
<1>2. /\ d.name = Or(c.name, "(cli)") /\ d.type = Or(c.type, "kusto")
      /\ d.attrs["cluster"] = Or(flags.cluster, Or(c.attrs["cluster"], env.cluster))
      /\ d.attrs["database"] = Or(flags.database, Or(c.attrs["database"], env.database))
      /\ d.attrs["path"] = c.attrs["path"]
  BY <1>1, ResolveIs
<1> HIDE DEF d
<1>3. d.name = c.name /\ d.type = c.type
  BY <1>2 DEF Or, Complete
<1>4. ASSUME c.type = "kusto"
      PROVE  d.attrs["cluster"] = c.attrs["cluster"] /\ d.attrs["database"] = c.attrs["database"]
  BY <1>1, <1>2, <1>4 DEF Or, Complete
<1>5. Origin(d) = Origin(c)
  BY <1>2, <1>3, <1>4 DEF Origin
<1> QED
  BY <1>3, <1>5 DEF d

\* So does the connection looked up, or the default one.
LEMMA ChosenAtHome ==
    ASSUME Steady, NEW h \in Homes, NEW c \in Config, At(h, c), NEW d,
           \/ \E name : d = FindConnection(c, name)
           \/ d = DefaultConn(c)
    PROVE  /\ d \in Conn \union {None}
           /\ d # None => Complete(d) /\ Origin(d) \in Targets(h, d.name)
<1>1. CASE \E name : d = FindConnection(c, name)
  BY <1>1, FindTyped, FoundAtHome
<1>2. CASE d = DefaultConn(c) /\ d # None
  <2>1. d \in Conn /\ d = FindConnection(c, d.name)
    BY <1>2, DefaultIs
  <2> QED BY <1>2, <2>1, FoundAtHome
<1> QED
  BY <1>1, <1>2

\* So does what a command resolves it to.
LEMMA ResolvedAtHome ==
    ASSUME Steady, NEW h \in Homes, NEW c \in Config, At(h, c), NEW name,
           NEW flags \in Flags, NEW env \in Env
    PROVE  Origin(Resolve(Chosen(c, name), flags, env))
             \in Targets(h, Resolve(Chosen(c, name), flags, env).name)
<1> DEFINE d == Chosen(c, name)
<1>1. d = FindConnection(c, name) \/ d = DefaultConn(c)
  BY DEF Chosen
<1> HIDE DEF d
<1>2. d \in Conn \union {None} /\ (d # None => Complete(d) /\ Origin(d) \in Targets(h, d.name))
  BY <1>1, ChosenAtHome
<1>3. CASE d # None
  <2>1. d \in Conn
    BY <1>2, <1>3
  <2> QED BY <1>2, <1>3, <2>1, ResolvedStays DEF d
<1>4. CASE d = None
  <2>1. Resolve(None, flags, env).name = "(cli)"
    BY RequestsAssumption, ResolveIs
  <2> QED BY <1>4, <2>1 DEF Targets, d
<1> QED
  BY <1>3, <1>4

\* A change of other fields leaves every place as it is.
LEMMA StaysAtHome ==
    ASSUME NEW F, F \cap Place = {}, NEW h, NEW c, NEW d, At(h, c), Same(F, c, d)
    PROVE  At(h, d)
<1>1. Place \subseteq Field \ F
  BY DEF Place, Field
<1> QED
  BY <1>1 DEF At, SamePlaces, Same

\* An edit under Steady is such a change.
LEMMA EditedAtHome ==
    ASSUME Steady, NEW h \in Homes, NEW c \in Commands, c.op # "init",
           NEW text \in Seq(Line), At(h, Load(text))
    PROVE  At(h, Load(Edited(c, text)))
<1>1. Touched(c) \cap Place = {}
  <2>1. CASE c.op = "use"
    BY <2>1 DEF Touched, Place, Current
  <2>2. CASE c.op = "set"
    <3>1. c.field \notin Place
      BY <2>2 DEF Commands, Steady
    <3> QED BY <2>2, <3>1 DEF Touched
  <2> QED BY <2>1, <2>2, CommandIs
<1> QED
  BY <1>1, EditKeeps, StaysAtHome

\* A configuration is like itself, ...
LEMMA AtItself == \A h : At(h, h)
BY DEF At, SamePlaces

\* ... and the empty one like any.
LEMMA EmptyAtHome == \A h : At(h, Load(None)) /\ At(h, Load(<<>>))
<1>1. Len(Load(None).conns) = 0
  BY DEF Load, NoConfig
<1>2. Load(<<>>) = NoConfig
  <2> DEFINE no == <<>>
  <2>1. no \in Seq(Line) /\ Len(no) = 0
    OBVIOUS
  <2> HIDE DEF no
  <2>2. Decoded(no)[Len(no)] = NoConfig
    BY <2>1, DecodedIs
  <2>3. Load(no) = NoConfig
    BY <2>1, <2>2, LoadIs
  <2> QED BY <2>3 DEF no
<1> QED
  BY <1>1, <1>2 DEF At, NoConfig

\* The file, and what editors read of it, are of h; `config init` writes the file
\* only where there was none.
FileAtHome(h) ==
    /\ At(h, Load(file))
    /\ file = None => h = Load(Default)
    /\ \A e \in Editor :
         /\ seen[e] # None => At(h, Load(seen[e]))
         /\ step[e] \in {"truncate", "write"} /\ todo[e].op = "init" => h = Load(Default)

\* So are the server's configuration, the resolved connections and the cache;
\* an answer comes from the place of its request's connection.
AnswersAtHome(h) ==
    /\ server # None => At(h, server)
    /\ \A w \in Worker :
         /\ conn[w] # None => Origin(conn[w]) \in Targets(h, conn[w].name)
         /\ shown[w] # None => conn[w] # None /\ shown[w] = Origin(conn[w])
    /\ \A k \in Key : store[k] # None => store[k] \in Targets(h, k[1])

\* The inductive invariant, for one configuration h that never changes.
HomeInv(h) == ~ mixed => FileAtHome(h) /\ AnswersAtHome(h)

\* There is such an h at first, ...
LEMMA HomeInit ==
    ASSUME Init
    PROVE  \E h \in Homes : HomeInv(h)
<1> DEFINE h == IF file = None THEN Load(Default) ELSE Load(file)
<1>1. h \in Homes
  BY TextsAssumption, NoneAssumption DEF Init, InitConfig, Homes
<1>2. At(h, Load(file))
  BY AtItself, EmptyAtHome
<1>3. file = None => h = Load(Default)
  OBVIOUS
<1> HIDE DEF h
<1>4. FileAtHome(h) /\ AnswersAtHome(h)
  BY <1>2, <1>3 DEF HomeInv, FileAtHome, AnswersAtHome, Init, InitConfig, Cache!Init
<1> QED
  BY <1>1, <1>4 DEF HomeInv

\* ... the editors keep to it, ...
LEMMA FileStays ==
    ASSUME Steady, EditorInv, NEW h \in Homes, ~ mixed, FileAtHome(h), NextConfig, ~ mixed'
    PROVE  FileAtHome(h)'
<1> USE DEF EditorInv, FileAtHome, To, Rest
<1>1. ASSUME NEW e \in Editor, NEW c \in Commands, Start(e, c) PROVE FileAtHome(h)'
  <2>1. step'[e] \notin {"truncate", "write"}
    <3>1. c.op \in {"init", "use", "set"}
      BY CommandIs
    <3>2. step'[e] = CASE c.op = "init" -> "stat" [] c.op = "use" -> "load" [] c.op = "set" -> "read"
      BY <1>1 DEF Start
    <3> QED BY <3>1, <3>2
  <2> QED BY <1>1, <2>1 DEF Start
<1>2. ASSUME NEW e \in Editor, EditorStep(e) PROVE FileAtHome(h)'
  <2>1. CASE Stat(e)
    BY <2>1 DEF Stat
  <2>2. CASE LoadForUse(e)
    BY <2>2 DEF LoadForUse
  <2>3. CASE ReadFile(e)
    <3>1. /\ seen'[e] = file /\ todo[e].op # "init" /\ todo' = todo /\ file' = file
          /\ \A f \in Editor \ {e} : seen'[f] = seen[f] /\ step'[f] = step[f]
      BY <2>3 DEF ReadFile
    <3> QED BY <3>1
  <2>4. CASE Truncate(e)
    <3>1. file' = <<>> /\ file' # None /\ At(h, Load(file'))
      BY <2>4, EmptyAtHome, EmptyKept, NoneAssumption DEF Truncate
    <3> QED BY <2>4, <3>1 DEF Truncate
  <2>5. CASE WriteFile(e)
    <3>1. /\ todo[e] \in Commands /\ mixed \in BOOLEAN
          /\ todo[e].op # "init" => seen[e] \in Seq(Line) /\ seen[e] # None
      BY <2>5 DEF WriteFile
    <3>2. Edited(todo[e], seen[e]) \in Seq(Line)
      BY <3>1, EditedTyped
    <3>3. file' = Edited(todo[e], seen[e]) /\ file' # None
      BY <2>5, <3>1, <3>2, Written, NoneAssumption
    <3>4. At(h, Load(file'))
      <4>1. CASE todo[e].op = "init"
        <5>1. file' = Default /\ h = Load(Default)
          BY <2>5, <3>3, <4>1 DEF WriteFile, Edited
        <5> QED BY <5>1, AtItself
      <4>2. CASE todo[e].op # "init"
        <5>1. seen[e] \in Seq(Line) /\ At(h, Load(seen[e]))
          BY <3>1, <4>2
        <5> QED BY <3>1, <3>3, <4>2, <5>1, EditedAtHome
      <4> QED BY <4>1, <4>2
    <3> QED BY <2>5, <3>3, <3>4 DEF WriteFile
  <2>6. CASE Killed(e)
    BY <2>6 DEF Killed
  <2> QED BY <1>2, <2>1, <2>2, <2>3, <2>4, <2>5, <2>6 DEF EditorStep
<1> QED
  BY <1>1, <1>2 DEF NextConfig

\* ... so does a command that starts, ...
LEMMA RunAtHome ==
    ASSUME Steady, FilesInv, FlowTyped, NEW h \in Homes, FileAtHome(h), AnswersAtHome(h),
           NEW w \in Command, NEW name \in Names \union {Empty},
           NEW q \in Query, NEW flags \in Flags, NEW env \in Env, NEW mode \in Modes,
           Run(w, name, q, flags, env, mode)
    PROVE  AnswersAtHome(h)'
<1> DEFINE d == Resolve(Chosen(Load(file), name), flags, env)
<1>1. Origin(d) \in Targets(h, d.name) /\ d \in Conn
  BY FileNamed, ResolvedAtHome, ResolvedNamed DEF FileAtHome
<1>2. w \in Worker /\ shown[w] = None
  BY DEF Worker, Run, FlowTyped
<1>3. /\ UNCHANGED <<server, store, shown>>
      /\ conn' = conn \/ conn' = [conn EXCEPT ![w] = d]
  BY DEF Run, Chosen
<1> HIDE DEF d
<1> QED
  BY <1>1, <1>2, <1>3 DEF AnswersAtHome, FlowTyped

\* ... a request that comes, ...
LEMMA HandleAtHome ==
    ASSUME Steady, FlowTyped, NEW h \in Homes, AnswersAtHome(h),
           NEW w \in Slot, NEW name \in Names, NEW q \in Query, Handle(w, name, q)
    PROVE  AnswersAtHome(h)'
<1> DEFINE c == IF FindConnection(server, name) # None THEN FindConnection(server, name)
                ELSE DefaultConn(server)
<1>1. server \in Config /\ At(h, server)
  BY DEF Handle, FlowTyped, AnswersAtHome
<1>2. c # None => Origin(c) \in Targets(h, c.name)
  BY <1>1, ChosenAtHome
<1>3. w \in Worker /\ shown[w] = None
  BY DEF Worker, Handle, FlowTyped
<1>4. /\ UNCHANGED <<server, store, shown>>
      /\ conn' = conn \/ (c # None /\ conn' = [conn EXCEPT ![w] = c])
  BY DEF Handle
<1> HIDE DEF c
<1> QED
  BY <1>2, <1>3, <1>4 DEF AnswersAtHome, FlowTyped

\* ... and each step of either.
LEMMA StepsAtHome ==
    ASSUME Steady, FlowTyped, NEW h \in Homes, AnswersAtHome(h), NEW w \in Worker, Steps(w)
    PROVE  AnswersAtHome(h)'
<1> DEFINE k == KeyOf(conn[w], req[w].query)
<1>0. ASSUME pc[w] \in {"lookup", "put"}
      PROVE  conn[w] # None /\ k \in Key /\ k[1] = conn[w].name
  <2>1. conn[w] # None /\ pc[w] # "idle"
    BY <1>0 DEF FlowTyped
  <2> QED BY <2>1, KeyTyped DEF KeyOf
<1>1. CASE Hit(w)
  <2>1. /\ store[k] # None /\ shown' = [shown EXCEPT ![w] = store[k]]
        /\ UNCHANGED <<server, conn, store>>
    BY <1>1 DEF Hit, Cache!Lookup
  <2>2. /\ conn[w] # None /\ store[k] \in Targets(h, conn[w].name)
        /\ Origin(conn[w]) \in Targets(h, conn[w].name)
    BY <1>0, <1>1, <2>1 DEF Hit, AnswersAtHome
  <2>3. store[k] = Origin(conn[w])
    BY <2>2, OneTarget
  <2> HIDE DEF k
  <2> QED BY <2>1, <2>2, <2>3 DEF AnswersAtHome, FlowTyped
<1>2. CASE Miss(w) \/ Acquire(w)
  BY <1>2 DEF Miss, Acquire, AnswersAtHome
<1>3. CASE Ask(w)
  <2>1. /\ UNCHANGED <<server, conn, store>>
        /\ shown' = shown \/ shown' = [shown EXCEPT ![w] = Origin(conn[w])]
        /\ conn[w] # None
    BY <1>3 DEF Ask, Show, FlowTyped
  <2> QED BY <2>1 DEF AnswersAtHome, FlowTyped
<1>4. CASE Put(w)
  <2>1. /\ UNCHANGED <<server, conn, shown>>
        /\ store' = store \/ store' = [store EXCEPT ![k] = shown[w]]
    BY <1>4 DEF Put, Cache!Store
  <2>2. k \in Key /\ k[1] = conn[w].name /\ shown[w] \in Targets(h, conn[w].name)
    BY <1>0, <1>4 DEF Put, FlowTyped, AnswersAtHome
  <2> HIDE DEF k
  <2> QED BY <2>1, <2>2 DEF AnswersAtHome, FlowTyped
<1>5. CASE Done(w)
  BY <1>5 DEF Done, Cache!Forget, AnswersAtHome, FlowTyped
<1> QED
  BY <1>1, <1>2, <1>3, <1>4, <1>5 DEF Steps

\* What has been written over a longer text has been for good.
LEMMA MixedStays ==
    ASSUME EditorInv, [Next]_vars, mixed
    PROVE  mixed'
<1>1. CASE UNCHANGED config
  BY <1>1 DEF config
<1>2. ASSUME NEW e \in Editor, NEW c \in Commands, Start(e, c) PROVE mixed'
  BY <1>2 DEF Start
<1>3. ASSUME NEW e \in Editor, EditorStep(e) PROVE mixed'
  <2>1. mixed' = mixed \/ WriteFile(e)
    BY <1>3 DEF EditorStep, Stat, LoadForUse, ReadFile, Truncate, Killed
  <2>2. WriteFile(e) => mixed'
    BY DEF WriteFile
  <2> QED BY <2>1, <2>2
<1>4. CASE ~ UNCHANGED config
  <2>1. NextConfig
    BY <1>4 DEF vars, Next, Serve, Clear, Steps, Hit, Miss, Acquire, Ask, Put, Done, Run, Handle
  <2> QED BY <1>2, <1>3, <2>1 DEF NextConfig
<1> QED
  BY <1>1, <1>4

\* It is inductive.
LEMMA HomeNext ==
    ASSUME Steady, FilesInv, FlowTyped, NEW h \in Homes, HomeInv(h), [Next]_vars
    PROVE  HomeInv(h)'
<1> SUFFICES ASSUME ~ mixed' PROVE FileAtHome(h)' /\ AnswersAtHome(h)'
  BY DEF HomeInv
<1>0. ~ mixed /\ FileAtHome(h) /\ AnswersAtHome(h) /\ EditorInv
  <2>1. ~ mixed
    BY MixedStays DEF FilesInv
  <2> QED BY <2>1 DEF HomeInv, FilesInv
<1>1. CASE UNCHANGED vars
  <2>1. UNCHANGED config /\ UNCHANGED <<server, conn, store, shown>>
    BY <1>1 DEF vars, flow
  <2>2. FileAtHome(h)'
    BY <1>0, <2>1 DEF config, FileAtHome
  <2>3. AnswersAtHome(h)'
    BY <1>0, <2>1 DEF AnswersAtHome
  <2> QED BY <2>2, <2>3
<1>2. CASE NextConfig /\ UNCHANGED <<server, flow, store, shown>>
  <2>1. FileAtHome(h)'
    BY <1>0, <1>2, FileStays
  <2>2. AnswersAtHome(h)'
    BY <1>0, <1>2 DEF flow, AnswersAtHome
  <2> QED BY <2>1, <2>2
<1>3. CASE UNCHANGED config
  <2>1. FileAtHome(h)'
    BY <1>0, <1>3 DEF config, FileAtHome
  <2>2. CASE Serve
    <3>1. server' = Load(file) /\ UNCHANGED <<conn, store, shown>> /\ At(h, Load(file))
      BY <1>0, <2>2 DEF Serve, flow, FileAtHome
    <3>2. AnswersAtHome(h)'
      BY <1>0, <3>1 DEF AnswersAtHome
    <3> QED BY <2>1, <3>2
  <2>3. CASE Clear
    <3>1. store' = [k \in Key |-> None] /\ UNCHANGED <<server, flow, shown>>
      BY <2>3 DEF Clear, Cache!Evict
    <3> QED BY <1>0, <2>1, <3>1 DEF flow, AnswersAtHome
  <2>4. ASSUME NEW w \in Worker, Steps(w) PROVE AnswersAtHome(h)'
    BY <1>0, <2>4, StepsAtHome
  <2>5. ASSUME NEW w \in Command, NEW name \in Names \union {Empty}, NEW q \in Query,
               NEW flags \in Flags, NEW env \in Env, NEW mode \in Modes,
               Run(w, name, q, flags, env, mode)
        PROVE  AnswersAtHome(h)'
    BY <1>0, <2>5, RunAtHome
  <2>6. ASSUME NEW w \in Slot, NEW name \in Names, NEW q \in Query, Handle(w, name, q)
        PROVE  AnswersAtHome(h)'
    BY <1>0, <2>6, HandleAtHome
  <2>7. CASE UNCHANGED vars
    BY <1>1, <2>7
  <2>8. CASE NextConfig /\ UNCHANGED <<server, flow, store, shown>>
    BY <1>2, <2>8
  <2> QED BY <2>1, <2>2, <2>3, <2>4, <2>5, <2>6, <2>7, <2>8 DEF Next
<1>4. ASSUME Next, ~ (NextConfig /\ UNCHANGED <<server, flow, store, shown>>)
      PROVE  UNCHANGED config
  BY <1>4 DEF Next, Serve, Clear, Steps, Hit, Miss, Acquire, Ask, Put, Done, Run, Handle
<1> QED
  BY <1>1, <1>2, <1>3, <1>4

\* The invariant of the two theorems.
AllAtHome == FilesInv /\ FlowTyped /\ \E h \in Homes : HomeInv(h)

\* It holds throughout, ...
LEMMA HomeStays ==
    ASSUME Steady
    PROVE  /\ Init => AllAtHome
           /\ AllAtHome /\ [Next]_vars => AllAtHome'
<1>1. ASSUME Init PROVE \E h \in Homes : HomeInv(h)
  BY <1>1, HomeInit
<1>2. Init => AllAtHome
  BY <1>1, FlowInit DEF AllAtHome
<1>3. ASSUME AllAtHome, [Next]_vars PROVE AllAtHome'
  <2>1. PICK h \in Homes : HomeInv(h)
    BY <1>3 DEF AllAtHome
  <2>2. HomeInv(h)'
    BY <1>3, <2>1, HomeNext DEF AllAtHome
  <2>3. FilesInv' /\ FlowTyped'
    BY <1>3, FlowNext DEF AllAtHome
  <2> QED BY <2>2, <2>3 DEF AllAtHome
<1> QED
  BY <1>2, <1>3

\* ... and implies what is wanted.
LEMMA HomeSuffices ==
    ASSUME Steady, AllAtHome
    PROVE  AnswerFromTarget /\ CacheMatchesConfig
<1>1. PICK h \in Homes : HomeInv(h)
  BY DEF AllAtHome
<1>2. AnswerFromTarget
  BY <1>1 DEF HomeInv, AnswersAtHome, AnswerFromTarget
<1>3. ASSUME ~ mixed, NEW k \in Key, store[k] # None, FindConnection(Load(file), k[1]) # None
      PROVE  store[k] = Origin(FindConnection(Load(file), k[1]))
  <2>1. Load(file) \in Config /\ At(h, Load(file))
    BY <1>1, <1>3, FileNamed DEF AllAtHome, HomeInv, FileAtHome
  <2>2. Origin(FindConnection(Load(file), k[1])) \in Targets(h, k[1])
    BY <1>3, <2>1, FoundAtHome
  <2>3. store[k] \in Targets(h, k[1])
    BY <1>1, <1>3 DEF HomeInv, AnswersAtHome
  <2> QED BY <2>2, <2>3, OneTarget
<1>4. CacheMatchesConfig
  BY <1>3 DEF CacheMatchesConfig
<1> QED
  BY <1>2, <1>4

\* Whoever filled the cache, command or server, a request is answered with data of
\* the place its connection names (main.go:103-225, server.go:128-180), if that is
\* the same for everyone.
THEOREM AnswersFromTheirPlace ==
    ASSUME Steady PROVE Spec => []AnswerFromTarget
BY HomeStays, HomeSuffices, PTL DEF Spec

\* What the cache holds under a name is what the connection of that name in the
\* file would answer, while editors rewrite the file.
THEOREM CacheOfTheConfig ==
    ASSUME Steady PROVE Spec => []CacheMatchesConfig
BY HomeStays, HomeSuffices, PTL DEF Spec
=============================================================================
