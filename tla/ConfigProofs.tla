-------------------------- MODULE ConfigProofs ---------------------------
(***************************************************************************)
(* What ConfigFile keeps, for every text of the file and any number of     *)
(* editors, and what its edits do to texts on which a line editor sees     *)
(* what HCL sees (AllTidy, AllFilled).  The library's induction theorems   *)
(* take an operator as a parameter, which these provers cannot use, so     *)
(* induction over the lines of a text rests on the least counterexample    *)
(* (LeastNat, Climb); with it the recursive functions Decoded and Depth    *)
(* are unfolded (DecodedIs, DepthIs), and what is said of them after every *)
(* line is said of Load and of the edits.                                  *)
(***************************************************************************)
EXTENDS ConfigFile, SequenceTheorems, WellFoundedInduction, TLAPS

\* A set of naturals with a member has a least one.
LEMMA LeastNat ==
    ASSUME NEW S \in SUBSET Nat, S # {}
    PROVE  \E m \in S : \A k \in S : m <= k
<1>1. PICK m \in S : \A k \in S : ~ (<<k, m>> \in OpToRel(<, Nat))
  BY NatLessThanWellFounded, WFMin, Zenon
<1>2. \A k \in S : ~ (k < m)
  BY <1>1, Zenon DEF OpToRel
<1> QED
  BY <1>2

\* What holds of 0, and of i + 1 when it holds of i, holds up to n.
LEMMA Climb ==
    ASSUME NEW n \in Nat, NEW T, 0 \in T,
           \A i \in 0..(n - 1) : i \in T => i + 1 \in T
    PROVE  \A i \in 0..n : i \in T
<1> DEFINE Bad == {i \in 0..n : i \notin T}
<1> SUFFICES ASSUME Bad # {} PROVE FALSE
  OBVIOUS
<1>1. PICK m \in Bad : \A k \in Bad : m <= k
  <2>1. Bad \in SUBSET Nat
    OBVIOUS
  <2> HIDE DEF Bad
  <2> QED BY <2>1, LeastNat
<1>2. m # 0 /\ m - 1 \in 0..(n - 1)
  BY <1>1
<1>3. m - 1 \in T
  BY <1>1, <1>2
<1> QED
  BY <1>1, <1>2, <1>3

\* The configuration after each line is what Decode makes of the one before.
LEMMA DecodedIs ==
    ASSUME NEW text, Len(text) \in Nat
    PROVE  /\ Decoded(text)[0] = NoConfig
           /\ \A i \in 1..Len(text) :
                Decoded(text)[i] = Decode(Decoded(text)[i - 1], text[i])
<1> DEFINE n == Len(text)
           From(g, k) == g[0] = NoConfig /\ \A i \in 1..k : g[i] = Decode(g[i - 1], text[i])
           T == {k \in 0..n : \E g : From(g, k)}
           Rec(g) == g = [k \in 0..n |-> IF k = 0 THEN NoConfig ELSE Decode(g[k - 1], text[k])]
<1> HIDE DEF n
<1>0. n \in Nat
  BY DEF n
<1>1. 0 \in T
  <2> DEFINE g == [i \in 0..n |-> NoConfig]
  <2>1. g[0] = NoConfig /\ 1..0 = {}
    BY <1>0
  <2> HIDE DEF g
  <2>2. From(g, 0)
    BY <2>1
  <2> QED BY <1>0, <2>2
<1>2. ASSUME NEW k \in 0..(n - 1), k \in T PROVE k + 1 \in T
  <2>1. PICK g : From(g, k)
    BY <1>2
  <2> DEFINE h == [i \in 0..n |-> IF i = k + 1 THEN Decode(g[k], text[k + 1]) ELSE g[i]]
  <2>2. h[0] = NoConfig
    BY <1>0, <2>1
  <2>3. ASSUME NEW i \in 1..(k + 1) PROVE h[i] = Decode(h[i - 1], text[i])
    <3>1. h[i - 1] = g[i - 1]
      BY <1>0
    <3>2. CASE i = k + 1
      BY <1>0, <3>1, <3>2
    <3>3. CASE i # k + 1
      <4>1. i \in 1..k /\ h[i] = g[i]
        BY <1>0, <3>3
      <4> QED BY <2>1, <3>1, <4>1
    <3> QED BY <3>2, <3>3
  <2> HIDE DEF h
  <2>4. From(h, k + 1)
    BY <2>2, <2>3
  <2> QED BY <1>0, <2>4
<1>3. n \in T
  <2> HIDE DEF T
  <2>1. \A i \in 0..n : i \in T
    BY <1>0, <1>1, <1>2, Climb
  <2> QED BY <1>0, <2>1
<1>4. PICK g : From(g, n)
  BY <1>3
<1> DEFINE h == [i \in 0..n |-> g[i]]
<1>5. Rec(h)
  <2>1. ASSUME NEW k \in 0..n
        PROVE  h[k] = IF k = 0 THEN NoConfig ELSE Decode(h[k - 1], text[k])
    <3>1. CASE k = 0
      BY <1>4, <3>1
    <3>2. CASE k # 0
      <4>1. k \in 1..n /\ h[k] = g[k] /\ h[k - 1] = g[k - 1]
        BY <1>0, <3>2
      <4> QED BY <1>4, <3>2, <4>1
    <3> QED BY <3>1, <3>2
  <2> QED BY <2>1
<1> HIDE DEF h
<1>6. Rec(Decoded(text))
  <2>1. \E f : Rec(f)
    BY <1>5
  <2>2. Decoded(text) = CHOOSE f : Rec(f)
    BY DEF Decoded, n
  <2> HIDE DEF Rec
  <2> QED BY <2>1, <2>2, Zenon
<1> QED
  BY <1>0, <1>6 DEF n

----------------------------------------------------------------------------
\* A configuration, as Load gives it.
Config == [current : Word, conns : Seq(Conn), inside : BOOLEAN]

\* A header line makes a connection.
LEMMA NewConnTyped ==
    ASSUME NEW l \in Line, IsHeader(l)
    PROVE  NewConn(l) \in Conn
<1>0. l.labels \in {<<>>} \union (STRING \X STRING) /\ l.value \in Word
  BY DEF Line
<1>1. l.labels \in STRING \X STRING /\ l.value \in Word /\ Empty \in Word
  <2>1. l.labels \in STRING \X STRING
    BY <1>0, Zenon DEF IsHeader
  <2>2. Empty \in Word
    BY DEF Word
  <2> QED BY <1>0, <2>1, <2>2
<1>2. l.labels[1] \in Word /\ l.labels[2] \in Word
  BY <1>1 DEF Word
<1>3. [f \in Field |-> IF f = l.field THEN l.value ELSE Empty] \in [Field -> Word]
  BY <1>1
<1> QED
  BY <1>2, <1>3 DEF NewConn, Conn

\* Assigning one attribute leaves the rest of a connection alone.
LEMMA AssignIs ==
    ASSUME NEW c \in Conn, NEW f \in Field, NEW v \in Word
    PROVE  /\ Assign(c, f, v) \in Conn
           /\ Assign(c, f, v).type = c.type /\ Assign(c, f, v).name = c.name
           /\ \A g \in Field : Assign(c, f, v).attrs[g] = IF g = f THEN v ELSE c.attrs[g]
<1>1. c.attrs \in [Field -> Word] /\ c = [type |-> c.type, name |-> c.name, attrs |-> c.attrs]
  BY DEF Conn
<1>2. Assign(c, f, v) =
        [type |-> c.type, name |-> c.name, attrs |-> [c.attrs EXCEPT ![f] = v]]
  BY <1>1 DEF Assign
<1> QED
  BY <1>1, <1>2 DEF Conn

\* One more line adds a connection, or sets one attribute of the last.
LEMMA ConnsIs ==
    ASSUME NEW conns \in Seq(Conn), NEW inside, NEW l \in Line
    PROVE  /\ Conns(conns, inside, l) \in Seq(Conn)
           /\ IsHeader(l) =>
                /\ Len(Conns(conns, inside, l)) = Len(conns) + 1
                /\ Conns(conns, inside, l)[Len(conns) + 1] = NewConn(l)
           /\ ~ IsHeader(l) => Len(Conns(conns, inside, l)) = Len(conns)
           /\ \A i \in 1..Len(conns) :
                /\ Conns(conns, inside, l)[i].type = conns[i].type
                /\ Conns(conns, inside, l)[i].name = conns[i].name
                /\ \A f \in Field :
                     Conns(conns, inside, l)[i].attrs[f] =
                       IF ~ IsHeader(l) /\ inside /\ i = Len(conns) /\ f = l.field
                         THEN l.value ELSE conns[i].attrs[f]
<1> DEFINE new == Conns(conns, inside, l)
<1>1. CASE IsHeader(l)
  <2>1. new = Append(conns, NewConn(l)) /\ NewConn(l) \in Conn
    BY <1>1, NewConnTyped DEF Conns
  <2>2. /\ new \in Seq(Conn) /\ Len(new) = Len(conns) + 1
        /\ new[Len(conns) + 1] = NewConn(l)
        /\ \A i \in 1..Len(conns) : new[i] = conns[i]
    BY <2>1, AppendProperties
  <2> HIDE DEF new
  <2> QED BY <1>1, <2>2 DEF new
<1>2. CASE ~ IsHeader(l) /\ inside /\ l.field \in Field
  <2> DEFINE k == Len(conns)
  <2>1. new = [conns EXCEPT ![k] = Assign(conns[k], l.field, l.value)]
    BY <1>2 DEF Conns
  <2>2. l.value \in Word
    BY DEF Line
  <2>3. ASSUME k # 0
        PROVE  /\ Assign(conns[k], l.field, l.value) \in Conn
               /\ Assign(conns[k], l.field, l.value).type = conns[k].type
               /\ Assign(conns[k], l.field, l.value).name = conns[k].name
               /\ \A f \in Field : Assign(conns[k], l.field, l.value).attrs[f] =
                    IF f = l.field THEN l.value ELSE conns[k].attrs[f]
    <3>1. conns[k] \in Conn
      BY <2>3
    <3> QED BY <1>2, <2>2, <3>1, AssignIs
  <2>4. new \in Seq(Conn) /\ Len(new) = k
    <3>1. CASE k # 0
      BY <2>1, <2>3, <3>1, ExceptSeq
    <3>2. CASE k = 0
      <4>1. DOMAIN conns = {} /\ conns = [i \in DOMAIN conns |-> conns[i]]
        BY <3>2
      <4>2. DOMAIN new = {} /\ new = [i \in DOMAIN new |-> new[i]]
        BY <2>1, <4>1
      <4>3. new = conns
        BY <4>1, <4>2
      <4> QED BY <3>2, <4>3
    <3> QED BY <3>1, <3>2
  <2>5. ASSUME NEW i \in 1..k
        PROVE  /\ new[i].type = conns[i].type /\ new[i].name = conns[i].name
               /\ \A f \in Field : new[i].attrs[f] =
                    IF i = k /\ f = l.field THEN l.value ELSE conns[i].attrs[f]
    <3>1. CASE i = k
      BY <2>1, <2>3, <3>1
    <3>2. CASE i # k
      <4>1. new[i] = conns[i]
        BY <2>1, <3>2
      <4> QED BY <3>2, <4>1
    <3> QED BY <3>1, <3>2
  <2> HIDE DEF new
  <2> QED BY <1>2, <2>4, <2>5 DEF new
<1>3. CASE ~ IsHeader(l) /\ ~ (inside /\ l.field \in Field)
  BY <1>3 DEF Conns
<1> QED
  BY <1>1, <1>2, <1>3

\* Decoding a line gives a configuration again.
LEMMA DecodeTyped ==
    ASSUME NEW c \in Config, NEW l \in Line
    PROVE  Decode(c, l) \in Config
<1>1. c.conns \in Seq(Conn) /\ c.current \in Word /\ c.inside \in BOOLEAN
  BY DEF Config
<1>2. Conns(c.conns, c.inside, l) \in Seq(Conn)
  BY <1>1, ConnsIs
<1>3. (IF Assigns(l, Current) THEN l.value ELSE c.current) \in Word
  BY <1>1 DEF Line
<1>4. ((IsHeader(l) \/ c.inside) /\ ~ l.closes) \in BOOLEAN
  BY <1>1, Zenon DEF Line
<1> QED
  BY <1>2, <1>3, <1>4 DEF Decode, Config

\* So does decoding all of them.
LEMMA DecodedTyped ==
    ASSUME NEW text \in Seq(Line)
    PROVE  \A n \in 0..Len(text) : Decoded(text)[n] \in Config
<1> DEFINE T == {n \in 0..Len(text) : Decoded(text)[n] \in Config}
<1>1. Len(text) \in Nat
  OBVIOUS
<1>2. 0 \in T
  <2>1. NoConfig \in Config
    BY DEF NoConfig, Config, Word
  <2> QED BY <1>1, <2>1, DecodedIs
<1>3. ASSUME NEW n \in 0..(Len(text) - 1), n \in T PROVE n + 1 \in T
  <2>1. n + 1 \in 1..Len(text) /\ (n + 1) - 1 = n
    BY <1>1
  <2>2. text[n + 1] \in Line
    BY <2>1
  <2>3. Decoded(text)[n + 1] = Decode(Decoded(text)[n], text[n + 1])
    BY <1>1, <2>1, DecodedIs
  <2> QED BY <1>1, <1>3, <2>1, <2>2, <2>3, DecodeTyped
<1> HIDE DEF T
<1>4. \A n \in 0..Len(text) : n \in T
  BY <1>1, <1>2, <1>3, Climb
<1> QED
  BY <1>4 DEF T

\* A file that is a text, or is not there, is a configuration.
LEMMA LoadTyped ==
    ASSUME NEW text \in Seq(Line) \union {None}
    PROVE  Load(text) \in Config
<1>1. NoConfig \in Config
  BY DEF NoConfig, Config, Word
<1>2. ASSUME text # None PROVE Decoded(text)[Len(text)] \in Config
  BY <1>2, DecodedTyped
<1> QED
  BY <1>1, <1>2 DEF Load

----------------------------------------------------------------------------
\* Two lines that differ in nothing but the value they give to a field of F.
Like(F, l, m) ==
    /\ l.labels = m.labels /\ l.opens = m.opens /\ l.closes = m.closes
    /\ l.field = m.field
    /\ l.field \notin F \/ IsHeader(l) => l.value = m.value

\* Two configurations that differ in nothing but the values of the fields of F.
Same(F, c, d) ==
    /\ c.inside = d.inside
    /\ Current \notin F => c.current = d.current
    /\ Len(c.conns) = Len(d.conns)
    /\ \A i \in 1..Len(c.conns) :
         /\ c.conns[i].type = d.conns[i].type /\ c.conns[i].name = d.conns[i].name
         /\ \A f \in Field \ F : c.conns[i].attrs[f] = d.conns[i].attrs[f]

\* Like lines keep configurations the same, ...
LEMMA SameStep ==
    ASSUME NEW F, NEW c \in Config, NEW d \in Config, NEW l \in Line, NEW m \in Line,
           Same(F, c, d), Like(F, l, m)
    PROVE  Same(F, Decode(c, l), Decode(d, m))
<1> DEFINE cs == Conns(c.conns, c.inside, l)
           ds == Conns(d.conns, d.inside, m)
           k == Len(c.conns)
<1>1. /\ c.conns \in Seq(Conn) /\ d.conns \in Seq(Conn) /\ k \in Nat
      /\ c.inside = d.inside /\ Len(d.conns) = k
  BY DEF Config, Same
<1>2. /\ Decode(c, l).conns = cs /\ Decode(d, m).conns = ds
      /\ Decode(c, l).inside = ((IsHeader(l) \/ c.inside) /\ ~ l.closes)
      /\ Decode(d, m).inside = ((IsHeader(m) \/ d.inside) /\ ~ m.closes)
      /\ Decode(c, l).current = IF Assigns(l, Current) THEN l.value ELSE c.current
      /\ Decode(d, m).current = IF Assigns(m, Current) THEN m.value ELSE d.current
  BY DEF Decode
<1>3. IsHeader(l) = IsHeader(m)
  BY DEF Like, IsHeader
<1>4. Decode(c, l).inside = Decode(d, m).inside
  BY <1>1, <1>2, <1>3, Zenon DEF Like
<1>5. Current \notin F => Decode(c, l).current = Decode(d, m).current
  BY <1>2, <1>3, Zenon DEF Like, Same, Assigns
<1>6. ASSUME NEW i \in 1..k
      PROVE  /\ cs[i].type = ds[i].type /\ cs[i].name = ds[i].name
             /\ \A f \in Field \ F : cs[i].attrs[f] = ds[i].attrs[f]
  <2>1. /\ cs[i].type = c.conns[i].type /\ ds[i].type = d.conns[i].type
        /\ cs[i].name = c.conns[i].name /\ ds[i].name = d.conns[i].name
    BY <1>1, ConnsIs
  <2>2. ASSUME NEW f \in Field \ F PROVE cs[i].attrs[f] = ds[i].attrs[f]
    <3>1. cs[i].attrs[f] = IF ~ IsHeader(l) /\ c.inside /\ i = k /\ f = l.field
                             THEN l.value ELSE c.conns[i].attrs[f]
      BY <1>1, ConnsIs
    <3>2. ds[i].attrs[f] = IF ~ IsHeader(m) /\ d.inside /\ i = k /\ f = m.field
                             THEN m.value ELSE d.conns[i].attrs[f]
      BY <1>1, ConnsIs
    <3>3. c.conns[i].attrs[f] = d.conns[i].attrs[f] /\ l.field = m.field
      BY DEF Same, Like
    <3>4. f = l.field => l.value = m.value
      BY DEF Like
    <3> HIDE DEF cs, ds
    <3> QED BY <1>1, <1>3, <3>1, <3>2, <3>3, <3>4, Zenon
  <2>3. c.conns[i].type = d.conns[i].type /\ c.conns[i].name = d.conns[i].name
    BY DEF Same
  <2> QED BY <2>1, <2>2, <2>3
<1>7. CASE ~ IsHeader(l)
  <2>1. Len(cs) = k /\ Len(ds) = k
    BY <1>1, <1>3, <1>7, ConnsIs
  <2> HIDE DEF cs, ds
  <2> QED BY <1>2, <1>4, <1>5, <1>6, <2>1 DEF Same
<1>8. CASE IsHeader(l)
  <2>1. Len(cs) = k + 1 /\ Len(ds) = k + 1 /\ cs[k + 1] = NewConn(l) /\ ds[k + 1] = NewConn(m)
    <3>1. Len(cs) = Len(c.conns) + 1 /\ cs[Len(c.conns) + 1] = NewConn(l)
      BY <1>1, <1>8, ConnsIs
    <3>2. IsHeader(m)
      BY <1>3, <1>8, Zenon
    <3>3. Len(ds) = Len(d.conns) + 1 /\ ds[Len(d.conns) + 1] = NewConn(m)
      BY <1>1, <3>2, ConnsIs
    <3> HIDE DEF cs, ds
    <3> QED BY <1>1, <3>1, <3>3
  <2>2. NewConn(l) = NewConn(m)
    BY <1>8 DEF Like, NewConn
  <2>3. ASSUME NEW i \in 1..(k + 1)
        PROVE  /\ cs[i].type = ds[i].type /\ cs[i].name = ds[i].name
               /\ \A f \in Field \ F : cs[i].attrs[f] = ds[i].attrs[f]
    <3>1. CASE i = k + 1
      BY <2>1, <2>2, <3>1
    <3>2. CASE i # k + 1
      <4>1. i \in 1..k
        BY <1>1, <3>2
      <4> QED BY <1>6, <4>1
    <3> QED BY <3>1, <3>2
  <2> HIDE DEF cs, ds
  <2> QED BY <1>2, <1>4, <1>5, <2>1, <2>3 DEF Same
<1> QED
  BY <1>7, <1>8

\* ... and so texts that are alike line by line decode to the same.
LEMMA SameDecoded ==
    ASSUME NEW F, NEW s \in Seq(Line), NEW t \in Seq(Line), Len(s) = Len(t),
           \A i \in 1..Len(s) : Like(F, s[i], t[i])
    PROVE  \A n \in 0..Len(s) : Same(F, Decoded(s)[n], Decoded(t)[n])
<1> DEFINE T == {n \in 0..Len(s) : Same(F, Decoded(s)[n], Decoded(t)[n])}
<1>1. Len(s) \in Nat
  OBVIOUS
<1>2. 0 \in T
  <2>1. Same(F, NoConfig, NoConfig)
    BY DEF Same
  <2> QED BY <1>1, <2>1, DecodedIs
<1>3. ASSUME NEW n \in 0..(Len(s) - 1), n \in T PROVE n + 1 \in T
  <2>1. n + 1 \in 1..Len(s) /\ (n + 1) - 1 = n /\ n \in 0..Len(s)
    BY <1>1
  <2>2. /\ s[n + 1] \in Line /\ t[n + 1] \in Line /\ Like(F, s[n + 1], t[n + 1])
        /\ Decoded(s)[n] \in Config /\ Decoded(t)[n] \in Config
    BY <2>1, DecodedTyped
  <2>3. /\ Decoded(s)[n + 1] = Decode(Decoded(s)[n], s[n + 1])
        /\ Decoded(t)[n + 1] = Decode(Decoded(t)[n], t[n + 1])
    BY <1>1, <2>1, DecodedIs
  <2> QED BY <1>1, <1>3, <2>1, <2>2, <2>3, SameStep
<1> HIDE DEF T
<1>4. \A n \in 0..Len(s) : n \in T
  BY <1>1, <1>2, <1>3, Climb
<1> QED
  BY <1>4 DEF T

\* Giving lines that assign a field another value makes a text like it.
LEMMA SetIs ==
    ASSUME NEW text \in Seq(Line), NEW hits, NEW value \in Word,
           NEW field, \A i \in hits \cap (1..Len(text)) : Assigns(text[i], field)
    PROVE  /\ Set(text, hits, value) \in Seq(Line)
           /\ Len(Set(text, hits, value)) = Len(text)
           /\ \A i \in 1..Len(text) :
                /\ Set(text, hits, value)[i] =
                     IF i \in hits THEN [text[i] EXCEPT !.value = value] ELSE text[i]
                /\ Like({field}, text[i], Set(text, hits, value)[i])
<1> DEFINE new == Set(text, hits, value)
           e(i) == IF i \in hits THEN [text[i] EXCEPT !.value = value] ELSE text[i]
<1>1. Len(text) \in Nat
  OBVIOUS
<1>2. ASSUME NEW i \in 1..Len(text) PROVE e(i) \in Line /\ Like({field}, text[i], e(i))
  <2>1. text[i] \in Line
    OBVIOUS
  <2>2. CASE i \in hits
    <3>1. Assigns(text[i], field) /\ e(i) = [text[i] EXCEPT !.value = value]
      BY <2>2
    <3>2. e(i) \in Line
      BY <2>1, <3>1 DEF Line
    <3>3. Like({field}, text[i], e(i))
      BY <2>1, <3>1 DEF Line, Like, Assigns, IsHeader
    <3> QED BY <3>2, <3>3
  <2>3. CASE i \notin hits
    BY <2>1, <2>3 DEF Like
  <2> QED BY <2>2, <2>3
<1>3. new = [i \in 1..Len(text) |-> e(i)]
  BY DEF Set
<1> HIDE DEF e
<1>4. new \in Seq(Line) /\ Len(new) = Len(text)
  <2>1. new \in [1..Len(text) -> Line]
    BY <1>2, <1>3
  <2> QED BY <1>1, <2>1, SeqDef, LenProperties
<1>5. \A i \in 1..Len(text) : new[i] = e(i)
  BY <1>3
<1> QED
  BY <1>2, <1>4, <1>5 DEF e

\* A line that assigns current_connection before all others changes nothing else.
LEMMA Prepend ==
    ASSUME NEW text \in Seq(Line), NEW v \in Word
    PROVE  LET new == <<Attr(Current, v)>> \o text
           IN  /\ new \in Seq(Line) /\ Len(new) = Len(text) + 1
               /\ \A n \in 0..Len(text) :
                    Same({Current}, Decoded(text)[n], Decoded(new)[n + 1])
<1> DEFINE first == Attr(Current, v)
           new == <<first>> \o text
           T == {n \in 0..Len(text) : Same({Current}, Decoded(text)[n], Decoded(new)[n + 1])}
<1>1. first \in Line /\ first.labels = <<>> /\ first.closes = FALSE /\ first.field = Current
  BY DEF Attr, Line, Word
<1> HIDE DEF first
<1>2. /\ new \in Seq(Line) /\ Len(new) = Len(text) + 1 /\ Len(text) \in Nat
      /\ new[1] = first /\ \A i \in 1..Len(text) : new[i + 1] = text[i]
  <2>1. <<first>> \in Seq(Line) /\ Len(<<first>>) = 1 /\ <<first>>[1] = first
    BY <1>1
  <2> QED BY <2>1, ConcatProperties
<1> HIDE DEF new
<1>3. 0 \in T
  <2>1. Decoded(new)[1] = Decode(NoConfig, first)
    BY <1>2, DecodedIs
  <2>2. Same({Current}, NoConfig, Decode(NoConfig, first))
    BY <1>1 DEF Same, Decode, NoConfig, Conns, IsHeader
  <2> QED BY <1>2, <2>1, <2>2, DecodedIs
<1>4. ASSUME NEW n \in 0..(Len(text) - 1), n \in T PROVE n + 1 \in T
  <2>1. /\ n + 1 \in 1..Len(text) /\ (n + 1) - 1 = n /\ n \in 0..Len(text)
        /\ (n + 1) + 1 \in 1..Len(new) /\ ((n + 1) + 1) - 1 = n + 1 /\ n + 1 \in 0..Len(new)
    BY <1>2
  <2>2. /\ text[n + 1] \in Line /\ new[(n + 1) + 1] = text[n + 1]
        /\ Like({Current}, text[n + 1], text[n + 1])
        /\ Decoded(text)[n] \in Config /\ Decoded(new)[n + 1] \in Config
    BY <1>2, <2>1, DecodedTyped DEF Like
  <2>3. Decoded(text)[n + 1] = Decode(Decoded(text)[n], text[n + 1])
    BY <1>2, <2>1, DecodedIs
  <2>4. Decoded(new)[(n + 1) + 1] = Decode(Decoded(new)[n + 1], text[n + 1])
    <3>1. Len(new) \in Nat
      BY <1>2
    <3> QED BY <2>1, <2>2, <3>1, DecodedIs
  <2> QED BY <1>4, <2>1, <2>2, <2>3, <2>4, SameStep
<1> HIDE DEF T
<1>5. \A n \in 0..Len(text) : n \in T
  BY <1>2, <1>3, <1>4, Climb
<1> QED
  BY <1>2, <1>5 DEF T, new, first

----------------------------------------------------------------------------
\* Whether a text parses does not depend on the values, nor on a first line for
\* a current_connection it has not: t is s, with other values, after d such lines.
Shifted(s, t, d) ==
    /\ Len(t) = Len(s) + d
    /\ \A i \in 1..Len(s) :
         /\ IsHeader(t[i + d]) <=> IsHeader(s[i])
         /\ t[i + d].opens = s[i].opens /\ t[i + d].closes = s[i].closes
         /\ t[i + d].field = s[i].field
    /\ d = 0 \/ /\ d = 1
                /\ ~ IsHeader(t[1]) /\ t[1].opens = FALSE /\ t[1].closes = FALSE
                /\ t[1].field = Current
                /\ \A i \in 1..Len(s) : ~ Assigns(s[i], Current)

\* Its blocks are those of s.
LEMMA ShiftedWithin ==
    ASSUME NEW s \in Seq(Line), NEW t \in Seq(Line), NEW d \in {0, 1}, Shifted(s, t, d),
           NEW i \in 1..Len(s), NEW k \in 1..Len(s)
    PROVE  Within(t, i + d, k + d) <=> Within(s, i, k)
<1>1. Len(s) \in Nat /\ d \in Nat /\ i \in Nat /\ k \in Nat
  OBVIOUS
<1>2. \A m \in 1..Len(s) : /\ t[m + d].opens = s[m].opens /\ t[m + d].closes = s[m].closes
                           /\ Starts(t[m + d]) <=> Starts(s[m])
  BY DEF Shifted, Starts
<1>3. ASSUME Within(s, i, k) PROVE Within(t, i + d, k + d)
  <2>1. ASSUME NEW m \in ((i + d) + 1)..((k + d) - 1) PROVE ~ t[m].opens /\ ~ t[m].closes
    <3>1. m - d \in (i + 1)..(k - 1) /\ m - d \in 1..Len(s) /\ (m - d) + d = m
      BY <1>1, <2>1
    <3>2. t[m].opens = s[m - d].opens /\ t[m].closes = s[m - d].closes
      BY <1>2, <3>1
    <3>3. ~ s[m - d].opens /\ ~ s[m - d].closes
      BY <1>3, <3>1 DEF Within
    <3> QED BY <3>2, <3>3
  <2> QED BY <1>2, <1>3, <2>1 DEF Within
<1>4. ASSUME Within(t, i + d, k + d) PROVE Within(s, i, k)
  <2>1. ASSUME NEW m \in (i + 1)..(k - 1) PROVE ~ s[m].opens /\ ~ s[m].closes
    <3>1. m + d \in ((i + d) + 1)..((k + d) - 1) /\ m \in 1..Len(s)
      BY <1>1, <2>1
    <3> QED BY <1>2, <1>4, <3>1 DEF Within
  <2> QED BY <1>2, <1>4, <2>1 DEF Within
<1> QED
  BY <1>3, <1>4

\* So it parses if s does.
LEMMA ShiftedParses ==
    ASSUME NEW s \in Seq(Line), NEW t \in Seq(Line), NEW d \in {0, 1}, Shifted(s, t, d)
    PROVE  Parses(s) <=> Parses(t)
<1> DEFINE n == Len(s)
<1>1. n \in Nat /\ Len(t) = n + d /\ d \in Nat
  BY DEF Shifted
<1>2. ASSUME NEW k \in 1..n
      PROVE  /\ t[k + d].field = s[k].field /\ t[k + d].opens = s[k].opens
             /\ IsHeader(t[k + d]) <=> IsHeader(s[k])
             /\ Starts(t[k + d]) <=> Starts(s[k])
             /\ Ends(t[k + d]) <=> Ends(s[k])
             /\ IsDisplay(t[k + d]) <=> IsDisplay(s[k])
             /\ \A f : Assigns(t[k + d], f) <=> Assigns(s[k], f)
  BY DEF Shifted, Starts, Ends, IsDisplay, Assigns
<1>3. d = 1 => /\ ~ Starts(t[1]) /\ ~ Ends(t[1]) /\ ~ IsHeader(t[1]) /\ ~ IsDisplay(t[1])
               /\ t[1].opens = FALSE /\ t[1].field = Current
               /\ \A i \in 1..n : ~ Assigns(s[i], Current)
  BY DEF Shifted, Starts, Ends, IsDisplay
<1>4. \A i, k \in 1..n : Within(t, i + d, k + d) <=> Within(s, i, k)
  BY ShiftedWithin
<1>5. \A i \in 1..(n + d) : (d = 1 /\ i = 1) \/ (i - d \in 1..n /\ (i - d) + d = i)
  BY <1>1
<1>6. \A i \in 1..n : i + d \in 1..(n + d)
  BY <1>1
<1>7. ASSUME NEW k \in 1..n
      PROVE  Ending(t, k + d) <=> Ending(s, k)
  <2>1. ASSUME Ending(s, k) PROVE Ending(t, k + d)
    <3>1. PICK j \in (k + 1)..n : Ends(s[j]) /\ Within(s, k, j)
      BY <2>1 DEF Ending
    <3>2. j \in 1..n /\ j + d \in ((k + d) + 1)..Len(t)
      BY <1>1, <3>1
    <3> QED BY <1>2, <1>4, <3>1, <3>2 DEF Ending
  <2>2. ASSUME Ending(t, k + d) PROVE Ending(s, k)
    <3>1. PICK j \in ((k + d) + 1)..Len(t) : Ends(t[j]) /\ Within(t, k + d, j)
      BY <2>2 DEF Ending
    <3>2. j - d \in (k + 1)..n /\ j - d \in 1..n /\ (j - d) + d = j
      BY <1>1, <3>1
    <3> QED BY <1>2, <1>4, <3>1, <3>2 DEF Ending
  <2> QED BY <2>1, <2>2
<1>8. ASSUME NEW k \in 1..n
      PROVE  /\ (\E i \in 1..((k + d) - 1) : Within(t, i, k + d))
                  <=> (\E i \in 1..(k - 1) : Within(s, i, k))
             /\ (\E i \in 1..((k + d) - 1) : IsHeader(t[i]) /\ Within(t, i, k + d))
                  <=> (\E i \in 1..(k - 1) : IsHeader(s[i]) /\ Within(s, i, k))
  <2>1. ASSUME NEW i \in 1..(k - 1)
        PROVE  /\ i + d \in 1..((k + d) - 1)
               /\ Within(t, i + d, k + d) <=> Within(s, i, k)
               /\ IsHeader(t[i + d]) <=> IsHeader(s[i])
    <3>1. i \in 1..n /\ i + d \in 1..((k + d) - 1)
      BY <1>1
    <3> QED BY <1>2, <1>4, <3>1
  <2>2. ASSUME NEW i \in 1..((k + d) - 1), Within(t, i, k + d)
        PROVE  i - d \in 1..(k - 1) /\ (i - d) + d = i
    <3>1. ~ (d = 1 /\ i = 1)
      BY <1>3, <2>2 DEF Within
    <3> QED BY <1>1, <3>1
  <2>3. ASSUME NEW i \in 1..(k - 1), Within(s, i, k)
        PROVE  /\ \E j \in 1..((k + d) - 1) : Within(t, j, k + d)
               /\ IsHeader(s[i]) =>
                    \E j \in 1..((k + d) - 1) : IsHeader(t[j]) /\ Within(t, j, k + d)
    BY <2>1, <2>3
  <2>4. ASSUME NEW i \in 1..((k + d) - 1), Within(t, i, k + d)
        PROVE  /\ \E j \in 1..(k - 1) : Within(s, j, k)
               /\ IsHeader(t[i]) => \E j \in 1..(k - 1) : IsHeader(s[j]) /\ Within(s, j, k)
    BY <2>1, <2>2, <2>4
  <2> QED BY <2>3, <2>4
<1>9. ASSUME NEW k \in 1..n PROVE Fits(t, k + d) <=> Fits(s, k)
  BY <1>2, <1>8 DEF Fits
<1>10. ASSUME NEW k \in 1..n, NEW j \in 1..(k - 1)
       PROVE  Repeated(t, j + d, k + d) <=> Repeated(s, j, k)
  <2>1. j \in 1..n /\ \A i \in j..k : i \in 1..n /\ i + d \in (j + d)..(k + d)
    BY <1>1
  <2>2. \A i \in (j + d)..(k + d) : i - d \in j..k /\ (i - d) + d = i
    BY <1>1, <2>1
  <2>3. (\E i \in (j + d)..(k + d) : t[i].opens) <=> (\E i \in j..k : s[i].opens)
    <3>1. ASSUME NEW i \in (j + d)..(k + d), t[i].opens PROVE \E m \in j..k : s[m].opens
      <4>1. i - d \in j..k /\ i - d \in 1..n /\ (i - d) + d = i
        BY <2>1, <2>2
      <4>2. s[i - d].opens = t[i].opens
        BY <1>2, <4>1
      <4> QED BY <3>1, <4>1, <4>2
    <3>2. ASSUME NEW i \in j..k, s[i].opens PROVE \E m \in (j + d)..(k + d) : t[m].opens
      BY <1>2, <2>1, <3>2
    <3> QED BY <3>1, <3>2
  <2> QED BY <1>2, <2>1, <2>3 DEF Repeated
<1>11. ASSUME d = 1
       PROVE  /\ ~ Starts(t[1]) /\ Fits(t, 1)
              /\ \A k \in 1..n : ~ Repeated(t, 1, k + d)
  <2>1. ~ \E i \in 1..(1 - 1) : Within(t, i, 1)
    OBVIOUS
  <2>2. Fits(t, 1)
    <3>1. Current # Cut /\ Current \notin Field
      BY DEF Current, Cut, Field
    <3> QED BY <1>3, <1>11, <2>1, <3>1 DEF Fits
  <2>3. ASSUME NEW k \in 1..n PROVE ~ Repeated(t, 1, k + d)
    <3>1. ~ Assigns(t[k + d], Current) /\ ~ IsDisplay(t[1]) /\ t[1].field = Current
      BY <1>2, <1>3, <1>11
    <3>2. \A f : Assigns(t[1], f) => f = Current
      BY <3>1 DEF Assigns
    <3> QED BY <3>1, <3>2 DEF Repeated
  <2> QED BY <1>3, <1>11, <2>2, <2>3
<1> HIDE DEF n
<1>12. ASSUME Parses(s) PROVE Parses(t)
  <2>1. ASSUME NEW k \in 1..(n + d)
        PROVE  /\ Starts(t[k]) => Ending(t, k)
               /\ Fits(t, k)
               /\ \A j \in 1..(k - 1) : ~ Repeated(t, j, k)
    <3>1. CASE d = 1 /\ k = 1
      BY <1>11, <3>1
    <3>2. CASE k - d \in 1..n /\ (k - d) + d = k
      <4>1. /\ Starts(s[k - d]) => Ending(s, k - d)
            /\ Fits(s, k - d)
            /\ \A j \in 1..((k - d) - 1) : ~ Repeated(s, j, k - d)
        BY <1>12, <3>2 DEF Parses, n
      <4>2. ASSUME NEW j \in 1..(k - 1) PROVE ~ Repeated(t, j, k)
        <5>1. CASE d = 1 /\ j = 1
          BY <1>11, <3>2, <5>1
        <5>2. CASE j - d \in 1..((k - d) - 1) /\ (j - d) + d = j
          BY <1>10, <3>2, <4>1, <5>2
        <5> QED BY <1>1, <5>1, <5>2
      <4> QED BY <1>2, <1>7, <1>9, <3>2, <4>1, <4>2
    <3> QED BY <1>5, <3>1, <3>2
  <2> QED BY <1>1, <2>1 DEF Parses
<1>13. ASSUME Parses(t) PROVE Parses(s)
  <2>1. ASSUME NEW k \in 1..n
        PROVE  /\ Starts(s[k]) => Ending(s, k)
               /\ Fits(s, k)
               /\ \A j \in 1..(k - 1) : ~ Repeated(s, j, k)
    <3>1. /\ Starts(t[k + d]) => Ending(t, k + d)
          /\ Fits(t, k + d)
          /\ \A j \in 1..((k + d) - 1) : ~ Repeated(t, j, k + d)
      BY <1>1, <1>6, <1>13 DEF Parses
    <3>2. ASSUME NEW j \in 1..(k - 1) PROVE ~ Repeated(s, j, k)
      <4>1. j + d \in 1..((k + d) - 1)
        BY <1>1
      <4> QED BY <1>10, <3>1, <4>1
    <3> QED BY <1>2, <1>7, <1>9, <3>1, <3>2
  <2> QED BY <2>1 DEF Parses, n
<1> QED
  BY <1>12, <1>13

\* Other values do not matter.
LEMMA AlikeParses ==
    ASSUME NEW F, NEW s \in Seq(Line), NEW t \in Seq(Line), Len(s) = Len(t),
           \A i \in 1..Len(s) : Like(F, s[i], t[i])
    PROVE  Parses(s) <=> Parses(t)
<1>1. \A i \in 1..Len(s) : i + 0 = i
  OBVIOUS
<1>2. Shifted(s, t, 0)
  BY <1>1 DEF Shifted, Like, IsHeader
<1> QED
  BY <1>2, ShiftedParses

\* Nor does a first line for current_connection.
LEMMA PrependParses ==
    ASSUME NEW text \in Seq(Line), NEW v \in Word,
           \A i \in 1..Len(text) : ~ Assigns(text[i], Current)
    PROVE  Parses(text) <=> Parses(<<Attr(Current, v)>> \o text)
<1> DEFINE first == Attr(Current, v)
           new == <<first>> \o text
<1>1. first \in Line /\ ~ IsHeader(first) /\ first.opens = FALSE /\ first.closes = FALSE
      /\ first.field = Current
  <2>1. first \in Line
    BY DEF Attr, Line, Word
  <2>2. first.labels = <<>> /\ first.opens = FALSE /\ first.closes = FALSE
        /\ first.field = Current
    BY DEF Attr
  <2> QED BY <2>1, <2>2 DEF IsHeader
<1> HIDE DEF first
<1>2. /\ new \in Seq(Line) /\ Len(new) = Len(text) + 1
      /\ new[1] = first /\ \A i \in 1..Len(text) : new[i + 1] = text[i]
  <2>1. <<first>> \in Seq(Line) /\ Len(<<first>>) = 1 /\ <<first>>[1] = first
    BY <1>1
  <2> QED BY <2>1, ConcatProperties
<1> HIDE DEF new
<1>3. Shifted(text, new, 1)
  BY <1>1, <1>2 DEF Shifted
<1>4. Parses(text) <=> Parses(new)
  BY <1>2, <1>3, ShiftedParses
<1> QED
  BY <1>4 DEF new, first

----------------------------------------------------------------------------
\* The commands, and the names and values they come with.
LEMMA CommandIs ==
    ASSUME NEW c \in Commands
    PROVE  /\ c.op \in {"init", "use", "set"}
           /\ c.op = "use" => c.name \in STRING
           /\ c.op = "set" => c.name \in STRING /\ c.value \in STRING
BY TextsAssumption DEF Commands

\* The fields a command may change.
Touched(c) == IF c.op = "use" THEN {Current} ELSE {c.field}

\* The least member of a set of naturals is in it.
LEMMA MinInSet ==
    ASSUME NEW S \in SUBSET Nat, S # {}
    PROVE  Min(S) \in S /\ \A k \in S : Min(S) <= k
BY LeastNat DEF Min

\* A text that parses is read to its last line.
LEMMA LoadIs ==
    ASSUME NEW text \in Seq(Line)
    PROVE  Load(text) = IF Parses(text) THEN Decoded(text)[Len(text)] ELSE NoConfig
BY NoneAssumption DEF Load

\* Two texts of which one parses if the other does are the same if they decode
\* to the same.
LEMMA SameLoad ==
    ASSUME NEW F, NEW s \in Seq(Line), NEW t \in Seq(Line), Parses(s) <=> Parses(t),
           Same(F, Decoded(s)[Len(s)], Decoded(t)[Len(t)])
    PROVE  Same(F, Load(s), Load(t))
<1>1. Same(F, NoConfig, NoConfig)
  BY DEF Same
<1>2. CASE Parses(s)
  BY <1>2, LoadIs
<1>3. CASE ~ Parses(s)
  BY <1>1, <1>3, LoadIs
<1> QED
  BY <1>2, <1>3

\* replaceTopLevelField changes nothing but the current connection.
LEMMA TopKeeps ==
    ASSUME NEW text \in Seq(Line), NEW v \in Word
    PROVE  /\ ReplaceTop(text, Current, v) \in Seq(Line)
           /\ Same({Current}, Load(text), Load(ReplaceTop(text, Current, v)))
           /\ Parses(text) <=> Parses(ReplaceTop(text, Current, v))
<1> DEFINE lines == {i \in 1..Len(text) : Assigns(text[i], Current)}
           new == ReplaceTop(text, Current, v)
<1>1. Len(text) \in Nat /\ Len(text) \in 0..Len(text)
  OBVIOUS
<1>2. CASE lines = {}
  <2>1. new = <<Attr(Current, v)>> \o text
    BY <1>2 DEF ReplaceTop
  <2>2. /\ new \in Seq(Line) /\ Len(new) = Len(text) + 1
        /\ Same({Current}, Decoded(text)[Len(text)], Decoded(new)[Len(text) + 1])
    BY <1>1, <2>1, Prepend
  <2>3. Parses(text) <=> Parses(new)
    <3>1. \A i \in 1..Len(text) : ~ Assigns(text[i], Current)
      BY <1>2
    <3> HIDE DEF new
    <3> QED BY <2>1, <3>1, PrependParses
  <2> HIDE DEF new
  <2>4. Same({Current}, Load(text), Load(new))
    BY <2>2, <2>3, SameLoad
  <2> QED BY <2>2, <2>3, <2>4 DEF new
<1>3. CASE lines # {}
  <2>1. new = Set(text, {Min(lines)}, v)
    BY <1>3 DEF ReplaceTop
  <2>2. Min(lines) \in lines
    <3>1. lines \in SUBSET Nat
      OBVIOUS
    <3> HIDE DEF lines
    <3> QED BY <1>3, <3>1, MinInSet
  <2>3. \A i \in {Min(lines)} \cap (1..Len(text)) : Assigns(text[i], Current)
    BY <2>2
  <2> HIDE DEF lines, new
  <2>4. /\ new \in Seq(Line) /\ Len(new) = Len(text)
        /\ \A i \in 1..Len(text) : Like({Current}, text[i], new[i])
    BY <2>1, <2>3, SetIs
  <2>5. Same({Current}, Decoded(text)[Len(text)], Decoded(new)[Len(text)])
    BY <1>1, <2>4, SameDecoded
  <2>6. Parses(text) <=> Parses(new)
    BY <2>4, AlikeParses
  <2>7. Same({Current}, Load(text), Load(new))
    BY <2>4, <2>5, <2>6, SameLoad
  <2> QED BY <2>4, <2>6, <2>7 DEF new
<1> QED
  BY <1>2, <1>3

\* replaceFieldInConfig changes nothing but values of its field.
LEMMA FieldKeeps ==
    ASSUME NEW text \in Seq(Line), NEW name, NEW field, NEW v \in Word
    PROVE  /\ ReplaceField(text, name, field, v) \in Seq(Line)
           /\ Len(ReplaceField(text, name, field, v)) = Len(text)
           /\ \A i \in 1..Len(text) : Like({field}, text[i], ReplaceField(text, name, field, v)[i])
           /\ Same({field}, Load(text), Load(ReplaceField(text, name, field, v)))
<1> DEFINE hits == {i \in 1..Len(text) :
                      /\ Depth(text, name)[i - 1] > 0
                      /\ Assigns(text[i], field) /\ ~ text[i].closes}
           new == ReplaceField(text, name, field, v)
<1>1. Len(text) \in Nat /\ Len(text) \in 0..Len(text)
  OBVIOUS
<1>2. new = Set(text, hits, v)
  BY DEF ReplaceField
<1>3. \A i \in hits \cap (1..Len(text)) : Assigns(text[i], field)
  OBVIOUS
<1> HIDE DEF hits, new
<1>4. /\ new \in Seq(Line) /\ Len(new) = Len(text)
      /\ \A i \in 1..Len(text) : Like({field}, text[i], new[i])
  BY <1>2, <1>3, SetIs
<1>5. Same({field}, Decoded(text)[Len(text)], Decoded(new)[Len(text)])
  BY <1>1, <1>4, SameDecoded
<1>6. Parses(text) <=> Parses(new)
  BY <1>4, AlikeParses
<1>7. Same({field}, Load(text), Load(new))
  BY <1>4, <1>5, <1>6, SameLoad
<1> QED
  BY <1>4, <1>7 DEF new

\* Either edit changes nothing but what its command is about.
LEMMA EditKeeps ==
    ASSUME NEW c \in Commands, c.op # "init", NEW text \in Seq(Line)
    PROVE  Edited(c, text) \in Seq(Line) /\ Same(Touched(c), Load(text), Load(Edited(c, text)))
<1>1. CASE c.op = "use"
  <2>1. Edited(c, text) = ReplaceTop(text, Current, c.name) /\ Touched(c) = {Current}
    BY <1>1 DEF Edited, Touched
  <2>2. c.name \in Word
    BY <1>1, CommandIs DEF Word
  <2> QED BY <2>1, <2>2, TopKeeps
<1>2. CASE c.op = "set"
  <2>1. Edited(c, text) = ReplaceField(text, c.name, c.field, c.value)
    BY <1>2 DEF Edited
  <2>2. c.value \in Word /\ Touched(c) = {c.field}
    BY <1>2, CommandIs DEF Word, Touched
  <2> QED BY <2>1, <2>2, FieldKeeps
<1> QED
  BY <1>1, <1>2, CommandIs

\* The same configuration has the same connections.
LEMMA SameLabels ==
    ASSUME NEW F, NEW s \in Seq(Line), NEW t \in Seq(Line), Same(F, Load(s), Load(t))
    PROVE  LabelsOf(s) = LabelsOf(t)
<1> DEFINE c == Load(s).conns
           d == Load(t).conns
<1>1. c \in Seq(Conn) /\ d \in Seq(Conn)
  BY LoadTyped DEF Config
<1>2. /\ Len(c) = Len(d)
      /\ \A i \in 1..Len(c) : c[i].type = d[i].type /\ c[i].name = d[i].name
  BY DEF Same
<1>3. LabelsOf(s) = [i \in DOMAIN c |-> <<c[i].type, c[i].name>>]
      /\ LabelsOf(t) = [i \in DOMAIN d |-> <<d[i].type, d[i].name>>]
  BY DEF LabelsOf
<1> HIDE DEF c, d
<1>4. DOMAIN c = 1..Len(c) /\ DOMAIN d = 1..Len(c)
  BY <1>1, <1>2
<1> QED
  BY <1>2, <1>3, <1>4

----------------------------------------------------------------------------
\* A text with all the connections of one it may have started with, or none.
Kept(text) == text \in Seq(Line) /\ LabelsOf(text) \in Whole \union {<<>>}

\* The inductive invariant: what an editor read is kept too, while no text is
\* mixed, and who writes without having read is `config init`.
EditorInv ==
    /\ file \in Seq(Line) \union {None}
    /\ ~ mixed /\ file # None => Kept(file)
    /\ step \in [Editor -> Rest \union {"stat", "load", "read", "truncate", "write"}]
    /\ todo \in [Editor -> Commands \union {None}]
    /\ seen \in [Editor -> Seq(Line) \union {None}]
    /\ alone \in BOOLEAN
    /\ mixed \in BOOLEAN
    /\ \A e \in Editor :
         /\ step[e] \notin Rest => todo[e] \in Commands
         /\ step[e] = "stat" => todo[e].op = "init" /\ seen[e] = None
         /\ step[e] = "load" => todo[e].op = "use"
         /\ step[e] = "read" => todo[e].op # "init"
         /\ step[e] \in {"truncate", "write"} => (seen[e] = None <=> todo[e].op = "init")
         /\ step[e] = "write" => file # None
         /\ ~ mixed /\ seen[e] # None => Kept(seen[e])

\* The truncated file has no connection.
LEMMA EmptyKept == <<>> \in Seq(Line) /\ LabelsOf(<<>>) = <<>> /\ Kept(<<>>)
<1>1. <<>> \in Seq(Line) /\ Len(<<>>) = 0
  OBVIOUS
<1>2. Load(<<>>) = NoConfig
  <2> DEFINE no == <<>>
  <2>1. no \in Seq(Line) /\ Len(no) = 0
    BY <1>1
  <2> HIDE DEF no
  <2>2. Decoded(no)[Len(no)] = NoConfig
    BY <2>1, DecodedIs
  <2>3. Load(no) = NoConfig
    BY <2>1, <2>2, LoadIs
  <2> QED BY <2>3 DEF no
<1>3. DOMAIN Load(<<>>).conns = 1..0
  BY <1>2 DEF NoConfig
<1>4. LabelsOf(<<>>) = [i \in 1..0 |-> <<Load(<<>>).conns[i].type, Load(<<>>).conns[i].name>>]
  BY <1>3 DEF LabelsOf
<1>5. LabelsOf(<<>>) = <<>>
  BY <1>4
<1> QED
  BY <1>1, <1>5 DEF Kept

\* The file an editor finds first, and the one `config init` writes.
LEMMA TextsKept ==
    /\ Kept(Default)
    /\ \A t \in Texts : t # None => Kept(t)
BY TextsAssumption DEF Kept, Whole

\* What a command makes of a text is a text.
LEMMA EditedTyped ==
    ASSUME NEW c \in Commands, NEW text, c.op # "init" => text \in Seq(Line)
    PROVE  Edited(c, text) \in Seq(Line)
<1>1. CASE c.op = "init"
  BY <1>1, TextsAssumption DEF Edited
<1>2. CASE c.op # "init"
  BY <1>2, EditKeeps
<1> QED
  BY <1>1, <1>2

\* What a command writes.
LEMMA EditedKept ==
    ASSUME NEW c \in Commands, NEW text, c.op = "init" \/ Kept(text)
    PROVE  Kept(Edited(c, text))
<1>1. CASE c.op = "init"
  BY <1>1, TextsKept DEF Edited
<1>2. CASE c.op # "init"
  <2>1. /\ text \in Seq(Line) /\ Edited(c, text) \in Seq(Line)
        /\ Same(Touched(c), Load(text), Load(Edited(c, text)))
    BY <1>2, EditKeeps DEF Kept
  <2>2. LabelsOf(text) = LabelsOf(Edited(c, text))
    BY <2>1, SameLabels
  <2> QED BY <1>2, <2>1, <2>2 DEF Kept
<1> QED
  BY <1>1, <1>2

\* What is written, and what is left behind it, is lines.
LEMMA LeftTyped ==
    ASSUME NEW text \in Seq(Line), NEW tail \in Left(text)
    PROVE  tail \in Seq(Line)
<1>1. Len(text) \in Nat
  OBVIOUS
<1>2. CASE tail = <<>>
  BY <1>2
<1>3. ASSUME NEW n \in 2..Len(text), tail = SubSeq(text, n, Len(text)) PROVE tail \in Seq(Line)
  BY <1>1, <1>3, SubSeqProperties
<1>4. ASSUME NEW n \in 1..Len(text),
             tail = <<Fragment(text[n])>> \o SubSeq(text, n + 1, Len(text))
      PROVE  tail \in Seq(Line)
  <2>1. text[n] \in Line
    OBVIOUS
  <2>2. Fragment(text[n]) \in Line
    BY <2>1 DEF Fragment, Line, Word
  <2>3. <<Fragment(text[n])>> \in Seq(Line)
    BY <2>2
  <2>4. SubSeq(text, n + 1, Len(text)) \in Seq(Line)
    BY <1>1, SubSeqProperties
  <2> QED BY <1>4, <2>3, <2>4, ConcatProperties
<1> QED
  BY <1>2, <1>3, <1>4 DEF Left

\* What a command that is not mixed with another writes is its own text.
LEMMA Written ==
    ASSUME NEW e \in Editor, WriteFile(e), mixed \in BOOLEAN,
           Edited(todo[e], seen[e]) \in Seq(Line)
    PROVE  /\ mixed' \in BOOLEAN
           /\ ~ mixed' => ~ mixed /\ file' = Edited(todo[e], seen[e])
           /\ Left(file) = {<<>>} /\ ~ mixed => ~ mixed'
<1> DEFINE text == Edited(todo[e], seen[e])
<1>1. PICK tail \in Left(file) : file' = text \o tail /\ mixed' = (mixed \/ tail # <<>>)
  BY DEF WriteFile
<1> HIDE DEF text
<1>2. mixed' \in BOOLEAN /\ (~ mixed' <=> ~ mixed /\ tail = <<>>)
  BY <1>1, Zenon
<1>3. text \o <<>> = text
  BY ConcatEmptySeq DEF text
<1> QED
  BY <1>1, <1>2, <1>3 DEF text

\* Nothing is left of an empty text.
LEMMA EmptyLeft == Left(<<>>) = {<<>>}
<1> DEFINE no == <<>>
<1>1. Len(no) = 0
  OBVIOUS
<1> HIDE DEF no
<1>2. Left(no) = {<<>>}
  BY <1>1 DEF Left
<1> QED
  BY <1>2 DEF no

\* The invariant holds at first, ...
LEMMA EditorInit == InitConfig => EditorInv
BY TextsAssumption, TextsKept DEF InitConfig, EditorInv, Rest

\* ... when a command starts, ...
LEMMA EditorStarts ==
    ASSUME EditorInv, NEW e \in Editor, NEW c \in Commands, Start(e, c)
    PROVE  EditorInv'
<1>1. c.op \in {"init", "use", "set"}
  BY CommandIs
<1>2. step'[e] = CASE c.op = "init" -> "stat" [] c.op = "use" -> "load" [] c.op = "set" -> "read"
  BY DEF Start, To, EditorInv
<1> QED
  BY <1>1, <1>2 DEF EditorInv, Start, To, Rest

\* ... and after each of its system calls.
LEMMA EditorMoves ==
    ASSUME EditorInv, NEW e \in Editor, EditorStep(e)
    PROVE  EditorInv'
<1> USE DEF EditorInv, To, Rest
<1>1. CASE Stat(e)
  BY <1>1 DEF Stat
<1>2. CASE LoadForUse(e)
  BY <1>2 DEF LoadForUse
<1>3. CASE ReadFile(e)
  <2>1. seen' \in [Editor -> Seq(Line) \union {None}]
    BY <1>3 DEF ReadFile
  <2>2. /\ seen'[e] = file /\ todo[e] \in Commands
        /\ step'[e] = IF file = None THEN "idle" ELSE "truncate"
        /\ \A f \in Editor \ {e} : seen'[f] = seen[f] /\ step'[f] = step[f]
    BY <1>3 DEF ReadFile
  <2> QED BY <1>3, <2>1, <2>2 DEF ReadFile
<1>4. CASE Truncate(e)
  <2>1. file' \in Seq(Line) /\ file' # None /\ Kept(file')
    BY <1>4, EmptyKept, NoneAssumption DEF Truncate
  <2> QED BY <1>4, <2>1 DEF Truncate
<1>5. CASE WriteFile(e)
  <2> DEFINE text == Edited(todo[e], seen[e])
  <2>1. /\ todo[e] \in Commands /\ file \in Seq(Line)
        /\ todo[e].op # "init" => seen[e] \in Seq(Line) /\ (~ mixed => Kept(seen[e]))
    BY <1>5 DEF WriteFile
  <2>2. text \in Seq(Line)
    BY <2>1, EditedTyped
  <2>3. ~ mixed => Kept(text)
    BY <2>1, EditedKept
  <2>4. mixed' \in BOOLEAN /\ (~ mixed' => ~ mixed /\ file' = text)
    BY <1>5, <2>2, Written
  <2> HIDE DEF text
  <2>5. file' \in Seq(Line)
    <3>1. PICK tail \in Left(file) : file' = text \o tail
      BY <1>5 DEF WriteFile, text
    <3>2. tail \in Seq(Line)
      BY <2>1, LeftTyped
    <3> HIDE DEF EditorInv
    <3> QED BY <2>2, <3>1, <3>2, ConcatProperties
  <2>6. file' # None
    BY <2>5, NoneAssumption
  <2>7. ~ mixed' => Kept(file')
    BY <2>3, <2>4
  <2>8. /\ UNCHANGED <<todo, seen, alone>>
        /\ step' = [step EXCEPT ![e] = "idle"]
    BY <1>5 DEF WriteFile
  <2> QED BY <2>4, <2>5, <2>6, <2>7, <2>8
<1>6. CASE Killed(e)
  BY <1>6 DEF Killed
<1> QED
  BY <1>1, <1>2, <1>3, <1>4, <1>5, <1>6 DEF EditorStep

\* It is inductive.
LEMMA EditorNext == EditorInv /\ [NextConfig]_config => EditorInv'
<1> SUFFICES ASSUME EditorInv, [NextConfig]_config PROVE EditorInv'
  OBVIOUS
<1>1. CASE UNCHANGED config
  BY <1>1 DEF config, EditorInv
<1> QED
  BY <1>1, EditorStarts, EditorMoves DEF NextConfig

\* No order of `config init`, `config use` and `config set`, overlapping or killed
\* half way, makes, drops or renames a connection (main.go:606-654): the file has
\* all of those it started with, or none, for every text and any arguments, as
\* long as no command has written over a longer text.
THEOREM ConnectionsStay == SpecConfig => []ConnectionsKept
<1>1. EditorInv => ConnectionsKept
  BY DEF EditorInv, Kept, ConnectionsKept
<1> QED
  BY <1>1, EditorInit, EditorNext, PTL DEF SpecConfig

\* The editors' own state: only `config init` writes what it has not read, and
\* who writes has made the file.
THEOREM EditorsTyped == SpecConfig => []TypeOK
<1>1. EditorInv => TypeOK
  BY DEF EditorInv, TypeOK
<1> QED
  BY <1>1, EditorInit, EditorNext, PTL DEF SpecConfig
----------------------------------------------------------------------------
(* Texts on which the line editors see what HCL sees                       *)

\* Blocks are closed on a line of their own and stand side by side, and no
\* header has the name of a connection that is set in another place of it.
Tidy(text) ==
    \A i \in 1..Len(text) :
        /\ IsHeader(text[i]) =>
             /\ ~ text[i].closes /\ ~ Decoded(text)[i - 1].inside
             /\ \A s \in Sets : s.name \notin {text[i].labels[1], text[i].value}
        /\ ~ IsHeader(text[i]) /\ Decoded(text)[i - 1].inside => ~ text[i].opens
        /\ text[i].closes => text[i].field \notin Field

\* Line n is in the block of the connection of that name, or its header.
InBlock(text, n, name) ==
    LET c == Decoded(text)[n]
    IN  c.inside /\ Len(c.conns) > 0 /\ c.conns[Len(c.conns)].name = name

\* The last block up to line n assigns the field.
Given(text, field, n) ==
    \E j \in 1..n : /\ Assigns(text[j], field) /\ Decoded(text)[j - 1].inside
                    /\ \A k \in j..n : ~ IsHeader(text[k])

\* Every block that is set has the field.
Filled(text) ==
    \A s \in Sets, n \in 0..Len(text) :
        LET conns == Decoded(text)[n].conns
        IN  /\ n = Len(text) \/ IsHeader(text[n + 1])
            /\ Len(conns) > 0 /\ conns[Len(conns)].name = s.name
            => Given(text, s.field, n)

\* The depth after the line, from that before it.
Deeper(d, l, name) ==
    IF NamedBy(l, name) THEN 1
    ELSE IF d > 0 THEN d + (IF l.opens THEN 1 ELSE 0) - (IF l.closes THEN 1 ELSE 0)
    ELSE 0

\* The depth after each line is what Deeper makes of the one before.
LEMMA DepthIs ==
    ASSUME NEW text, Len(text) \in Nat, NEW name
    PROVE  /\ Depth(text, name)[0] = 0
           /\ \A i \in 1..Len(text) :
                Depth(text, name)[i] = Deeper(Depth(text, name)[i - 1], text[i], name)
<1> DEFINE n == Len(text)
           From(g, k) == g[0] = 0 /\ \A i \in 1..k : g[i] = Deeper(g[i - 1], text[i], name)
           T == {k \in 0..n : \E g : From(g, k)}
           Rec(g) == g = [k \in 0..n |-> IF k = 0 THEN 0 ELSE Deeper(g[k - 1], text[k], name)]
<1> HIDE DEF n
<1>0. n \in Nat
  BY DEF n
<1>1. 0 \in T
  <2> DEFINE g == [i \in 0..n |-> 0]
  <2>1. g[0] = 0 /\ 1..0 = {}
    BY <1>0
  <2> HIDE DEF g
  <2>2. From(g, 0)
    BY <2>1
  <2> QED BY <1>0, <2>2
<1>2. ASSUME NEW k \in 0..(n - 1), k \in T PROVE k + 1 \in T
  <2>1. PICK g : From(g, k)
    BY <1>2
  <2> DEFINE h == [i \in 0..n |-> IF i = k + 1 THEN Deeper(g[k], text[k + 1], name) ELSE g[i]]
  <2>2. h[0] = 0
    BY <1>0, <2>1
  <2>3. ASSUME NEW i \in 1..(k + 1) PROVE h[i] = Deeper(h[i - 1], text[i], name)
    <3>1. h[i - 1] = g[i - 1]
      BY <1>0
    <3>2. CASE i = k + 1
      BY <1>0, <3>1, <3>2
    <3>3. CASE i # k + 1
      <4>1. i \in 1..k /\ h[i] = g[i]
        BY <1>0, <3>3
      <4> QED BY <2>1, <3>1, <4>1
    <3> QED BY <3>2, <3>3
  <2> HIDE DEF h
  <2>4. From(h, k + 1)
    BY <2>2, <2>3
  <2> QED BY <1>0, <2>4
<1>3. n \in T
  <2> HIDE DEF T
  <2>1. \A i \in 0..n : i \in T
    BY <1>0, <1>1, <1>2, Climb
  <2> QED BY <1>0, <2>1
<1>4. PICK g : From(g, n)
  BY <1>3
<1> DEFINE h == [i \in 0..n |-> g[i]]
<1>5. Rec(h)
  <2>1. ASSUME NEW k \in 0..n
        PROVE  h[k] = IF k = 0 THEN 0 ELSE Deeper(h[k - 1], text[k], name)
    <3>1. CASE k = 0
      BY <1>4, <3>1
    <3>2. CASE k # 0
      <4>1. k \in 1..n /\ h[k] = g[k] /\ h[k - 1] = g[k - 1]
        BY <1>0, <3>2
      <4> QED BY <1>4, <3>2, <4>1
    <3> QED BY <3>1, <3>2
  <2> QED BY <2>1
<1> HIDE DEF h
<1>6. Rec(Depth(text, name))
  <2>1. \E f : Rec(f)
    BY <1>5
  <2>2. Depth(text, name) = CHOOSE f : Rec(f)
    BY DEF Depth, Deeper, n
  <2> HIDE DEF Rec
  <2> QED BY <2>1, <2>2, Zenon
<1> QED
  BY <1>0, <1>6 DEF n

\* In a tidy text the edit knows in which block it is.
LEMMA DepthInSync ==
    ASSUME NEW text \in Seq(Line), Tidy(text), NEW s \in Sets
    PROVE  \A n \in 0..Len(text) :
             Depth(text, s.name)[n] = IF InBlock(text, n, s.name) THEN 1 ELSE 0
<1> DEFINE d == Depth(text, s.name)
           T == {n \in 0..Len(text) : d[n] = IF InBlock(text, n, s.name) THEN 1 ELSE 0}
<1>1. Len(text) \in Nat
  OBVIOUS
<1>2. 0 \in T
  <2>1. d[0] = 0 /\ Decoded(text)[0] = NoConfig
    BY <1>1, DepthIs, DecodedIs
  <2> HIDE DEF d
  <2> QED BY <1>1, <2>1 DEF InBlock, NoConfig
<1>3. ASSUME NEW n \in 0..(Len(text) - 1), n \in T PROVE n + 1 \in T
  <2> DEFINE l == text[n + 1]
             c == Decoded(text)[n]
             e == Decoded(text)[n + 1]
             name == s.name
  <2>1. n + 1 \in 1..Len(text) /\ (n + 1) - 1 = n /\ n \in 0..Len(text)
    BY <1>1
  <2>2. e = Decode(c, l) /\ l \in Line /\ c \in Config
    BY <1>1, <2>1, DecodedIs, DecodedTyped
  <2>3. d[n + 1] = Deeper(d[n], l, name)
    BY <1>1, <2>1, DepthIs
  <2>4. d[n] = IF c.inside /\ Len(c.conns) > 0 /\ c.conns[Len(c.conns)].name = name THEN 1 ELSE 0
    BY <1>3 DEF InBlock
  <2>5. /\ IsHeader(l) => ~ l.closes /\ ~ c.inside /\ name \notin {l.labels[1], l.value}
        /\ ~ IsHeader(l) /\ c.inside => ~ l.opens
    BY <2>1 DEF Tidy
  <2>6. /\ e.conns = Conns(c.conns, c.inside, l)
        /\ e.inside = ((IsHeader(l) \/ c.inside) /\ ~ l.closes)
        /\ c.conns \in Seq(Conn)
    BY <2>2 DEF Decode, Config
  <2>7. CASE IsHeader(l)
    <3>1. Len(e.conns) = Len(c.conns) + 1 /\ e.conns[Len(c.conns) + 1] = NewConn(l)
      BY <2>2, <2>6, <2>7, ConnsIs
    <3>2. e.conns[Len(e.conns)].name = l.labels[2] /\ Len(e.conns) > 0
      BY <2>6, <3>1 DEF NewConn
    <3>3. e.inside
      BY <2>5, <2>6, <2>7
    <3>4. d[n + 1] = IF name = l.labels[2] THEN 1 ELSE 0
      <4> HIDE DEF d, c, l, name
      <4> QED BY <2>3, <2>4, <2>5, <2>7 DEF Deeper, NamedBy
    <3>5. InBlock(text, n + 1, name) <=> name = l.labels[2]
      BY <3>2, <3>3 DEF InBlock
    <3>6. n + 1 \in 0..Len(text)
      BY <1>1
    <3> HIDE DEF d, l, name
    <3>7. d[n + 1] = IF InBlock(text, n + 1, name) THEN 1 ELSE 0
      BY <3>4, <3>5
    <3> QED BY <3>6, <3>7 DEF name
  <2>8. CASE ~ IsHeader(l)
    <3>1. /\ Len(e.conns) = Len(c.conns)
          /\ \A i \in 1..Len(c.conns) : e.conns[i].name = c.conns[i].name
      BY <2>2, <2>6, <2>8, ConnsIs
    <3>2. Len(c.conns) \in Nat /\ l.closes \in BOOLEAN
      BY <2>2, <2>6 DEF Line
    <3>3. Len(c.conns) > 0 => e.conns[Len(c.conns)].name = c.conns[Len(c.conns)].name
      BY <3>1, <3>2
    <3> HIDE DEF d, e, c, l, name
    <3>4. d[n + 1] = IF c.inside /\ Len(c.conns) > 0 /\ c.conns[Len(c.conns)].name = name
                          /\ ~ l.closes THEN 1 ELSE 0
      BY <2>3, <2>4, <2>5, <2>8, <3>2 DEF Deeper, NamedBy
    <3>5. InBlock(text, n + 1, name) <=>
            (c.inside /\ Len(c.conns) > 0 /\ c.conns[Len(c.conns)].name = name /\ ~ l.closes)
      BY <2>6, <2>8, <3>1, <3>3 DEF InBlock, e
    <3> QED BY <1>1, <3>4, <3>5 DEF name
  <2> QED BY <2>7, <2>8
<1> HIDE DEF T
<1>4. \A n \in 0..Len(text) : n \in T
  BY <1>1, <1>2, <1>3, Climb
<1> QED
  BY <1>4 DEF T

\* An attribute counts as given up to the next header.
LEMMA GivenStep ==
    ASSUME NEW text, Len(text) \in Nat, NEW n \in 0..(Len(text) - 1), NEW field,
           Given(text, field, n + 1)
    PROVE  /\ ~ IsHeader(text[n + 1])
           /\ \/ Given(text, field, n)
              \/ Assigns(text[n + 1], field) /\ Decoded(text)[n].inside
<1>1. PICK j \in 1..(n + 1) : /\ Assigns(text[j], field) /\ Decoded(text)[j - 1].inside
                              /\ \A k \in j..(n + 1) : ~ IsHeader(text[k])
  BY DEF Given
<1>2. ~ IsHeader(text[n + 1])
  BY <1>1
<1>3. CASE j = n + 1
  <2>1. j - 1 = n
    BY <1>3
  <2> QED BY <1>1, <1>2, <1>3, <2>1
<1>4. CASE j # n + 1
  <2>1. j \in 1..n
    BY <1>4
  <2> QED BY <1>1, <1>2, <2>1 DEF Given
<1> QED
  BY <1>3, <1>4

\* Up to line n of the new text, the value is given to the blocks of that name,
\* and to no other.
OnlyNamed(text, new, name, f, v, n) ==
    \A i \in 1..Len(Decoded(text)[n].conns) :
        /\ Decoded(text)[n].conns[i].name # name =>
             Decoded(new)[n].conns[i].attrs[f] = Decoded(text)[n].conns[i].attrs[f]
        /\ /\ Decoded(text)[n].conns[i].name = name
           /\ IF i = Len(Decoded(text)[n].conns) THEN Given(text, f, n) ELSE Filled(text)
           => Decoded(new)[n].conns[i].attrs[f] = v

\* That is what `config set` does to a tidy text.
LEMMA FieldIs ==
    ASSUME NEW text \in Seq(Line), Tidy(text), NEW s \in Sets,
           NEW name, name = s.name, NEW f \in Field, f = s.field, NEW v \in Word,
           NEW new, new = ReplaceField(text, name, f, v)
    PROVE  \A n \in 0..Len(text) : OnlyNamed(text, new, name, f, v, n)
<1> DEFINE hits == {i \in 1..Len(text) :
                      /\ Depth(text, name)[i - 1] > 0
                      /\ Assigns(text[i], f) /\ ~ text[i].closes}
           old(n) == Decoded(text)[n].conns
           now(n) == Decoded(new)[n].conns
           Good(n) == \A i \in 1..Len(old(n)) :
             /\ old(n)[i].name # name => now(n)[i].attrs[f] = old(n)[i].attrs[f]
             /\ /\ old(n)[i].name = name
                /\ IF i = Len(old(n)) THEN Given(text, f, n) ELSE Filled(text)
                => now(n)[i].attrs[f] = v
           T == {n \in 0..Len(text) : Good(n)}
<1>1. Len(text) \in Nat
  OBVIOUS
<1>2. /\ new \in Seq(Line) /\ Len(new) = Len(text)
      /\ \A i \in 1..Len(text) :
           /\ new[i] = IF i \in hits THEN [text[i] EXCEPT !.value = v] ELSE text[i]
           /\ Like({f}, text[i], new[i])
  <2>1. new = Set(text, hits, v)
    BY DEF ReplaceField
  <2>2. \A i \in hits \cap (1..Len(text)) : Assigns(text[i], f)
    OBVIOUS
  <2> HIDE DEF hits
  <2>3. /\ new \in Seq(Line) /\ Len(new) = Len(text)
        /\ \A i \in 1..Len(text) : Like({f}, text[i], new[i])
    <3>1. /\ Set(text, hits, v) \in Seq(Line) /\ Len(Set(text, hits, v)) = Len(text)
          /\ \A i \in 1..Len(text) : Like({f}, text[i], Set(text, hits, v)[i])
      BY <2>2, SetIs
    <3> QED BY <2>1, <3>1
  <2>4. \A i \in 1..Len(text) :
          new[i] = IF i \in hits THEN [text[i] EXCEPT !.value = v] ELSE text[i]
    BY <2>1 DEF Set
  <2> QED BY <2>3, <2>4
<1>3. \A n \in 0..Len(text) : Same({f}, Decoded(text)[n], Decoded(new)[n])
  <2> HIDE DEF hits
  <2> QED BY <1>2, SameDecoded
<1>4. ASSUME NEW n \in 0..(Len(text) - 1)
      PROVE  n + 1 \in hits <=>
               InBlock(text, n, name) /\ Assigns(text[n + 1], f) /\ ~ text[n + 1].closes
  <2>1. n + 1 \in 1..Len(text) /\ (n + 1) - 1 = n /\ n \in 0..Len(text)
    BY <1>1
  <2>2. Depth(text, name)[n] > 0 <=> InBlock(text, n, name)
    BY <2>1, DepthInSync
  <2> QED BY <2>1, <2>2
<1>5. 0 \in T
  <2>1. Len(old(0)) = 0
    BY <1>1, DecodedIs DEF NoConfig
  <2>2. Good(0)
    BY <2>1
  <2> HIDE DEF Good
  <2> QED BY <1>1, <2>2
<1>6. ASSUME NEW n \in 0..(Len(text) - 1), n \in T PROVE n + 1 \in T
  <2> DEFINE l == text[n + 1]
             m == new[n + 1]
             c == Decoded(text)[n]
             d == Decoded(new)[n]
             k == Len(c.conns)
  <2>1. n + 1 \in 1..Len(text) /\ (n + 1) - 1 = n /\ n \in 0..Len(text) /\ n + 1 \in 0..Len(text)
    BY <1>1
  <2>2. /\ l \in Line /\ m \in Line /\ c \in Config /\ d \in Config
        /\ Decoded(text)[n + 1] = Decode(c, l) /\ Decoded(new)[n + 1] = Decode(d, m)
    <3> HIDE DEF hits
    <3> QED BY <1>1, <1>2, <2>1, DecodedIs, DecodedTyped
  <2>3. /\ Like({f}, l, m)
        /\ m = IF n + 1 \in hits THEN [l EXCEPT !.value = v] ELSE l
    BY <1>2, <2>1
  <2>4. /\ n + 1 \in hits <=> InBlock(text, n, name) /\ Assigns(l, f) /\ ~ l.closes
        /\ l.closes => l.field \notin Field
    BY <1>4, <2>1 DEF Tidy
  <2>5. Same({f}, c, d) /\ Good(n)
    BY <1>3, <1>6, <2>1
  <2>6. Filled(text) /\ IsHeader(l) /\ k > 0 /\ c.conns[k].name = name => Given(text, f, n)
    BY <2>1 DEF Filled
  <2>71. IsHeader(l) = IsHeader(m) /\ m.field = l.field
    BY <2>3 DEF Like, IsHeader
  <2>72. c.conns \in Seq(Conn) /\ d.conns \in Seq(Conn) /\ k \in Nat /\ Len(d.conns) = k
    <3>1. c.conns \in Seq(Conn) /\ d.conns \in Seq(Conn)
      BY <2>2 DEF Config
    <3>2. Len(d.conns) = k
      BY <2>5 DEF Same
    <3> QED BY <3>1, <3>2, LenProperties
  <2>73. c.inside = d.inside
    BY <2>5 DEF Same
  <2>74. old(n + 1) = Conns(c.conns, c.inside, l) /\ now(n + 1) = Conns(d.conns, d.inside, m)
    BY <2>2 DEF Decode
  <2>7. /\ old(n + 1) = Conns(c.conns, c.inside, l) /\ now(n + 1) = Conns(d.conns, d.inside, m)
        /\ c.conns \in Seq(Conn) /\ d.conns \in Seq(Conn) /\ k \in Nat /\ Len(d.conns) = k
        /\ c.inside = d.inside /\ IsHeader(l) = IsHeader(m) /\ m.field = l.field
        /\ old(n) = c.conns /\ now(n) = d.conns
    BY <2>71, <2>72, <2>73, <2>74
  <2> HIDE DEF hits, c, d, l, m, old, now
  <2>8. ASSUME NEW i \in 1..k
        PROVE  /\ old(n + 1)[i].name = c.conns[i].name
               /\ old(n + 1)[i].attrs[f] =
                    IF ~ IsHeader(l) /\ c.inside /\ i = k /\ f = l.field
                      THEN l.value ELSE c.conns[i].attrs[f]
               /\ now(n + 1)[i].attrs[f] =
                    IF ~ IsHeader(l) /\ c.inside /\ i = k /\ f = l.field
                      THEN m.value ELSE d.conns[i].attrs[f]
    <3>1. /\ old(n + 1)[i].name = c.conns[i].name
          /\ old(n + 1)[i].attrs[f] =
               IF ~ IsHeader(l) /\ c.inside /\ i = Len(c.conns) /\ f = l.field
                 THEN l.value ELSE c.conns[i].attrs[f]
      <4>1. /\ Conns(c.conns, c.inside, l)[i].name = c.conns[i].name
            /\ Conns(c.conns, c.inside, l)[i].attrs[f] =
                 IF ~ IsHeader(l) /\ c.inside /\ i = Len(c.conns) /\ f = l.field
                   THEN l.value ELSE c.conns[i].attrs[f]
        <5>1. i \in 1..Len(c.conns)
          BY <2>7
        <5>2. c.conns \in Seq(Conn) /\ l \in Line
          BY <2>2, <2>7
        <5>3. Conns(c.conns, c.inside, l)[i].name = c.conns[i].name
          BY <5>1, <5>2, ConnsIs
        <5>4. Conns(c.conns, c.inside, l)[i].attrs[f] =
                IF ~ IsHeader(l) /\ c.inside /\ i = Len(c.conns) /\ f = l.field
                  THEN l.value ELSE c.conns[i].attrs[f]
          BY <5>1, <5>2, ConnsIs
        <5> QED BY <5>3, <5>4
      <4> QED BY <2>7, <4>1
    <3>2. now(n + 1)[i].attrs[f] =
            IF ~ IsHeader(m) /\ d.inside /\ i = Len(d.conns) /\ f = m.field
              THEN m.value ELSE d.conns[i].attrs[f]
      <4>1. Conns(d.conns, d.inside, m)[i].attrs[f] =
              IF ~ IsHeader(m) /\ d.inside /\ i = Len(d.conns) /\ f = m.field
                THEN m.value ELSE d.conns[i].attrs[f]
        <5>1. i \in 1..Len(d.conns)
          BY <2>7
        <5>2. d.conns \in Seq(Conn) /\ m \in Line
          BY <2>2, <2>7
        <5> QED BY <5>1, <5>2, ConnsIs
      <4> QED BY <2>7, <4>1
    <3> QED BY <2>7, <3>1, <3>2
  <2>9. CASE IsHeader(l)
    <3>1. n + 1 \notin hits /\ m = l /\ ~ Given(text, f, n + 1)
      <4>1. ~ Given(text, f, n + 1)
        BY <1>1, <2>9, GivenStep DEF l
      <4> QED BY <2>3, <2>4, <2>9, <4>1 DEF Assigns
    <3>2. /\ Len(old(n + 1)) = k + 1
          /\ old(n + 1)[k + 1] = NewConn(l) /\ now(n + 1)[k + 1] = NewConn(l)
      <4>1. Len(old(n + 1)) = Len(c.conns) + 1 /\ old(n + 1)[Len(c.conns) + 1] = NewConn(l)
        BY <2>2, <2>7, <2>9, ConnsIs
      <4>2. now(n + 1)[Len(d.conns) + 1] = NewConn(m)
        <5>1. IsHeader(m)
          BY <2>9, <3>1
        <5>2. Conns(d.conns, d.inside, m)[Len(d.conns) + 1] = NewConn(m)
          BY <2>2, <2>7, <5>1, ConnsIs
        <5> QED BY <2>7, <5>2
      <4> QED BY <2>7, <3>1, <4>1, <4>2
    <3>3. ASSUME NEW i \in 1..k
          PROVE  /\ old(n + 1)[i].name # name =>
                      now(n + 1)[i].attrs[f] = old(n + 1)[i].attrs[f]
                 /\ old(n + 1)[i].name = name /\ Filled(text) => now(n + 1)[i].attrs[f] = v
      BY <2>5, <2>6, <2>7, <2>8, <2>9
    <3>4. Good(n + 1)
      BY <2>7, <3>1, <3>2, <3>3
    <3> HIDE DEF Good
    <3> QED BY <2>1, <3>4
  <2>10. CASE ~ IsHeader(l)
    <3>1. Len(old(n + 1)) = k
      BY <2>2, <2>7, <2>10, ConnsIs
    <3>2. InBlock(text, n, name) <=> c.inside /\ k > 0 /\ c.conns[k].name = name
      BY DEF InBlock, c
    <3>3. ASSUME NEW i \in 1..k, c.conns[i].name # name
          PROVE  now(n + 1)[i].attrs[f] = old(n + 1)[i].attrs[f]
      <4>1. i = k => m = l
        BY <2>3, <2>4, <3>2, <3>3
      <4> QED BY <2>5, <2>7, <2>8, <3>3, <4>1
    <3>4. ASSUME NEW i \in 1..k, c.conns[i].name = name,
                 IF i = k THEN Given(text, f, n + 1) ELSE Filled(text)
          PROVE  now(n + 1)[i].attrs[f] = v
      <4>1. CASE i # k
        BY <2>5, <2>7, <2>8, <3>4, <4>1
      <4>2. CASE i = k /\ c.inside /\ f = l.field
        <5>1. n + 1 \in hits
          BY <2>4, <2>10, <3>2, <3>4, <4>2 DEF Assigns
        <5>2. m.value = v
          BY <2>2, <2>3, <5>1 DEF Line
        <5> QED BY <2>8, <2>10, <4>2, <5>2
      <4>3. CASE i = k /\ ~ (c.inside /\ f = l.field)
        <5>1. Given(text, f, n)
          BY <1>1, <3>4, <4>3, GivenStep DEF Assigns, l, c
        <5>2. now(n)[i].attrs[f] = v
          BY <2>5, <2>7, <3>4, <4>3, <5>1
        <5> QED BY <2>7, <2>8, <2>10, <4>3, <5>2
      <4> QED BY <4>1, <4>2, <4>3
    <3>5. Good(n + 1)
      BY <2>8, <3>1, <3>3, <3>4
    <3> HIDE DEF Good
    <3> QED BY <2>1, <3>5
  <2> QED BY <2>9, <2>10
<1> HIDE DEF T
<1>7. \A n \in 0..Len(text) : n \in T
  BY <1>1, <1>5, <1>6, Climb
<1> QED
  BY <1>7 DEF T, OnlyNamed

\* Connections that agree in everything are one.
LEMMA SameConn ==
    ASSUME NEW c \in Conn, NEW d \in Conn, c.type = d.type, c.name = d.name,
           \A f \in Field : c.attrs[f] = d.attrs[f]
    PROVE  c = d
<1>1. c.attrs \in [Field -> Word] /\ d.attrs \in [Field -> Word]
  BY DEF Conn
<1>2. c.attrs = d.attrs
  BY <1>1
<1> QED
  BY <1>2 DEF Conn

\* What `config set` makes of a tidy configuration: the other connections stay,
\* and if every block has the field, it is what the command says.
LEMMA SetIsField ==
    ASSUME NEW text \in Seq(Line), Tidy(text), NEW s \in Sets,
           NEW name, name = s.name, NEW f \in Field, f = s.field, NEW v \in Word
    PROVE  LET old == Load(text)
               new == Load(ReplaceField(text, name, f, v))
           IN  /\ new.current = old.current
               /\ \A i \in DOMAIN old.conns : old.conns[i].name # name => new.conns[i] = old.conns[i]
               /\ Filled(text) => new = SetField(old, name, f, v)
<1> DEFINE text2 == ReplaceField(text, name, f, v)
           old == Load(text)
           new == Load(text2)
           k == Len(old.conns)
<1>1. /\ text2 \in Seq(Line) /\ Len(text2) = Len(text) /\ Same({f}, old, new)
      /\ Len(text) \in 0..Len(text)
  <2>1. /\ text2 \in Seq(Line) /\ Len(text2) = Len(text)
        /\ Same({f}, Load(text), Load(text2))
    BY FieldKeeps
  <2>2. Len(text) \in 0..Len(text)
    OBVIOUS
  <2> QED BY <2>1, <2>2
<1> SUFFICES ASSUME Parses(text) PROVE
               /\ new.current = old.current
               /\ \A i \in DOMAIN old.conns :
                    old.conns[i].name # name => new.conns[i] = old.conns[i]
               /\ Filled(text) => new = SetField(old, name, f, v)
  <2> SUFFICES ASSUME ~ Parses(text) PROVE old = NoConfig /\ new = NoConfig
               /\ SetField(NoConfig, name, f, v) = NoConfig /\ DOMAIN NoConfig.conns = {}
    OBVIOUS
  <2>1. ~ Parses(text2)
    BY FieldKeeps, AlikeParses
  <2>2. old = NoConfig /\ new = NoConfig
    <3> HIDE DEF text2
    <3> QED BY <1>1, <2>1, LoadIs
  <2> DEFINE c == NoConfig.conns
             e(i) == IF c[i].name = name THEN Assign(c[i], f, v) ELSE c[i]
  <2>3. DOMAIN c = {} /\ c = [i \in {} |-> c[i]]
    BY DEF NoConfig
  <2>4. SetField(NoConfig, name, f, v) = [NoConfig EXCEPT !.conns = [i \in DOMAIN c |-> e(i)]]
    BY DEF SetField
  <2>5. NoConfig = [NoConfig EXCEPT !.conns = c]
    BY DEF NoConfig
  <2> HIDE DEF c, e
  <2>6. [i \in DOMAIN c |-> e(i)] = c
    BY <2>3
  <2>7. SetField(NoConfig, name, f, v) = NoConfig
    BY <2>4, <2>5, <2>6
  <2> QED BY <2>2, <2>3, <2>7 DEF c
<1>2. old = Decoded(text)[Len(text)] /\ new = Decoded(text2)[Len(text)]
  <2>1. Parses(text2)
    BY FieldKeeps, AlikeParses
  <2> HIDE DEF text2
  <2> QED BY <1>1, <2>1, LoadIs
<1>3. \A i \in 1..k :
        /\ old.conns[i].name # name => new.conns[i].attrs[f] = old.conns[i].attrs[f]
        /\ /\ old.conns[i].name = name
           /\ IF i = k THEN Given(text, f, Len(text)) ELSE Filled(text)
           => new.conns[i].attrs[f] = v
  <2>1. Len(text) \in 0..Len(text) /\ text2 = ReplaceField(text, name, f, v)
    BY <1>1
  <2> HIDE DEF text2
  <2>2. OnlyNamed(text, text2, name, f, v, Len(text))
    BY <2>1, FieldIs
  <2> HIDE DEF old, new
  <2> QED BY <1>2, <2>2 DEF OnlyNamed
<1>4. /\ old \in Config /\ new \in Config
  <2> HIDE DEF text2
  <2> QED BY <1>1, LoadTyped
<1>5. /\ old.conns \in Seq(Conn) /\ new.conns \in Seq(Conn) /\ k \in Nat
      /\ Len(new.conns) = k /\ DOMAIN old.conns = 1..k /\ DOMAIN new.conns = 1..k
  BY <1>1, <1>4 DEF Config, Same
<1>6. /\ new.inside = old.inside /\ new.current = old.current
  <2>1. Current \notin {f}
    BY DEF Field, Current
  <2> QED BY <1>1, <2>1 DEF Same
<1>7. ASSUME NEW i \in 1..k
      PROVE  /\ old.conns[i] \in Conn /\ new.conns[i] \in Conn
             /\ new.conns[i].type = old.conns[i].type /\ new.conns[i].name = old.conns[i].name
             /\ \A g \in Field \ {f} : new.conns[i].attrs[g] = old.conns[i].attrs[g]
  <2>1. old.conns[i] \in Conn /\ new.conns[i] \in Conn
    BY <1>5
  <2> QED BY <1>1, <2>1 DEF Same
<1>8. ASSUME Filled(text), k > 0, old.conns[k].name = name
      PROVE  Given(text, f, Len(text))
  <2> HIDE DEF old
  <2> QED BY <1>1, <1>2, <1>8 DEF Filled
<1> HIDE DEF old, new, text2
<1>9. ASSUME NEW i \in 1..k, old.conns[i].name # name
      PROVE  new.conns[i] = old.conns[i]
  <2>1. \A g \in Field : old.conns[i].attrs[g] = new.conns[i].attrs[g]
    BY <1>3, <1>7, <1>9
  <2>2. /\ old.conns[i] \in Conn /\ new.conns[i] \in Conn
        /\ old.conns[i].type = new.conns[i].type /\ old.conns[i].name = new.conns[i].name
    BY <1>7
  <2> QED BY <2>1, <2>2, SameConn
<1>10. ASSUME Filled(text)
       PROVE  new = SetField(old, name, f, v)
  <2> DEFINE e(i) == IF old.conns[i].name = name THEN Assign(old.conns[i], f, v) ELSE old.conns[i]
  <2>1. ASSUME NEW i \in 1..k PROVE new.conns[i] = e(i)
    <3>1. CASE old.conns[i].name # name
      BY <1>9, <3>1
    <3>2. CASE old.conns[i].name = name
      <4>1. new.conns[i].attrs[f] = v
        BY <1>3, <1>5, <1>8, <1>10, <3>2
      <4>2. /\ Assign(old.conns[i], f, v) \in Conn
            /\ Assign(old.conns[i], f, v).type = old.conns[i].type
            /\ Assign(old.conns[i], f, v).name = old.conns[i].name
            /\ \A g \in Field : Assign(old.conns[i], f, v).attrs[g] =
                 IF g = f THEN v ELSE old.conns[i].attrs[g]
        BY <1>7, AssignIs
      <4>3. \A g \in Field : new.conns[i].attrs[g] = Assign(old.conns[i], f, v).attrs[g]
        BY <1>7, <4>1, <4>2
      <4>4. /\ new.conns[i].type = Assign(old.conns[i], f, v).type
            /\ new.conns[i].name = Assign(old.conns[i], f, v).name
        BY <1>7, <4>2
      <4>5. new.conns[i] = Assign(old.conns[i], f, v)
        BY <1>7, <4>2, <4>3, <4>4, SameConn
      <4> QED BY <3>2, <4>5
    <3> QED BY <3>1, <3>2
  <2>2. new.conns = [i \in 1..k |-> e(i)]
    <3>1. new.conns = [i \in 1..k |-> new.conns[i]]
      BY <1>5
    <3> HIDE DEF e
    <3> QED BY <2>1, <3>1
  <2>3. SetField(old, name, f, v) = [old EXCEPT !.conns = [i \in 1..k |-> e(i)]]
    BY <1>5 DEF SetField
  <2> HIDE DEF e
  <2>4. new = [old EXCEPT !.conns = new.conns]
    BY <1>4, <1>6 DEF Config
  <2> QED BY <2>2, <2>3, <2>4
<1> QED
  BY <1>5, <1>6, <1>9, <1>10 DEF old, new, text2

\* Where no line assigns current_connection, it stays as it is.
LEMMA CurrentStays ==
    ASSUME NEW text, Len(text) \in Nat, NEW m \in 0..Len(text),
           \A i \in (m + 1)..Len(text) : ~ Assigns(text[i], Current)
    PROVE  Decoded(text)[Len(text)].current = Decoded(text)[m].current
<1> DEFINE n == Len(text) - m
           T == {i \in 0..n : Decoded(text)[m + i].current = Decoded(text)[m].current}
<1>1. n \in Nat
  OBVIOUS
<1>2. 0 \in T
  OBVIOUS
<1>3. ASSUME NEW i \in 0..(n - 1), i \in T PROVE i + 1 \in T
  <2>1. /\ m + (i + 1) \in 1..Len(text) /\ (m + (i + 1)) - 1 = m + i
        /\ m + (i + 1) \in (m + 1)..Len(text)
    OBVIOUS
  <2>2. Decoded(text)[m + (i + 1)] = Decode(Decoded(text)[m + i], text[m + (i + 1)])
    BY <2>1, DecodedIs
  <2>3. Decoded(text)[m + (i + 1)].current = Decoded(text)[m + i].current
    BY <2>1, <2>2 DEF Decode
  <2> QED BY <1>3, <2>3
<1> HIDE DEF T
<1>4. \A i \in 0..n : i \in T
  BY <1>1, <1>2, <1>3, Climb
<1>5. n \in T /\ m + n = Len(text)
  BY <1>1, <1>4
<1> QED
  BY <1>5 DEF T

\* At most one line of a text that parses assigns current_connection.
LEMMA SingleCurrent ==
    ASSUME NEW text \in Seq(Line), Parses(text)
    PROVE  \A i, j \in 1..Len(text) :
             Assigns(text[i], Current) /\ Assigns(text[j], Current) => i = j
<1>1. Len(text) \in Nat
  OBVIOUS
<1>2. ASSUME NEW k \in 1..Len(text), NEW j \in 1..(k - 1),
             Assigns(text[j], Current), Assigns(text[k], Current)
      PROVE  FALSE
  <2>1. Repeated(text, j, k)
    BY <1>2 DEF Repeated
  <2> QED BY <2>1 DEF Parses
<1>3. ASSUME NEW i \in 1..Len(text), NEW j \in 1..Len(text), i # j
      PROVE  i \in 1..(j - 1) \/ j \in 1..(i - 1)
  BY <1>1, <1>3
<1> QED
  BY <1>2, <1>3

\* `config use` changes the current connection.
LEMMA UseIsTop ==
    ASSUME NEW text \in Seq(Line), Parses(text), NEW v \in Word
    PROVE  Load(ReplaceTop(text, Current, v)) = [Load(text) EXCEPT !.current = v]
<1> DEFINE text2 == ReplaceTop(text, Current, v)
           lines == {i \in 1..Len(text) : Assigns(text[i], Current)}
           old == Load(text)
           new == Load(text2)
           k == Len(old.conns)
<1>1. /\ text2 \in Seq(Line) /\ Same({Current}, old, new) /\ Len(text) \in Nat
      /\ Parses(text2)
  <2>1. Len(text) \in Nat
    OBVIOUS
  <2>2. /\ ReplaceTop(text, Current, v) \in Seq(Line)
        /\ Same({Current}, Load(text), Load(ReplaceTop(text, Current, v)))
        /\ Parses(ReplaceTop(text, Current, v))
    BY TopKeeps
  <2> QED BY <2>1, <2>2
<1>2. Len(text2) \in Nat /\ new = Decoded(text2)[Len(text2)]
  BY <1>1, LoadIs
<1>3. \E m \in 1..Len(text2) :
        /\ Assigns(text2[m], Current) /\ text2[m].value = v
        /\ \A i \in (m + 1)..Len(text2) : ~ Assigns(text2[i], Current)
  <2>1. CASE lines = {}
    <3>1. text2 = <<Attr(Current, v)>> \o text
      BY <2>1 DEF ReplaceTop
    <3>2. /\ Len(text2) = Len(text) + 1 /\ text2[1] = Attr(Current, v)
          /\ \A i \in 1..Len(text) : text2[i + 1] = text[i]
      <4>1. Attr(Current, v) \in Line
        BY DEF Attr, Line, Word
      <4>2. <<Attr(Current, v)>> \in Seq(Line) /\ Len(<<Attr(Current, v)>>) = 1
            /\ <<Attr(Current, v)>>[1] = Attr(Current, v)
        BY <4>1
      <4> QED BY <3>1, <4>2, ConcatProperties
    <3>3. Attr(Current, v).field = Current /\ Attr(Current, v).labels = <<>>
          /\ Attr(Current, v).value = v
      BY DEF Attr
    <3>4. ASSUME NEW i \in 2..Len(text2) PROVE ~ Assigns(text2[i], Current)
      <4>1. i - 1 \in 1..Len(text) /\ (i - 1) + 1 = i
        BY <1>1, <3>2
      <4>2. text2[i] = text[i - 1]
        BY <3>2, <4>1
      <4> QED BY <2>1, <4>1, <4>2
    <3> HIDE DEF text2
    <3>5. 1 \in 1..Len(text2) /\ Assigns(text2[1], Current) /\ text2[1].value = v
      BY <1>1, <3>2, <3>3 DEF Assigns, IsHeader
    <3> QED BY <3>4, <3>5
  <2>2. CASE lines # {}
    <3> DEFINE m == Min(lines)
    <3>1. m \in lines
      <4>1. lines \in SUBSET Nat
        OBVIOUS
      <4> HIDE DEF lines
      <4> QED BY <2>2, <4>1, MinInSet
    <3>2. text2 = Set(text, {m}, v)
      BY <2>2 DEF ReplaceTop
    <3> HIDE DEF m
    <3>3. /\ Len(text2) = Len(text) /\ text2[m] = [text[m] EXCEPT !.value = v]
          /\ \A i \in 1..Len(text) : i # m => text2[i] = text[i]
      <4>1. text2 = [i \in 1..Len(text) |->
                       IF i \in {m} THEN [text[i] EXCEPT !.value = v] ELSE text[i]]
        BY <3>2 DEF Set
      <4>2. \A i \in {m} \cap (1..Len(text)) : Assigns(text[i], Current)
        BY <3>1
      <4> HIDE DEF text2
      <4>3. Len(text2) = Len(text)
        <5>1. Len(Set(text, {m}, v)) = Len(text)
          BY <4>2, SetIs
        <5> QED BY <3>2, <5>1
      <4> QED BY <3>1, <4>1, <4>3
    <3>4. text[m] \in Line /\ Assigns(text[m], Current)
      BY <3>1
    <3>5. Assigns(text2[m], Current) /\ text2[m].value = v
      <4> HIDE DEF text2
      <4> QED BY <3>3, <3>4 DEF Line, Assigns, IsHeader
    <3>6. ASSUME NEW i \in (m + 1)..Len(text2) PROVE ~ Assigns(text2[i], Current)
      <4>1. i \in 1..Len(text) /\ i # m /\ m \in 1..Len(text)
        BY <1>1, <3>1, <3>3
      <4>2. text2[i] = text[i]
        BY <3>3, <4>1
      <4> QED BY <3>4, <4>1, <4>2, SingleCurrent
    <3> HIDE DEF text2
    <3> QED BY <3>1, <3>3, <3>5, <3>6
  <2> QED BY <2>1, <2>2
<1> HIDE DEF text2, lines
<1>4. new.current = v
  <2>1. PICK m \in 1..Len(text2) :
          /\ Assigns(text2[m], Current) /\ text2[m].value = v
          /\ \A i \in (m + 1)..Len(text2) : ~ Assigns(text2[i], Current)
    BY <1>3
  <2>2. Decoded(text2)[m].current = v
    <3>1. Decoded(text2)[m] = Decode(Decoded(text2)[m - 1], text2[m])
      BY <1>2, DecodedIs
    <3> QED BY <2>1, <3>1 DEF Decode
  <2>3. m \in 0..Len(text2)
    BY <1>2
  <2>4. Decoded(text2)[Len(text2)].current = Decoded(text2)[m].current
    BY <1>2, <2>1, <2>3, CurrentStays
  <2> QED BY <1>2, <2>2, <2>4
<1>5. /\ old \in Config /\ new \in Config
  BY <1>1, LoadTyped
<1>6. /\ old.conns \in Seq(Conn) /\ new.conns \in Seq(Conn) /\ k \in Nat
      /\ Len(new.conns) = k /\ DOMAIN old.conns = 1..k /\ DOMAIN new.conns = 1..k
  BY <1>1, <1>5 DEF Config, Same
<1>7. ASSUME NEW i \in 1..k PROVE new.conns[i] = old.conns[i]
  <2>1. old.conns[i] \in Conn /\ new.conns[i] \in Conn
    BY <1>6
  <2>2. Field \ {Current} = Field
    BY DEF Field, Current
  <2> HIDE DEF old, new
  <2>3. /\ new.conns[i].type = old.conns[i].type /\ new.conns[i].name = old.conns[i].name
        /\ \A f \in Field : new.conns[i].attrs[f] = old.conns[i].attrs[f]
    BY <1>1, <2>2 DEF Same
  <2> QED BY <2>1, <2>3, SameConn
<1> HIDE DEF old, new
<1>8. new.conns = old.conns
  <2>1. Len(old.conns) = k
    BY DEF old
  <2> QED BY <1>6, <1>7, SeqEqual
<1>9. new.inside = old.inside
  BY <1>1 DEF Same
<1>10. new = [old EXCEPT !.current = v]
  BY <1>4, <1>5, <1>8, <1>9 DEF Config
<1> QED
  BY <1>10 DEF old, new, text2

----------------------------------------------------------------------------
(* Editing keeps a text tidy                                               *)

\* Values do not make a text untidy.
LEMMA AlikeTidy ==
    ASSUME NEW F, NEW s \in Seq(Line), NEW t \in Seq(Line), Len(s) = Len(t),
           \A i \in 1..Len(s) : Like(F, s[i], t[i])
    PROVE  /\ Tidy(s) => Tidy(t)
           /\ Filled(s) => Filled(t)
<1>1. Len(s) \in Nat
  OBVIOUS
<1>2. \A n \in 0..Len(s) :
        /\ Decoded(s)[n].inside = Decoded(t)[n].inside
        /\ Len(Decoded(s)[n].conns) = Len(Decoded(t)[n].conns)
        /\ \A i \in 1..Len(Decoded(s)[n].conns) :
             Decoded(s)[n].conns[i].name = Decoded(t)[n].conns[i].name
  <2>1. \A n \in 0..Len(s) : Same(F, Decoded(s)[n], Decoded(t)[n])
    BY SameDecoded
  <2> QED BY <2>1 DEF Same
<1>3. ASSUME NEW i \in 1..Len(s)
      PROVE  /\ s[i].labels = t[i].labels /\ s[i].opens = t[i].opens
             /\ s[i].closes = t[i].closes /\ s[i].field = t[i].field
             /\ IsHeader(s[i]) <=> IsHeader(t[i])
             /\ IsHeader(s[i]) => s[i].value = t[i].value
             /\ \A f : Assigns(s[i], f) <=> Assigns(t[i], f)
             /\ i - 1 \in 0..Len(s) /\ (Decoded(s)[i - 1].inside <=> Decoded(t)[i - 1].inside)
  <2>1. /\ s[i].labels = t[i].labels /\ s[i].opens = t[i].opens
        /\ s[i].closes = t[i].closes /\ s[i].field = t[i].field
        /\ IsHeader(s[i]) => s[i].value = t[i].value
    BY DEF Like
  <2>2. IsHeader(s[i]) <=> IsHeader(t[i])
    BY <2>1 DEF IsHeader
  <2>3. \A f : Assigns(s[i], f) <=> Assigns(t[i], f)
    BY <2>1, <2>2 DEF Assigns
  <2>4. i - 1 \in 0..Len(s)
    BY <1>1
  <2> QED BY <1>2, <2>1, <2>2, <2>3, <2>4
<1>4. ASSUME Tidy(s) PROVE Tidy(t)
  BY <1>3, <1>4 DEF Tidy
<1>6. ASSUME NEW field, NEW n \in 0..Len(s), Given(s, field, n) PROVE Given(t, field, n)
  <2>1. PICK j \in 1..n : /\ Assigns(s[j], field) /\ Decoded(s)[j - 1].inside
                          /\ \A k \in j..n : ~ IsHeader(s[k])
    BY <1>6 DEF Given
  <2>2. j \in 1..Len(s) /\ \A k \in j..n : k \in 1..Len(s)
    BY <1>1
  <2> QED BY <1>3, <2>1, <2>2 DEF Given
<1>7. ASSUME Filled(s), NEW e \in Sets, NEW n \in 0..Len(t),
             n = Len(t) \/ IsHeader(t[n + 1]), Len(Decoded(t)[n].conns) > 0,
             Decoded(t)[n].conns[Len(Decoded(t)[n].conns)].name = e.name
      PROVE  Given(t, e.field, n)
  <2>1. n \in 0..Len(s)
    OBVIOUS
  <2>2. n = Len(s) \/ IsHeader(s[n + 1])
    <3>1. CASE n = Len(t)
      BY <3>1
    <3>2. CASE n # Len(t)
      <4>1. n + 1 \in 1..Len(s)
        BY <1>1, <2>1, <3>2
      <4> QED BY <1>3, <1>7, <3>2, <4>1
    <3> QED BY <3>1, <3>2
  <2> DEFINE k == Len(Decoded(s)[n].conns)
  <2>3. k = Len(Decoded(t)[n].conns) /\ Decoded(s)[n] \in Config
    BY <1>2, <2>1, DecodedTyped
  <2>4. k \in Nat
    BY <2>3 DEF Config
  <2>5. k > 0 /\ k \in 1..k
    BY <1>7, <2>3, <2>4
  <2>6. Decoded(s)[n].conns[k].name = e.name
    BY <1>2, <1>7, <2>1, <2>3, <2>5
  <2>7. Given(s, e.field, n)
    BY <1>7, <2>1, <2>2, <2>5, <2>6 DEF Filled
  <2> QED BY <1>6, <2>1, <2>7
<1>8. ASSUME Filled(s) PROVE Filled(t)
  BY <1>7, <1>8 DEF Filled
<1> QED
  BY <1>4, <1>8

\* Nor does a new first line for current_connection.
LEMMA PrependTidy ==
    ASSUME NEW text \in Seq(Line), NEW v \in Word, NEW new, new = <<Attr(Current, v)>> \o text,
           \A i \in 1..Len(text) : ~ Assigns(text[i], Current)
    PROVE  /\ Tidy(text) => Tidy(new)
           /\ Filled(text) => Filled(new)
<1> DEFINE first == Attr(Current, v)
<1>1. /\ first \in Line /\ ~ IsHeader(first) /\ first.closes = FALSE
  <2>1. first \in Line
    BY DEF Attr, Line, Word
  <2>2. first.labels = <<>> /\ first.closes = FALSE
    BY DEF Attr
  <2> QED BY <2>1, <2>2 DEF IsHeader
<1>2. /\ new \in Seq(Line) /\ Len(new) = Len(text) + 1 /\ Len(text) \in Nat
      /\ new[1] = first /\ \A i \in 1..Len(text) : new[i + 1] = text[i]
  <2> HIDE DEF first
  <2>1. <<first>> \in Seq(Line) /\ Len(<<first>>) = 1 /\ <<first>>[1] = first
    BY <1>1
  <2>2. new = <<first>> \o text
    BY DEF first
  <2> QED BY <2>1, <2>2, ConcatProperties
<1>3. \A n \in 0..Len(text) :
        /\ Decoded(text)[n].inside = Decoded(new)[n + 1].inside
        /\ Len(Decoded(text)[n].conns) = Len(Decoded(new)[n + 1].conns)
        /\ \A i \in 1..Len(Decoded(text)[n].conns) :
             Decoded(text)[n].conns[i].name = Decoded(new)[n + 1].conns[i].name
  BY Prepend DEF Same
<1>4. Decoded(new)[0] = NoConfig
  BY <1>2, DecodedIs
<1> HIDE DEF first
<1>5. ASSUME NEW i \in 2..Len(new)
      PROVE  /\ i - 1 \in 1..Len(text) /\ new[i] = text[i - 1] /\ (i - 1) - 1 \in 0..Len(text)
             /\ Decoded(new)[i - 1].inside = Decoded(text)[(i - 1) - 1].inside
  <2>1. i - 1 \in 1..Len(text) /\ (i - 1) - 1 \in 0..Len(text) /\ (i - 1) + 1 = i
        /\ ((i - 1) - 1) + 1 = i - 1
    BY <1>2
  <2>2. new[i] = text[i - 1]
    BY <1>2, <2>1
  <2>3. Decoded(new)[i - 1].inside = Decoded(text)[(i - 1) - 1].inside
    BY <1>3, <2>1
  <2> QED BY <2>1, <2>2, <2>3
<1>6. ASSUME Tidy(text) PROVE Tidy(new)
  <2> SUFFICES ASSUME NEW i \in 1..Len(new)
               PROVE  /\ IsHeader(new[i]) =>
                           /\ ~ new[i].closes /\ ~ Decoded(new)[i - 1].inside
                           /\ \A s \in Sets : s.name \notin {new[i].labels[1], new[i].value}
                      /\ ~ IsHeader(new[i]) /\ Decoded(new)[i - 1].inside => ~ new[i].opens
                      /\ new[i].closes => new[i].field \notin Field
    BY DEF Tidy
  <2>1. CASE i = 1
    <3>1. Decoded(new)[i - 1].inside = FALSE
      BY <1>4, <2>1 DEF NoConfig
    <3> QED BY <1>1, <1>2, <2>1, <3>1
  <2>2. CASE i # 1
    <3>1. i \in 2..Len(new)
      BY <1>2, <2>2
    <3> QED BY <1>5, <1>6, <3>1 DEF Tidy
  <2> QED BY <2>1, <2>2
<1>8. ASSUME NEW field, NEW m \in 0..Len(text), Given(text, field, m)
      PROVE  Given(new, field, m + 1)
  <2>1. PICK j \in 1..m : /\ Assigns(text[j], field) /\ Decoded(text)[j - 1].inside
                          /\ \A k \in j..m : ~ IsHeader(text[k])
    BY <1>8 DEF Given
  <2>2. /\ j + 1 \in 1..(m + 1) /\ j + 1 \in 2..Len(new) /\ (j + 1) - 1 = j
        /\ \A k \in (j + 1)..(m + 1) : k - 1 \in j..m /\ k \in 2..Len(new)
    BY <1>2
  <2>3. Assigns(new[j + 1], field) /\ Decoded(new)[(j + 1) - 1].inside
    BY <1>5, <2>1, <2>2
  <2>4. \A k \in (j + 1)..(m + 1) : ~ IsHeader(new[k])
    BY <1>5, <2>1, <2>2
  <2> QED BY <2>2, <2>3, <2>4 DEF Given
<1>9. ASSUME Filled(text), NEW e \in Sets, NEW n \in 0..Len(new),
             n = Len(new) \/ IsHeader(new[n + 1]), Len(Decoded(new)[n].conns) > 0,
             Decoded(new)[n].conns[Len(Decoded(new)[n].conns)].name = e.name
      PROVE  Given(new, e.field, n)
  <2>1. n # 0
    BY <1>4, <1>9 DEF NoConfig
  <2> DEFINE m == n - 1
             k == Len(Decoded(text)[m].conns)
  <2>2. m \in 0..Len(text) /\ m + 1 = n
    BY <1>2, <2>1
  <2> HIDE DEF m
  <2>3. m = Len(text) \/ IsHeader(text[m + 1])
    <3>1. CASE n = Len(new)
      BY <1>2, <2>2, <3>1
    <3>2. CASE n # Len(new)
      <4>1. m + 1 \in 1..Len(text)
        BY <1>2, <2>2, <3>2
      <4>2. new[n + 1] = text[m + 1]
        BY <1>2, <2>2, <4>1
      <4> QED BY <1>9, <3>2, <4>2
    <3> QED BY <3>1, <3>2
  <2>4. k = Len(Decoded(new)[n].conns) /\ Decoded(text)[m] \in Config
    BY <1>3, <2>2, DecodedTyped
  <2>5. k \in Nat
    BY <2>4 DEF Config
  <2>6. k > 0 /\ k \in 1..k
    BY <1>9, <2>4, <2>5
  <2>7. Decoded(text)[m].conns[k].name = e.name
    BY <1>3, <1>9, <2>2, <2>4, <2>6
  <2>8. Given(text, e.field, m)
    BY <1>9, <2>2, <2>3, <2>6, <2>7 DEF Filled
  <2> QED BY <1>8, <2>2, <2>8
<1>10. ASSUME Filled(text) PROVE Filled(new)
  BY <1>9, <1>10 DEF Filled
<1> QED
  BY <1>6, <1>10

\* Every text there may be is tidy, and has the fields the commands set.
AllTidy == \A t \in (Texts \union {Default}) \ {None} : Tidy(t)
AllFilled == \A t \in (Texts \union {Default}) \ {None} : Filled(t)

\* What of that an editor keeps.
Neat(text) == /\ text \in Seq(Line) /\ Tidy(text)
              /\ AllFilled => Filled(text)

\* The texts there may be are tidy, and so is the truncated file.
LEMMA TextsNeat ==
    ASSUME AllTidy
    PROVE  /\ Neat(<<>>) /\ Neat(Default)
           /\ \A t \in Texts : t # None => Neat(t)
<1> DEFINE no == <<>>
<1>1. no \in Seq(Line) /\ Len(no) = 0 /\ Decoded(no)[0] = NoConfig
  <2>1. no \in Seq(Line) /\ Len(no) = 0
    OBVIOUS
  <2> HIDE DEF no
  <2> QED BY <2>1, DecodedIs
<1> HIDE DEF no
<1>2. Tidy(no)
  BY <1>1 DEF Tidy
<1>3. Filled(no)
  <2>1. \A n \in 0..Len(no) : Len(Decoded(no)[n].conns) = 0
    BY <1>1 DEF NoConfig
  <2> QED BY <2>1 DEF Filled
<1>4. Neat(no)
  BY <1>1, <1>2, <1>3 DEF Neat
<1>5. Neat(Default)
  BY TextsAssumption, NoneAssumption DEF Neat, AllTidy, AllFilled
<1>6. \A t \in Texts : t # None => Neat(t)
  BY TextsAssumption DEF Neat, AllTidy, AllFilled
<1> QED
  BY <1>4, <1>5, <1>6 DEF no

\* `config use` keeps a text tidy (main.go:644-654).
LEMMA TopNeat ==
    ASSUME NEW text, Neat(text), NEW v \in Word
    PROVE  Neat(ReplaceTop(text, Current, v))
<1> DEFINE lines == {i \in 1..Len(text) : Assigns(text[i], Current)}
           new == ReplaceTop(text, Current, v)
<1>1. text \in Seq(Line)
  BY DEF Neat
<1>2. new \in Seq(Line)
  BY <1>1, TopKeeps
<1>3. CASE lines = {}
  <2>1. new = <<Attr(Current, v)>> \o text
    BY <1>3 DEF ReplaceTop
  <2>2. \A i \in 1..Len(text) : ~ Assigns(text[i], Current)
    BY <1>3
  <2> HIDE DEF new, lines
  <2>3. /\ Tidy(text) => Tidy(new)
        /\ Filled(text) => Filled(new)
    BY <1>1, <2>1, <2>2, PrependTidy
  <2> QED BY <1>2, <2>3 DEF Neat, new
<1>4. CASE lines # {}
  <2>1. new = Set(text, {Min(lines)}, v)
    BY <1>4 DEF ReplaceTop
  <2>2. Min(lines) \in lines
    <3>1. lines \in SUBSET Nat
      OBVIOUS
    <3> HIDE DEF lines
    <3> QED BY <1>4, <3>1, MinInSet
  <2>3. \A i \in {Min(lines)} \cap (1..Len(text)) : Assigns(text[i], Current)
    BY <2>2
  <2> HIDE DEF lines, new
  <2>4. Len(text) = Len(new) /\ \A i \in 1..Len(text) : Like({Current}, text[i], new[i])
    BY <1>1, <2>1, <2>3, SetIs
  <2>5. /\ Tidy(text) => Tidy(new)
        /\ Filled(text) => Filled(new)
    BY <1>1, <1>2, <2>4, AlikeTidy
  <2> QED BY <1>2, <2>5 DEF Neat, new
<1> QED
  BY <1>3, <1>4

\* So does every command.
LEMMA EditedNeat ==
    ASSUME AllTidy, NEW c \in Commands, NEW text, c.op = "init" \/ Neat(text)
    PROVE  Neat(Edited(c, text))
<1>1. CASE c.op = "init"
  BY <1>1, TextsNeat DEF Edited
<1>2. CASE c.op = "use"
  <2>1. Edited(c, text) = ReplaceTop(text, Current, c.name) /\ c.name \in Word
    BY <1>2, CommandIs DEF Edited, Word
  <2> QED BY <1>2, <2>1, TopNeat
<1>3. CASE c.op = "set"
  <2> DEFINE new == ReplaceField(text, c.name, c.field, c.value)
  <2>1. Edited(c, text) = new /\ c.value \in Word /\ text \in Seq(Line)
    BY <1>3, CommandIs DEF Edited, Word, Neat
  <2>2. /\ new \in Seq(Line) /\ Len(text) = Len(new)
        /\ \A i \in 1..Len(text) : Like({c.field}, text[i], new[i])
    BY <2>1, FieldKeeps
  <2> HIDE DEF new
  <2>3. /\ Tidy(text) => Tidy(new)
        /\ Filled(text) => Filled(new)
    BY <2>1, <2>2, AlikeTidy
  <2> QED BY <1>3, <2>1, <2>2, <2>3 DEF Neat
<1> QED
  BY <1>1, <1>2, <1>3, CommandIs

----------------------------------------------------------------------------
(* What an editor at work knows                                            *)

\* The inductive invariant: every text is tidy if none is mixed, a field that is
\* set exists, and who works alone writes what he makes of what was written
\* last, to an empty file.
WorkInv ==
    /\ ~ mixed /\ file # None => Neat(file)
    /\ \A e \in Editor :
         /\ ~ mixed /\ seen[e] # None => Neat(seen[e])
         /\ step[e] \notin Rest /\ todo[e].op = "set" => todo[e].field \in Field
    /\ alone =>
         /\ ~ mixed
         /\ \A e, f \in Editor : step[e] \notin Rest /\ step[f] \notin Rest => e = f
         /\ \A e \in Editor :
              /\ step[e] \in {"stat", "load", "read", "truncate"} => file = settled
              /\ step[e] = "write" => file = <<>>
              /\ step[e] \in {"truncate", "write"} =>
                   IF todo[e].op = "init" THEN settled = None ELSE seen[e] = settled
              /\ step[e] \in {"read", "truncate", "write"} /\ todo[e].op = "use" =>
                   FindConnection(Load(settled), todo[e].name) # None

\* It holds at first, ...
LEMMA WorkInit == ASSUME AllTidy PROVE InitConfig => WorkInv
BY TextsNeat DEF InitConfig, WorkInv, Rest

\* ... when a command starts, ...
LEMMA WorkStarts ==
    ASSUME EditorInv, WorkInv, NEW e \in Editor, NEW c \in Commands, Start(e, c)
    PROVE  WorkInv'
<1>1. c.op \in {"init", "use", "set"}
  BY CommandIs
<1>2. step'[e] = CASE c.op = "init" -> "stat" [] c.op = "use" -> "load" [] c.op = "set" -> "read"
  BY DEF Start, To, EditorInv
<1>3. /\ \A f \in Editor \ {e} : step'[f] = step[f] /\ todo'[f] = todo[f] /\ seen'[f] = seen[f]
      /\ todo'[e] = c /\ seen'[e] = None /\ file' = file /\ settled' = settled
      /\ mixed' = mixed
      /\ c.op = "set" => c.field \in Field
      /\ alone' => ~ mixed /\ file = settled /\ \A f \in Editor : step[f] \in Rest
  BY DEF Start, To, EditorInv, AtRest
<1>4. ~ mixed' /\ file' # None => Neat(file')
  BY <1>3 DEF WorkInv
<1>5. ASSUME NEW f \in Editor
      PROVE  /\ ~ mixed' /\ seen'[f] # None => Neat(seen'[f])
             /\ step'[f] \notin Rest /\ todo'[f].op = "set" => todo'[f].field \in Field
  BY <1>3 DEF WorkInv
<1>6. ASSUME alone', NEW f \in Editor
      PROVE  /\ ~ mixed' /\ (step'[f] \notin Rest => f = e)
             /\ step'[f] \in {"stat", "load", "read", "truncate"} => file' = settled'
             /\ step'[f] \notin {"truncate", "write"}
             /\ step'[f] = "read" => todo'[f].op # "use"
  BY <1>1, <1>2, <1>3, <1>6 DEF Rest
<1> QED
  BY <1>4, <1>5, <1>6 DEF WorkInv, Rest

\* ... when one goes on or is killed, ...
LEMMA WorkMoves ==
    ASSUME AllTidy, EditorInv, WorkInv, NEW e \in Editor, EditorStep(e)
    PROVE  WorkInv'
<1>1. /\ step \in [Editor -> Rest \union {"stat", "load", "read", "truncate", "write"}]
      /\ seen \in [Editor -> Seq(Line) \union {None}]
  BY DEF EditorInv
<1>2. CASE Stat(e)
  <2>1. todo[e].op = "init"
    BY <1>2 DEF Stat, EditorInv
  <2> QED BY <1>1, <1>2, <2>1 DEF Stat, To, WorkInv, Rest
<1>3. CASE LoadForUse(e)
  BY <1>1, <1>3 DEF LoadForUse, To, WorkInv, Rest
<1>4. CASE ReadFile(e)
  <2>1. todo[e].op # "init"
    BY <1>4 DEF ReadFile, EditorInv
  <2>2. /\ step[e] = "read" /\ seen' = [seen EXCEPT ![e] = file]
        /\ step' = [step EXCEPT ![e] = IF file = None THEN "idle" ELSE "truncate"]
        /\ UNCHANGED <<file, todo, settled, mixed, alone>>
    BY <1>4 DEF ReadFile, To
  <2>3. /\ seen'[e] = file /\ step'[e] = IF file = None THEN "idle" ELSE "truncate"
        /\ \A f \in Editor \ {e} : step'[f] = step[f] /\ seen'[f] = seen[f]
    BY <1>1, <2>2
  <2> QED BY <2>1, <2>2, <2>3 DEF WorkInv, Rest
<1>5. CASE Truncate(e)
  <2>1. Neat(file')
    BY <1>5, TextsNeat DEF Truncate
  <2> QED BY <1>1, <1>5, <2>1 DEF Truncate, To, WorkInv, Rest
<1>6. CASE WriteFile(e)
  <2>1. /\ todo[e] \in Commands
        /\ todo[e].op # "init" => seen[e] # None
    BY <1>6 DEF WriteFile, EditorInv, Rest
  <2>2. ~ mixed => Neat(Edited(todo[e], seen[e]))
    BY <2>1, EditedNeat DEF WorkInv
  <2>3. step[e] = "write" /\ UNCHANGED <<todo, seen, alone>> /\ step' = [step EXCEPT ![e] = "idle"]
    BY <1>6 DEF WriteFile, To
  <2>4. /\ ~ mixed' => ~ mixed /\ file' = Edited(todo[e], seen[e])
        /\ alone => ~ mixed'
    <3>1. mixed \in BOOLEAN /\ Edited(todo[e], seen[e]) \in Seq(Line)
      BY <1>1, <2>1, EditedTyped DEF EditorInv
    <3>2. alone => ~ mixed /\ file = <<>>
      BY <2>3 DEF WorkInv
    <3> QED BY <1>6, <3>1, <3>2, Written, EmptyLeft
  <2>5. ~ mixed' => Neat(file')
    BY <2>2, <2>4
  <2> QED BY <1>1, <2>3, <2>4, <2>5 DEF WorkInv, Rest
<1>7. CASE Killed(e)
  BY <1>1, <1>7 DEF Killed, To, WorkInv, Rest
<1> QED
  BY <1>2, <1>3, <1>4, <1>5, <1>6, <1>7 DEF EditorStep

\* ... and so in every step.
LEMMA WorkNext ==
    ASSUME AllTidy
    PROVE  EditorInv /\ WorkInv /\ [NextConfig]_config => WorkInv'
<1> SUFFICES ASSUME EditorInv, WorkInv, [NextConfig]_config PROVE WorkInv'
  OBVIOUS
<1>1. CASE UNCHANGED config
  BY <1>1 DEF config, WorkInv
<1> QED
  BY <1>1, WorkStarts, WorkMoves DEF NextConfig

----------------------------------------------------------------------------
(* What the commands do                                                    *)

\* A look-up gives nothing, or the first connection of that name.
LEMMA FindIs ==
    ASSUME NEW cfg \in Config, NEW name
    PROVE  \/ /\ FindConnection(cfg, name) = None
              /\ \A i \in 1..Len(cfg.conns) : cfg.conns[i].name # name
           \/ \E i \in 1..Len(cfg.conns) :
                /\ FindConnection(cfg, name) = cfg.conns[i]
                /\ cfg.conns[i].name = name
                /\ \A j \in 1..Len(cfg.conns) : cfg.conns[j].name = name => i <= j
<1> DEFINE named == {i \in DOMAIN cfg.conns : cfg.conns[i].name = name}
<1>1. DOMAIN cfg.conns = 1..Len(cfg.conns) /\ Len(cfg.conns) \in Nat
  BY DEF Config
<1>2. CASE named = {}
  <2>1. FindConnection(cfg, name) = None
    BY <1>2 DEF FindConnection
  <2> QED BY <1>1, <1>2, <2>1
<1>3. CASE named # {}
  <2>1. FindConnection(cfg, name) = cfg.conns[Min(named)]
    BY <1>3 DEF FindConnection
  <2>2. named \in SUBSET Nat
    BY <1>1
  <2>3. Min(named) \in named /\ \A j \in named : Min(named) <= j
    <3> HIDE DEF named
    <3> QED BY <1>3, <2>2, MinInSet
  <2> QED BY <1>1, <2>1, <2>3
<1> QED
  BY <1>2, <1>3

\* What is found is a connection of that name.
LEMMA FindTyped ==
    ASSUME NEW cfg \in Config, NEW name
    PROVE  /\ FindConnection(cfg, name) \in Conn \union {None}
           /\ FindConnection(cfg, name) # None =>
                \E i \in 1..Len(cfg.conns) : /\ FindConnection(cfg, name) = cfg.conns[i]
                                             /\ cfg.conns[i].name = name
<1>1. \A i \in 1..Len(cfg.conns) : cfg.conns[i] \in Conn
  BY DEF Config
<1> QED
  BY <1>1, FindIs


\* A `config set` is one of the Sets.
LEMMA SetOf ==
    ASSUME NEW c \in Commands, c.op = "set"
    PROVE  \E s \in Sets : s.name = c.name /\ s.field = c.field /\ s.value = c.value
BY DEF Commands

\* Who reports success has written what he made of what he read.
LEMMA Writing ==
    ASSUME EditorInv, WorkInv, [NextConfig]_config, NEW e \in Editor, Writes(e)
    PROVE  /\ todo[e] \in Commands
           /\ ~ mixed' => file' = Edited(todo[e], seen[e])
           /\ alone => ~ mixed'
           /\ ~ mixed' /\ todo[e].op # "init" => Neat(seen[e])
           /\ todo[e].op = "set" => todo[e].field \in Field
           /\ alone => IF todo[e].op = "init" THEN settled = None ELSE seen[e] = settled
           /\ alone /\ todo[e].op = "use" => FindConnection(Load(settled), todo[e].name) # None
<1>1. step \in [Editor -> Rest \union {"stat", "load", "read", "truncate", "write"}]
  BY DEF EditorInv
<1>2. step[e] = "write" /\ step'[e] = "idle"
  BY DEF Writes
<1>3. WriteFile(e)
  <2>1. ~ UNCHANGED config
    BY <1>2 DEF config
  <2>2. ASSUME NEW f \in Editor, NEW c \in Commands, Start(f, c) PROVE FALSE
    <3>1. step[f] \in Rest /\ \A g \in Editor \ {f} : step'[g] = step[g]
      BY <1>1, <2>2 DEF Start, To
    <3>2. f # e
      BY <1>2, <3>1 DEF Rest
    <3> QED BY <1>2, <3>1, <3>2
  <2>3. ASSUME NEW f \in Editor, EditorStep(f) PROVE WriteFile(e)
    <3>1. f = e
      BY <1>1, <1>2, <2>3
         DEF EditorStep, Stat, LoadForUse, ReadFile, Truncate, WriteFile, Killed, To
    <3> QED BY <1>1, <1>2, <2>3, <3>1
         DEF EditorStep, Stat, LoadForUse, ReadFile, Truncate, Killed, To
  <2> QED BY <2>1, <2>2, <2>3 DEF NextConfig
<1>4. /\ todo[e] \in Commands
      /\ ~ mixed' => ~ mixed /\ file' = Edited(todo[e], seen[e])
      /\ alone => ~ mixed'
  <2>1. todo[e] \in Commands
    BY <1>2 DEF EditorInv, Rest
  <2>2. mixed \in BOOLEAN /\ (todo[e].op # "init" => seen[e] \in Seq(Line))
    BY <1>2 DEF EditorInv
  <2>3. Edited(todo[e], seen[e]) \in Seq(Line)
    BY <2>1, <2>2, EditedTyped
  <2>4. alone => ~ mixed /\ file = <<>>
    BY <1>2 DEF WorkInv
  <2> QED BY <1>3, <2>1, <2>2, <2>3, <2>4, Written, EmptyLeft
<1>5. ~ mixed' /\ todo[e].op # "init" => Neat(seen[e])
  BY <1>2, <1>4 DEF EditorInv, WorkInv
<1> QED
  BY <1>2, <1>4, <1>5 DEF WorkInv, Rest

\* For texts on which the line editor sees what HCL sees, `config set` changes
\* the connection it names and no other, whatever runs beside it (main.go:606-642),
\* as long as no command has written over a longer text.
THEOREM OthersUntouched == ASSUME AllTidy PROVE SpecConfig => SetTouchesOnlyNamed
<1>1. ASSUME EditorInv, WorkInv, [NextConfig]_config, NEW e \in Editor,
             Writes(e), todo[e].op = "set", ~ mixed'
      PROVE  LET old == Load(seen[e])  new == Load(file')
             IN  /\ new.current = old.current
                 /\ \A i \in DOMAIN old.conns :
                      old.conns[i].name # todo[e].name => new.conns[i] = old.conns[i]
  <2> DEFINE c == todo[e]
  <2>1. /\ c \in Commands /\ file' = Edited(c, seen[e]) /\ Neat(seen[e]) /\ c.field \in Field
    BY <1>1, Writing
  <2>2. PICK s \in Sets : s.name = c.name /\ s.field = c.field
    BY <1>1, <2>1, SetOf
  <2>3. file' = ReplaceField(seen[e], c.name, c.field, c.value) /\ c.value \in Word
    BY <1>1, <2>1, CommandIs DEF Edited, Word
  <2> QED BY <2>1, <2>2, <2>3, SetIsField DEF Neat
<1>2. EditorInv /\ WorkInv /\ [NextConfig]_config =>
        [\A e \in Editor : Writes(e) /\ todo[e].op = "set" /\ ~ mixed' =>
           LET old == Load(seen[e])  new == Load(file')
           IN  /\ new.current = old.current
               /\ \A i \in DOMAIN old.conns :
                    old.conns[i].name # todo[e].name => new.conns[i] = old.conns[i]]_config
  BY <1>1
<1> QED
  BY <1>2, EditorInit, EditorNext, WorkInit, WorkNext, PTL DEF SpecConfig, SetTouchesOnlyNamed

\* What a command that ran alone makes of the configuration written last.
LEMMA Alone ==
    ASSUME AllTidy, AllFilled, EditorInv, WorkInv, [NextConfig]_config,
           NEW e \in Editor, Writes(e), alone
    PROVE  DoesWhatItSays(todo[e])
<1> DEFINE c == todo[e]
<1>1. /\ c \in Commands /\ file' = Edited(c, seen[e])
      /\ c.op # "init" => Neat(seen[e]) /\ seen[e] = settled
      /\ c.op = "set" => c.field \in Field
      /\ c.op = "init" => settled = None
      /\ c.op \in {"init", "use", "set"}
  BY Writing, CommandIs
<1>2. CASE c.op = "init"
  BY <1>1, <1>2 DEF DoesWhatItSays
<1>3. CASE c.op = "use"
  <2>1. file' = ReplaceTop(settled, Current, c.name) /\ c.name \in Word
    BY <1>1, <1>3, CommandIs DEF Edited, Word
  <2>2. settled \in Seq(Line) /\ Parses(settled)
    <3>1. settled \in Seq(Line) /\ FindConnection(Load(settled), c.name) # None
      BY <1>1, <1>3, Writing DEF Neat
    <3>2. FindConnection(NoConfig, c.name) = None
      BY DEF FindConnection, NoConfig
    <3> QED BY <3>1, <3>2, LoadIs
  <2>3. Load(file') = [Load(settled) EXCEPT !.current = c.name]
    BY <2>1, <2>2, UseIsTop
  <2> QED BY <1>3, <2>3 DEF DoesWhatItSays
<1>4. CASE c.op = "set"
  <2>1. PICK s \in Sets : s.name = c.name /\ s.field = c.field
    BY <1>1, <1>4, SetOf
  <2>2. file' = ReplaceField(settled, c.name, c.field, c.value) /\ c.value \in Word
    BY <1>1, <1>4, CommandIs DEF Edited, Word
  <2>3. settled \in Seq(Line) /\ Tidy(settled) /\ Filled(settled)
    BY <1>1, <1>4 DEF Neat
  <2>4. Load(file') = SetField(Load(settled), c.name, c.field, c.value)
    BY <1>1, <1>4, <2>1, <2>2, <2>3, SetIsField
  <2> QED BY <1>4, <2>4 DEF DoesWhatItSays
<1> QED
  BY <1>1, <1>2, <1>3, <1>4

\* A command that ran alone changes what its arguments say and nothing else,
\* whatever overlapped or was killed before it (main.go:545-597).
THEOREM UpdatesStay == ASSUME AllTidy, AllFilled PROVE SpecConfig => NoLostUpdate
<1>1. EditorInv /\ WorkInv /\ [NextConfig]_config =>
        [\A e \in Editor : Writes(e) /\ alone => DoesWhatItSays(todo[e])]_config
  BY Alone
<1> QED
  BY <1>1, EditorInit, EditorNext, WorkInit, WorkNext, PTL DEF SpecConfig, NoLostUpdate

\* The value `config set` reported is in the configuration, and the connection
\* `config use` switched to is the default, if the command ran alone.
THEOREM EditsTakeEffect ==
    ASSUME AllTidy, AllFilled, Empty \notin Uses
    PROVE  SpecConfig => EditTakesEffect
<1>1. ASSUME EditorInv, WorkInv, [NextConfig]_config, NEW e \in Editor,
             Writes(e), alone, Known(todo[e])
      PROVE  Has(Load(file'), todo[e])
  <2> DEFINE c == todo[e]
             old == Load(settled)
             new == Load(file')
  <2>1. /\ c \in Commands /\ file' = Edited(c, seen[e]) /\ DoesWhatItSays(c)
        /\ c.op # "init" => settled \in Seq(Line)
        /\ c.op = "set" => c.field \in Field /\ c.value \in Word
        /\ c.op = "use" => FindConnection(old, c.name) # None
        /\ c.op \in {"init", "use", "set"}
    BY <1>1, Writing, Alone, CommandIs DEF Neat, Word
  <2>2. CASE c.op = "init"
    BY <2>1, <2>2 DEF Has, Edited
  <2>3. CASE c.op = "use"
    <3>1. new = [old EXCEPT !.current = c.name] /\ c.name # Empty
      BY <2>1, <2>3 DEF DoesWhatItSays, Commands
    <3>2. old \in Config
      BY <2>1, <2>3, LoadTyped
    <3> HIDE DEF old, new
    <3>3. new.current = c.name /\ new.conns = old.conns
      BY <3>1, <3>2 DEF Config
    <3>4. DefaultConn(new) = FindConnection(old, c.name)
      BY <3>1, <3>3 DEF DefaultConn, FindConnection
    <3>5. FindConnection(old, c.name).name = c.name
      BY <2>1, <2>3, <3>2, FindTyped
    <3> QED BY <2>1, <2>3, <3>4, <3>5 DEF Has, new
  <2>4. CASE c.op = "set"
    <3>1. new = SetField(old, c.name, c.field, c.value) /\ FindConnection(old, c.name) # None
      BY <1>1, <2>1, <2>4 DEF DoesWhatItSays, Known
    <3>2. old \in Config
      BY <2>1, <2>4, LoadTyped
    <3> HIDE DEF old, new
    <3>3. PICK i \in 1..Len(old.conns) : old.conns[i].name = c.name
      BY <3>1, <3>2, FindTyped
    <3>4. old.conns[i] \in Conn /\ DOMAIN old.conns = 1..Len(old.conns)
      BY <3>2 DEF Config
    <3>5. new.conns = [j \in 1..Len(old.conns) |->
                         IF old.conns[j].name = c.name THEN Assign(old.conns[j], c.field, c.value)
                         ELSE old.conns[j]]
      BY <3>1, <3>2, <3>4 DEF SetField, Config
    <3>6. new.conns[i] = Assign(old.conns[i], c.field, c.value) /\ i \in DOMAIN new.conns
      BY <3>3, <3>5
    <3>7. new.conns[i].name = c.name /\ new.conns[i].attrs[c.field] = c.value
      BY <2>1, <2>4, <3>3, <3>4, <3>6, AssignIs
    <3> QED BY <2>4, <3>6, <3>7 DEF Has, new
  <2> QED BY <2>1, <2>2, <2>3, <2>4
<1>2. EditorInv /\ WorkInv /\ [NextConfig]_config =>
        [\A e \in Editor :
           Writes(e) /\ alone /\ Known(todo[e]) => Has(Load(file'), todo[e])]_config
  BY <1>1
<1> QED
  BY <1>2, EditorInit, EditorNext, WorkInit, WorkNext, PTL DEF SpecConfig, EditTakesEffect
=============================================================================
