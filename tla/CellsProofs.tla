----------------------------- MODULE CellsProofs -----------------------------
(***************************************************************************)
(* Theorems about Cells, for columns and answers of any length and for any *)
(* integers and float formats: inference agrees with conversion, the       *)
(* digits of a long survive, and the rows shown are the query's.           *)
(***************************************************************************)
EXTENDS Cells, SequenceTheorems, WellFoundedInduction, TLAPS

----------------------------------------------------------------------------
(* Numbers                                                                 *)

LEMMA LeastNat ==
    ASSUME NEW S \in SUBSET Nat, S # {}
    PROVE  \E m \in S : \A k \in S : m <= k
<1>1. PICK m \in S : \A k \in S : ~ (<<k, m>> \in OpToRel(<, Nat))
  BY NatLessThanWellFounded, WFMin, Zenon
<1>2. \A k \in S : ~ (k < m)
  BY <1>1, Zenon DEF OpToRel
<1> QED
  BY <1>2

LEMMA MinInSet ==
    ASSUME NEW S \in SUBSET Nat, S # {}
    PROVE  Min(S) \in S /\ \A k \in S : Min(S) <= k
BY LeastNat DEF Min

\* Up to ExactTo every integer is a float64.
LEMMA NearestExact ==
    ASSUME NEW n \in Int, Abs(n) <= ExactTo
    PROVE  Nearest(n) = n
<1>1. Abs(n) \in Nat /\ ExactTo \in Nat
  BY BoundsAssumption DEF Abs
<1>2. Ulp(n) = 1
  <2>1. Abs(n) <= ExactTo * 1
    BY <1>1
  <2>2. ASSUME NEW p \in PowerOf2, p # 1 PROVE ~ (Abs(n) > ExactTo * (p \div 2))
    <3>1. p \in Nat /\ p \div 2 \in Nat \ {0}
      BY <2>2 DEF PowerOf2
    <3>2. ExactTo * (p \div 2) >= ExactTo
      BY <1>1, <3>1
    <3> QED BY <1>1, <3>1, <3>2
  <2>3. 1 \in PowerOf2
    BY DEF PowerOf2
  <2> QED BY <2>1, <2>2, <2>3 DEF Ulp
<1>3. (n \div 1) * 1 = n
  OBVIOUS
<1> QED
  BY <1>2, <1>3 DEF Nearest

\* Every integer in the data has a distance of floats, so its nearest float64
\* is an integer.
LEMMA NearestInt ==
    ASSUME NEW n \in Ints
    PROVE  n \in Int /\ Nearest(n) \in Int
<1>1. /\ n \in Int /\ ExactTo \in Nat
      /\ Abs(n) \in Nat /\ Abs(n) <= ExactTo * 1024
  BY IntsAssumption, BoundsAssumption DEF Abs
<1> DEFINE a == Abs(n)
           Fit(p) == a <= ExactTo * p /\ (p = 1 \/ a > ExactTo * (p \div 2))
<1> HIDE DEF a
<1>2. /\ 2 \div 2 = 1 /\ 4 \div 2 = 2 /\ 8 \div 2 = 4 /\ 16 \div 2 = 8 /\ 32 \div 2 = 16
      /\ 64 \div 2 = 32 /\ 128 \div 2 = 64 /\ 256 \div 2 = 128 /\ 512 \div 2 = 256
      /\ 1024 \div 2 = 512
  OBVIOUS
<1>3. \/ Fit(1) \/ Fit(2) \/ Fit(4) \/ Fit(8) \/ Fit(16) \/ Fit(32) \/ Fit(64)
      \/ Fit(128) \/ Fit(256) \/ Fit(512) \/ Fit(1024)
  <2>1. a \in Nat /\ a <= ExactTo * 1024
    BY <1>1 DEF a
  <2> QED BY <1>1, <1>2, <2>1
<1>4. \E p \in PowerOf2 : Fit(p)
  BY <1>3 DEF PowerOf2
<1>5. Ulp(n) \in PowerOf2
  BY <1>4 DEF Ulp, a
<1>6. Ulp(n) \in Nat \ {0}
  BY <1>5 DEF PowerOf2
<1> QED
  BY <1>1, <1>6 DEF Nearest

\* Such an integer is an int64 too.
LEMMA Int64Exact ==
    ASSUME NEW n \in Int, Abs(n) <= ExactTo
    PROVE  Int64(n) = n
BY BoundsAssumption DEF Int64, InWord, Abs

\* The parts of a text, and a text written in another way.
LEMMA TextIs ==
    ASSUME NEW k, NEW m, NEW f, NEW w
    PROVE  /\ Text(k, m, f, w).kind = k /\ Text(k, m, f, w).n = m
           /\ Text(k, m, f, w).frac = f /\ Text(k, m, f, w).as = w
BY DEF Text

LEMMA Rewritten ==
    ASSUME NEW k, NEW m, NEW f, NEW w, NEW u
    PROVE  [Text(k, m, f, w) EXCEPT !.as = u] = Text(k, m, f, u)
BY DEF Text

LEMMA ValueIs ==
    ASSUME NEW go, NEW t
    PROVE  Value(go, t).go = go /\ Value(go, t).text = t
BY DEF Value

\* The text of an integer, and a float64 that was one.
LEMMA FieldIs ==
    ASSUME NEW m
    PROVE  /\ Field(m) = Text("number", m, "none", <<"digits">>)
           /\ Field(m).kind = "number" /\ Field(m).n = m /\ Field(m).frac = "none"
BY DEF Field, Text

LEMMA FloatIs ==
    ASSUME NEW m
    PROVE  /\ Float(Field(m)).go = "float64"
           /\ Float(Field(m)).text = Text("number", Nearest(m), "none", Unwritten)
BY FieldIs, ValueIs DEF Float

----------------------------------------------------------------------------
(* What a backend reads                                                    *)

LEMMA CsvSource ==
    ASSUME NEW s \in Sources, s.from = "csv"
    PROVE  /\ Len(s.column) \in Nat /\ DOMAIN s.column = 1..Len(s.column)
           /\ \A i \in 1..Len(s.column) : s.column[i] \in Fields
<1>1. s.column \in UpTo(Fields, MaxRows)
  BY DEF Sources
<1>2. PICK k \in 0..MaxRows : s.column \in [1..k -> Fields]
  BY <1>1 DEF UpTo
<1>3. k \in Nat
  BY BoundsAssumption
<1>4. Len(s.column) = k
  BY <1>2, <1>3, SeqDef, LenProperties
<1> QED
  BY <1>2, <1>3, <1>4

LEMMA KustoSource ==
    ASSUME NEW s \in Sources, s.from = "kusto"
    PROVE  \E k \in Nat : s.frames \in [1..k -> Frames]
<1>1. s.frames \in UpTo(Frames, MaxFrames)
  BY DEF Sources
<1> QED
  BY <1>1, BoundsAssumption DEF UpTo

LEMMA DuckSource ==
    ASSUME NEW s \in Sources, s.from = "duckdb"
    PROVE  \E v \in Scanned(s.db) \union {Null} : s.column = <<v>>
BY DEF Sources

\* An integer that a CSV column holds.
LEMMA IntField ==
    ASSUME NEW f \in Fields, IsInt(f)
    PROVE  \E m \in Ints : f.n = m /\ Float(f) = Float(Field(m))
<1>1. f.kind = "number" /\ f.frac = "none"
  BY DEF IsInt
<1>2. f \notin {Blank, NaN, Word1, Instant}
  <2>1. /\ Blank.kind = "nothing" /\ NaN.kind = "nan"
        /\ Word1.kind = "word" /\ Instant.kind = "instant"
    BY TextIs DEF Blank, NaN, Word1, Instant
  <2> QED BY <1>1, <2>1
<1>3. ASSUME NEW n \in {0}, NEW frac \in {"short", "long"} PROVE f # Fraction(n, frac)
  <2>1. Fraction(n, frac).frac = frac
    BY DEF Fraction, Text
  <2> QED BY <1>1, <2>1, Zenon
<1>4. \/ \E n \in Ints : f = Field(n) \/ f = Padded(n)
      \/ \E n \in {0}, frac \in {"short", "long"} : f = Fraction(n, frac)
  BY <1>2 DEF Fields
<1>5. ASSUME NEW n \in Ints, f = Field(n) \/ f = Padded(n)
      PROVE  f.n = n /\ Float(f) = Float(Field(n))
  <2>1. f.kind = "number" /\ f.n = n /\ f.frac = "none"
    <3>1. CASE f = Field(n)
      BY <3>1 DEF Field, Text
    <3>2. CASE f = Padded(n)
      BY <3>2 DEF Padded, Text
    <3> QED BY <1>5, <3>1, <3>2
  <2> QED BY <2>1, FieldIs DEF Float
<1> QED
  BY <1>3, <1>4, <1>5

\* A table frame's cells are of its column's type.
LEMMA TableRows ==
    ASSUME NEW f \in Frames, f.frame = "DataTable", f.type = "long"
    PROVE  f.rows = <<>> \/ \E v \in Typed("long") \union {Null} : f.rows = <<v>>
<1>1. f \in Tables
  BY DEF Frames
<1>2. PICK t \in KustoType :
        f \in [frame : {"DataTable"}, name : {"PrimaryResult", "QueryProperties"},
               type : {t}, rows : Column(t), failed : {FALSE}]
  BY <1>1 DEF Tables
<1>3. t = "long" /\ f.rows \in Column(t)
  BY <1>2
<1> QED
  BY <1>3 DEF Column

----------------------------------------------------------------------------
(* Inference                                                               *)

\* What inferColumn knows after some rows: that of each of them.
InferInv ==
    source.from = "csv" /\ pc = "query" =>
      /\ row \in 0..Len(source.column)
      /\ allInt => \A i \in 1..row : source.column[i] = Blank \/ IsInt(source.column[i])
      /\ allFloat => \A i \in 1..row : source.column[i] = Blank \/ IsFloat(source.column[i])

\* A long is an integer of the CSV file, of a Kusto answer, or of a table.
LongCell(i) ==
    \/ values[i] = Null
    \/ \E m \in Ints :
         \/ /\ source.from = "csv" /\ source.column[i].n = m
            /\ values[i] = Float(Field(m))
         \/ /\ source.from = "kusto"
            /\ values[i] = Float(Field(m))
         \/ /\ source.from = "duckdb"
            /\ values[i] \in {Value("int64", Field(m)), Value("bigint", Field(m))}

CellInv ==
    /\ source \in Sources
    /\ pc = "query" => values = <<>> /\ type = "none"
    /\ pc # "fresh" => type = "none" /\ values = <<>>
    /\ Len(values) \in Nat
    /\ type = "long" => \A i \in 1..Len(values) : LongCell(i)
    /\ InferInv
    /\ ColumnIsUniform
    /\ PrimaryShown

\* What Put has stored of the column.
StoredInv ==
    /\ Len(stored) \in 0..Len(values)
    /\ stored = [i \in 1..Len(stored) |-> Value("string", Percent(values[i]))]

LEMMA CellInit == Init => CellInv /\ StoredInv
<1> SUFFICES ASSUME Init PROVE CellInv /\ StoredInv
  OBVIOUS
<1>1. /\ source \in Sources /\ pc = "query" /\ row = 0
      /\ type = "none" /\ values = <<>> /\ stored = <<>>
  BY DEF Init
<1>2. InferInv
  <2>1. source.from = "csv" => Len(source.column) \in Nat
    BY <1>1, CsvSource
  <2> QED BY <1>1, <2>1 DEF InferInv
<1>3. ColumnIsUniform /\ PrimaryShown
  BY <1>1 DEF ColumnIsUniform, PrimaryShown
<1>4. CellInv
  BY <1>1, <1>2, <1>3 DEF CellInv
<1>5. StoredInv
  BY <1>1 DEF StoredInv
<1> QED
  BY <1>4, <1>5

\* A step that reads nothing.
LEMMA CellsUntouched ==
    ASSUME CellInv, UNCHANGED <<source, pc, row, allInt, allFloat, type, values>>
    PROVE  CellInv'
BY Zenon DEF CellInv, InferInv, LongCell, ColumnIsUniform, PrimaryShown, Primaries, Filled

\* Each row is looked at once, and what was known before stays true.
LEMMA InferStep ==
    ASSUME CellInv, InferRow
    PROVE  CellInv'
<1>1. /\ source.from = "csv" /\ pc = "query" /\ row < Len(source.column)
      /\ row' = row + 1
      /\ allInt' => allInt /\ (source.column[row'] = Blank \/ IsInt(source.column[row']))
      /\ allFloat' => allFloat /\ (source.column[row'] = Blank \/ IsFloat(source.column[row']))
      /\ UNCHANGED <<source, pc, type, values>>
  BY Zenon DEF InferRow
<1>2. row \in 0..Len(source.column) /\ Len(source.column) \in Nat
  BY <1>1, CsvSource DEF CellInv, InferInv
<1>3. row' \in 0..Len(source'.column) /\ \A i \in 1..row' : i \in 1..row \/ i = row'
  BY <1>1, <1>2
<1>4. InferInv'
  BY <1>1, <1>3 DEF CellInv, InferInv
<1> QED
  BY <1>1, <1>4 DEF CellInv, LongCell, ColumnIsUniform, PrimaryShown, Primaries, Filled

\* All cells are integers, or all are numbers, or the column is of strings.
LEMMA CsvStep ==
    ASSUME CellInv, CsvDone
    PROVE  CellInv'
<1>1. /\ source.from = "csv" /\ pc = "query" /\ row = Len(source.column)
      /\ type' = IF allInt THEN "long" ELSE IF allFloat THEN "real" ELSE "string"
      /\ values' = [i \in 1..Len(source.column) |-> Coerce(source.column[i], type')]
      /\ pc' = "fresh"
      /\ source' = source
  BY DEF CsvDone
<1>2. /\ Len(source.column) \in Nat
      /\ \A i \in 1..Len(source.column) : source.column[i] \in Fields
  BY <1>1, CsvSource DEF CellInv
<1>3. Len(values') = Len(source.column)
  BY <1>1, <1>2, SeqDef, LenProperties
<1>4. ASSUME NEW i \in 1..Len(source.column)
      PROVE  /\ type' = "long" => source.column[i] = Blank \/ IsInt(source.column[i])
             /\ type' = "real" => source.column[i] = Blank \/ IsFloat(source.column[i])
  BY <1>1 DEF CellInv, InferInv
<1>5. ASSUME NEW i \in 1..Len(source.column)
      PROVE  /\ values'[i] = Null <=> source.column[i] = Blank
             /\ values'[i] # Null => (values'[i].go = "float64" <=> type' \in {"long", "real"})
  <2>1. values'[i] = Coerce(source.column[i], type')
    BY <1>1
  <2>2. CASE source.column[i] = Blank
    BY <2>1, <2>2 DEF Coerce
  <2>3. CASE source.column[i] # Blank /\ type' \in {"long", "real"}
    <3>1. values'[i] = Float(source.column[i])
      BY <1>4, <2>1, <2>3 DEF Coerce
    <3> QED BY <2>3, <3>1 DEF Float, Value, Null
  <2>4. CASE source.column[i] # Blank /\ type' = "string"
    <3>1. values'[i] = Value("string", source.column[i])
      BY <2>1, <2>4 DEF Coerce
    <3> QED BY <2>4, <3>1 DEF Value, Null
  <2> QED BY <1>1, <2>2, <2>3, <2>4
<1>6. ASSUME type' = "long", NEW i \in 1..Len(source.column) PROVE LongCell(i)'
  <2>1. CASE source.column[i] = Blank
    BY <1>5, <2>1 DEF LongCell
  <2>2. CASE source.column[i] # Blank
    <3>1. IsInt(source.column[i])
      BY <1>4, <1>6, <2>2
    <3>2. PICK m \in Ints :
            source.column[i].n = m /\ Float(source.column[i]) = Float(Field(m))
      BY <1>2, <3>1, IntField
    <3>3. values'[i] = Float(Field(m))
      BY <1>1, <1>6, <2>2, <3>1, <3>2 DEF Coerce
    <3> QED BY <1>1, <3>2, <3>3 DEF LongCell
  <2> QED BY <2>1, <2>2
<1>7. ColumnIsUniform'
  BY <1>1, <1>3, <1>5 DEF ColumnIsUniform
<1> QED
  BY <1>1, <1>2, <1>3, <1>6, <1>7 DEF CellInv, InferInv, PrimaryShown

\* The first primary table, or the first with rows.
LEMMA ChosenIs ==
    ASSUME source \in Sources, source.from = "kusto"
    PROVE  /\ \A i \in Primaries :
                (\A j \in Primaries : i <= j) => Chosen = {source.frames[i]}
           /\ Primaries = {} /\ Filled # {} =>
                \E i \in Filled : Chosen = {source.frames[i]}
           /\ \A f \in Chosen : f \in Frames /\ f.frame = "DataTable"
<1>1. PICK k \in Nat : source.frames \in [1..k -> Frames]
  BY KustoSource
<1>2. Primaries \in SUBSET Nat /\ Filled \in SUBSET Nat
  BY <1>1 DEF Primaries, Filled
<1>3. ASSUME NEW i \in Primaries, \A j \in Primaries : i <= j
      PROVE  Chosen = {source.frames[i]}
  <2>1. Min(Primaries) \in Primaries /\ Min(Primaries) <= i /\ i <= Min(Primaries)
    BY <1>2, <1>3, MinInSet
  <2>2. Min(Primaries) = i
    <3>1. Min(Primaries) \in Nat /\ i \in Nat
      BY <1>2, <1>3, <2>1
    <3> QED BY <2>1, <3>1
  <2> QED BY <1>3, <2>2 DEF Chosen
<1>4. ASSUME Primaries = {}, Filled # {}
      PROVE  Min(Filled) \in Filled /\ Chosen = {source.frames[Min(Filled)]}
  BY <1>2, <1>4, MinInSet DEF Chosen
<1>5. ASSUME Primaries # {}
      PROVE  Min(Primaries) \in Primaries /\ Chosen = {source.frames[Min(Primaries)]}
  BY <1>2, <1>5, MinInSet DEF Chosen
<1>6. ASSUME NEW f \in Chosen PROVE f \in Frames /\ f.frame = "DataTable"
  <2>1. PICK i \in Primaries \union Filled : f = source.frames[i]
    BY <1>4, <1>5, <1>6 DEF Chosen
  <2> QED BY <1>1, <2>1 DEF Primaries, Filled, Primary, WithRows
<1> QED
  BY <1>3, <1>4, <1>6

LEMMA KustoStep ==
    ASSUME CellInv, KustoDone
    PROVE  CellInv'
<1>1. /\ source.from = "kusto" /\ pc = "query" /\ pc' = "fresh" /\ source' = source
      /\ source \in Sources
  BY DEF KustoDone, CellInv
<1>2. CASE Chosen = {}
  <2>1. type' = "none" /\ values' = <<>>
    BY <1>2 DEF KustoDone
  <2>2. Primaries = {} /\ Filled = {}
    BY <1>2 DEF Chosen
  <2>3. PrimaryShown'
    BY <1>1, <2>1, <2>2 DEF PrimaryShown, Primaries, Filled
  <2> QED BY <1>1, <2>1, <2>3 DEF CellInv, InferInv, ColumnIsUniform
<1>3. CASE Chosen # {}
  <2>1. PICK f \in Chosen : type' = f.type /\ values' = f.rows
    BY <1>3 DEF KustoDone
  <2>2. f \in Frames /\ f.frame = "DataTable"
    BY <1>1, ChosenIs
  <2>3. Len(values') \in Nat
    <3>1. f \in Tables
      BY <2>2 DEF Frames
    <3>2. PICK t \in KustoType :
            f \in [frame : {"DataTable"}, name : {"PrimaryResult", "QueryProperties"},
                   type : {t}, rows : Column(t), failed : {FALSE}]
      BY <3>1 DEF Tables
    <3>3. f.rows \in Column(t)
      BY <3>2
    <3> QED BY <2>1, <3>3 DEF Column
  <2>4. ASSUME type' = "long", NEW i \in 1..Len(values') PROVE LongCell(i)'
    <3>0. f.type = "long" /\ f.rows # <<>>
      BY <2>1, <2>4
    <3>1. PICK v \in Typed("long") \union {Null} : values' = <<v>>
      BY <2>1, <2>2, <3>0, TableRows
    <3>2. values'[i] = v
      BY <2>4, <3>1
    <3>3. v = Null \/ \E m \in Ints : v = Float(Field(m))
      BY DEF Typed
    <3> QED BY <1>1, <3>2, <3>3 DEF LongCell
  <2>5. PrimaryShown'
    <3>1. Primaries' = Primaries /\ Filled' = Filled
      BY <1>1 DEF Primaries, Filled
    <3>2. \A i \in Primaries :
            (\A j \in Primaries : i <= j) => values' = source.frames[i].rows
      BY <1>1, <2>1, ChosenIs
    <3>3. ASSUME Primaries = {}, Filled # {} PROVE values' # <<>>
      <4>1. PICK i \in Filled : Chosen = {source.frames[i]}
        BY <1>1, <3>3, ChosenIs
      <4>2. values' = source.frames[i].rows /\ Len(source.frames[i].rows) > 0
        BY <2>1, <4>1 DEF Filled, WithRows
      <4> QED BY <4>2
    <3> QED BY <1>1, <3>1, <3>2, <3>3 DEF PrimaryShown
  <2> QED BY <1>1, <2>3, <2>4, <2>5 DEF CellInv, InferInv, ColumnIsUniform
<1> QED
  BY <1>2, <1>3

LEMMA DuckStep ==
    ASSUME CellInv, DuckDone
    PROVE  CellInv'
<1>1. /\ source.from = "duckdb" /\ pc = "query" /\ pc' = "fresh" /\ source' = source
      /\ source \in Sources /\ type' = MapDBType(source.db) /\ values' = source.column
  BY DEF DuckDone, CellInv
<1>2. PICK v \in Scanned(source.db) \union {Null} : values' = <<v>>
  BY <1>1, DuckSource
<1>3. Len(values') = 1 /\ values' # <<>> /\ \A i \in 1..Len(values') : values'[i] = v
  BY <1>2
<1>4. ASSUME type' = "long", NEW i \in 1..Len(values') PROVE LongCell(i)'
  <2>1. source.db \in {"BIGINT", "HUGEINT"}
    BY <1>1, <1>4 DEF MapDBType
  <2>2. \/ v = Null
        \/ \E m \in Ints : v \in {Value("int64", Field(m)), Value("bigint", Field(m))}
    BY <2>1 DEF Scanned
  <2> QED BY <1>1, <1>3, <2>2 DEF LongCell
<1>5. InferInv' /\ ColumnIsUniform' /\ PrimaryShown'
  BY <1>1 DEF InferInv, ColumnIsUniform, PrimaryShown
<1> QED
  BY <1>1, <1>3, <1>4, <1>5 DEF CellInv

LEMMA StoreStep ==
    ASSUME CellInv, StoredInv, StoreCell
    PROVE  StoredInv'
<1> DEFINE Text1(i) == Value("string", Percent(values[i]))
           T == {Text1(i) : i \in 1..Len(values)}
           n == Len(stored)
<1>1. /\ n \in Nat /\ n < Len(values) /\ Len(values) \in Nat
      /\ stored = [i \in 1..n |-> Text1(i)]
      /\ stored' = Append(stored, Text1(n + 1)) /\ UNCHANGED values
  BY DEF StoreCell, StoredInv, CellInv
<1> HIDE DEF Text1
<1>2. stored \in Seq(T) /\ Text1(n + 1) \in T
  <2>1. \A i \in 1..n : Text1(i) \in T
    BY <1>1
  <2>2. [i \in 1..n |-> Text1(i)] \in Seq(T)
    BY <1>1, <2>1, IsASeq
  <2> QED BY <1>1, <2>2
<1>3. /\ stored' \in Seq(T) /\ Len(stored') = n + 1
      /\ \A i \in 1..n : stored'[i] = stored[i]
      /\ stored'[n + 1] = Text1(n + 1)
  BY <1>1, <1>2, AppendProperties
<1>4. stored' = [i \in 1..Len(stored') |-> stored'[i]]
  BY <1>3, LenProperties
<1>5. \A i \in 1..Len(stored') : stored'[i] = Text1(i)
  BY <1>1, <1>3
<1>6. stored' = [i \in 1..Len(stored') |-> Text1(i)]
  BY <1>4, <1>5
<1> QED
  BY <1>1, <1>3, <1>6 DEF StoredInv, Text1

LEMMA CellStep == CellInv /\ StoredInv /\ [Next]_vars => (CellInv /\ StoredInv)'
<1> SUFFICES ASSUME CellInv, StoredInv, [Next]_vars PROVE (CellInv /\ StoredInv)'
  OBVIOUS
<1>1. ASSUME pc = "query", UNCHANGED stored, Len(values') \in Nat PROVE StoredInv'
  <2>1. values = <<>>
    BY <1>1 DEF CellInv
  <2>2. Len(stored) = 0
    BY <2>1 DEF StoredInv
  <2>3. stored = <<>>
    BY <2>2 DEF StoredInv
  <2> QED BY <1>1, <2>3 DEF StoredInv
<1>2. CASE InferRow \/ CsvDone \/ KustoDone \/ DuckDone
  <2>1. CellInv'
    BY <1>2, InferStep, CsvStep, KustoStep, DuckStep
  <2> QED BY <1>1, <1>2, <2>1 DEF CellInv, InferRow, CsvDone, KustoDone, DuckDone
<1>3. CASE QueryFails
  <2>1. CellInv'
    BY <1>3 DEF QueryFails, CellInv, InferInv, LongCell, ColumnIsUniform, PrimaryShown
  <2> QED BY <1>1, <1>3, <2>1 DEF CellInv, QueryFails
<1>4. CASE StoreCell
  BY <1>4, StoreStep, CellsUntouched DEF StoreCell
<1>5. CASE UNCHANGED vars
  BY <1>5, CellsUntouched DEF vars, StoredInv
<1> QED
  BY <1>2, <1>3, <1>4, <1>5 DEF Next

LEMMA CellInductive == Spec => [](CellInv /\ StoredInv)
BY CellInit, CellStep, PTL DEF Spec

\* inferColumn and coerce agree: a column is of numbers or of strings, and a cell
\* is empty exactly where the field is.
THEOREM ColumnsUniform == Spec => []ColumnIsUniform
<1>1. CellInv => ColumnIsUniform
  BY DEF CellInv
<1> QED
  BY <1>1, CellInductive, PTL

\* The rows shown are those of the first primary table, or of the first table
\* with rows, wherever it stands among the frames.
THEOREM RowsOfTheQuery == Spec => []PrimaryShown
<1>1. CellInv => PrimaryShown
  BY DEF CellInv
<1> QED
  BY <1>1, CellInductive, PTL

----------------------------------------------------------------------------
(* Digits                                                                  *)

\* The values that an integer may have in a column of longs.
Longs(m) == {Float(Field(m)), Value("int64", Field(m)), Value("bigint", Field(m))}

\* What a long is, and the number it shows.
LEMMA LongIs ==
    ASSUME NEW m \in Ints, NEW v \in Longs(m)
    PROVE  /\ v.text.kind = "number" /\ v.text.n \in Int
           /\ \/ v.go = "float64" /\ v.text = Text("number", v.text.n, "none", Unwritten)
              \/ v.go \in {"int64", "bigint"} /\ v.text = Field(v.text.n)
<1>1. CASE v = Float(Field(m))
  <2>1. v.go = "float64" /\ v.text = Text("number", Nearest(m), "none", Unwritten)
    BY <1>1, FloatIs
  <2>2. v.text.kind = "number" /\ v.text.n = Nearest(m)
    BY <2>1, TextIs
  <2>3. Nearest(m) \in Int
    BY NearestInt
  <2> QED BY <2>1, <2>2, <2>3
<1>2. CASE v \in {Value("int64", Field(m)), Value("bigint", Field(m))}
  <2>1. v.go \in {"int64", "bigint"} /\ v.text = Field(m)
    BY <1>2, ValueIs
  <2>2. v.text.kind = "number" /\ v.text.n = m
    BY <2>1, FieldIs
  <2>3. m \in Int
    BY NearestInt
  <2> QED BY <2>1, <2>2, <2>3
<1> QED
  BY <1>1, <1>2 DEF Longs

\* A long that a float64 holds is shown with its digits.
LEMMA LongShown ==
    ASSUME NEW m \in Ints, NEW v \in Longs(m),
           Abs(v.text.n) <= ExactTo
    PROVE  FormatValue(v, "long") = Field(v.text.n)
<1> DEFINE n == v.text.n
<1>1. n \in Int /\ Int64(n) = n /\ v.text.kind = "number"
  BY LongIs, Int64Exact
<1>2. CASE v.go = "float64" /\ v.text = Text("number", n, "none", Unwritten)
  <2>1. FormatValue(v, "long") = Text(v.text.kind, Int64(v.text.n), "none", <<"digits">>)
    BY <1>2 DEF FormatValue
  <2> QED BY <1>1, <2>1, FieldIs
<1>3. CASE v.go \in {"int64", "bigint"} /\ v.text = Field(n)
  <2>1. FormatValue(v, "long") = v.text
    BY <1>1, <1>3 DEF FormatValue, Marshal
  <2> QED BY <1>3, <2>1
<1> QED
  BY <1>2, <1>3, LongIs

\* The cache's text of a long names the same number.
LEMMA HitNumber ==
    ASSUME NEW m \in Ints, NEW v \in Longs(m)
    PROVE  FormatValue(Value("string", Percent(v)), "string").n = v.text.n
<1> DEFINE t == Percent(v)
           n == v.text.n
<1>1. t.kind = "number" /\ t.n = n
  <2>1. CASE v.go = "float64" /\ v.text = Text("number", n, "none", Unwritten)
    <3>1. PICK u : t = [v.text EXCEPT !.as = u]
      BY <2>1 DEF Percent
    <3>2. t = Text("number", n, "none", u)
      BY <2>1, <3>1, Rewritten
    <3> QED BY <3>2, TextIs
  <2>2. CASE v.go \in {"int64", "bigint"} /\ v.text = Field(n)
    <3>1. t = v.text
      BY <2>2 DEF Percent
    <3> QED BY <2>2, <3>1, FieldIs
  <2> QED BY <2>1, <2>2, LongIs
<1> HIDE DEF t
<1>2. Value("string", t).go = "string" /\ Value("string", t).text = t
  BY ValueIs
<1>3. FormatValue(Value("string", t), "string") = t
  BY <1>1, <1>2 DEF FormatValue, Marshal
<1> QED
  BY <1>1, <1>3 DEF t

\* A CSV integer of up to 2^53 keeps its digits through the float64, and so does
\* a long of Kusto or DuckDB; a hit shows the same number.
THEOREM DigitsSurvive == Spec => []DigitsKept
<1>1. CellInv /\ StoredInv => DigitsKept
  <2> SUFFICES ASSUME CellInv, StoredInv, type = "long", NEW i \in 1..Len(values)
               PROVE  LET n == IF source.from = "csv" THEN source.column[i].n
                                                      ELSE values[i].text.n
                      IN  values[i] # Null /\ Abs(n) <= ExactTo =>
                            Fresh("table", i) = Field(n)
                              /\ (i <= Len(stored) => Hit("table", i).n = n)
    BY DEF DigitsKept
  <2> DEFINE n == IF source.from = "csv" THEN source.column[i].n ELSE values[i].text.n
  <2> SUFFICES ASSUME values[i] # Null, Abs(n) <= ExactTo
               PROVE  Fresh("table", i) = Field(n)
                        /\ (i <= Len(stored) => Hit("table", i).n = n)
    OBVIOUS
  <2>1. PICK m \in Ints :
          /\ values[i] \in Longs(m)
          /\ source.from = "csv" =>
               source.column[i].n = m /\ values[i] = Float(Field(m))
    BY DEF CellInv, LongCell, Longs
  <2>2. n = values[i].text.n /\ n \in Int
    <3>1. CASE source.from = "csv"
      <4>1. n = m /\ m \in Int
        BY <2>1, <3>1, FieldIs, NearestInt
      <4>2. Nearest(m) = m
        BY <4>1, NearestExact
      <4>3. values[i].text.n = Nearest(m)
        BY <2>1, <3>1, FloatIs, TextIs
      <4> QED BY <4>1, <4>2, <4>3
    <3>2. CASE source.from # "csv"
      BY <2>1, <3>2, LongIs
    <3> QED BY <3>1, <3>2
  <2> HIDE DEF n
  <2>3. Fresh("table", i) = Field(n)
    BY <2>1, <2>2, LongShown DEF Fresh, Shown
  <2>4. ASSUME i <= Len(stored) PROVE Hit("table", i).n = n
    <3>1. stored[i] = Value("string", Percent(values[i]))
      BY <2>4 DEF StoredInv
    <3> QED BY <2>1, <2>2, <3>1, HitNumber DEF Hit, Shown
  <2> QED BY <2>3, <2>4
<1> QED
  BY <1>1, CellInductive, PTL
=============================================================================
