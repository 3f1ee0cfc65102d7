------------------------------- MODULE Cells -------------------------------
(***************************************************************************)
(* The way of one column of a result: from what a backend read (a CSV      *)
(* column, the frames of a Kusto answer, rows of DuckDB) to Go values with *)
(* a column type, from there to the screen, and the same after a detour    *)
(* through the result cache, which stores every value as text.             *)
(*                                                                         *)
(* A text is what it says (kind, n, frac) and how it is written (as), so   *)
(* that two texts are equal when they are the same characters.  A value    *)
(* is a text with its Go type.                                             *)
(*                                                                         *)
(* Operators marked "Wrong" are variants with a bug; README.md says which  *)
(* property finds each of them.                                            *)
(***************************************************************************)
EXTENDS Integers, Sequences, FiniteSetsExt

CONSTANTS
    Ints,      \* integers in the data
    ExactTo,   \* 2^53: a float64 holds every integer up to here
    Word,      \* 2^63: int64 ends here
    Overflow,  \* what int64(f) is beyond: it depends on the processor
    ExpFrom,   \* 10^6: "%v" of a float64 writes an exponent from here
    MaxRows, MaxFrames

\* 2^63 is 2^10 times 2^53.  Larger integers, which a CSV file or a HUGEINT may
\* hold, go the way of 2^63.
ASSUME IntsAssumption == \A n \in Ints : n \in Int /\ n <= ExactTo * 1024 /\ - n <= ExactTo * 1024
ASSUME BoundsAssumption ==
    /\ ExpFrom \in Nat /\ ExactTo \in Nat \ {0} /\ Word \in Nat
    /\ ExpFrom <= ExactTo /\ ExactTo < Word
    /\ Overflow \in {- Word, Word - 1}
    /\ MaxRows \in Nat /\ MaxFrames \in Nat

VARIABLES
    source,            \* what the backend reads
    pc,
    row,               \* rows inferColumn has looked at
    allInt, allFloat,  \* what it knows of them
    type, values,      \* the fresh column
    stored             \* its text in the cache, one row at a time

vars == <<source, pc, row, allInt, allFloat, type, values, stored>>

----------------------------------------------------------------------------
(* Texts and values                                                        *)

Text(kind, n, frac, as) == [kind |-> kind, n |-> n, frac |-> frac, as |-> as]
Value(go, text) == [go |-> go, text |-> text]

\* The spelling of a value that is not a text yet.
Unwritten == <<>>

Blank == Text("nothing", 0, "none", <<>>)
NilText == Text("nothing", 0, "none", <<"<nil>">>)
Null == Value("nil", Blank)
Field(n) == Text("number", n, "none", <<"digits">>)
Padded(n) == Text("number", n, "none", <<"zeros or a plus sign, digits">>)
Fraction(n, frac) == Text("number", n, frac, <<"digits">>)
NaN == Text("nan", 0, "none", <<"digits">>)
Word1 == Text("word", 1, "none", <<"chars">>)
Instant == Text("instant", 1, "none", <<"RFC3339">>)

Abs(n) == IF n < 0 THEN - n ELSE n
PowerOf2 == {1, 2, 4, 8, 16, 32, 64, 128, 256, 512, 1024}
Ulp(n) == CHOOSE p \in PowerOf2 :
            Abs(n) <= ExactTo * p /\ (p = 1 \/ Abs(n) > ExactTo * (p \div 2))

\* The nearest float64, ties to even.
Nearest(n) ==
    LET p == Ulp(n)
        down == (n \div p) * p
        rest == n - down
    IN  IF 2 * rest < p \/ (2 * rest = p /\ (down \div p) % 2 = 0)
          THEN down ELSE down + p

Float(text) == Value("float64", Text(text.kind, Nearest(text.n), text.frac, Unwritten))

\* int64(f).
InWord(n) == - Word <= n /\ n < Word
Int64(n) == IF InWord(n) THEN n ELSE Overflow

\* fmt.Sprintf("%v").
Percent(v) ==
    CASE v.go = "nil" -> NilText
      [] v.go = "string" -> v.text
      [] v.go = "float64" ->
           [v.text EXCEPT !.as = IF Abs(v.text.n) >= ExpFrom THEN <<"exponent">>
                                                            ELSE <<"digits">>]
      [] v.go \in {"float32", "decimal"} -> [v.text EXCEPT !.as = <<"digits">>]
      [] v.go \in {"map", "time", "bytes"} -> [v.text EXCEPT !.as = <<"go">>]
      [] OTHER -> v.text

\* json.Marshal of what is not a string; NaN is an error.
Marshal(v) ==
    CASE v.go = "nil" -> [Blank EXCEPT !.as = <<"null">>]
      [] v.go \in {"float64", "float32"} -> [v.text EXCEPT !.as = <<"digits">>]
      [] v.go \in {"map", "bytes", "decimal"} -> [v.text EXCEPT !.as = <<"json">>]
      [] v.go = "time" -> [v.text EXCEPT !.as = <<"RFC3339">>]
      [] OTHER -> v.text

TimeText(v) ==
    IF v.go = "string" /\ v.text.kind = "instant" /\ v.text.as = <<"RFC3339">>
      THEN {[v.text EXCEPT !.as = <<"short">>]} ELSE {}

----------------------------------------------------------------------------
(* Renderers                                                               *)

\* Wrong: integers are printed like reals.
FormatValueReal(v, t) ==
    IF v.go = "nil" THEN Blank
    ELSE IF t \in {"long", "real"} /\ v.go = "float64"
      THEN [v.text EXCEPT !.as = <<"4 decimals">>]
    ELSE Marshal(v)

FormatValue(v, t) ==
    CASE v.go = "nil" -> Blank
      [] t = "datetime" /\ TimeText(v) # {} -> CHOOSE s \in TimeText(v) : TRUE
      [] t = "long" /\ v.go = "float64" ->
           Text(v.text.kind, Int64(v.text.n), "none", <<"digits">>)
      [] t = "real" /\ v.go = "float64" ->
           [v.text EXCEPT !.frac = IF @ = "long" THEN "rounded" ELSE @,
                          !.as = <<"4 decimals">>]
      [] OTHER -> IF v.text.kind = "nan" THEN Percent(v) ELSE Marshal(v)

ToString(v) == IF v.go = "nil" THEN Blank ELSE Percent(v)
FormatTime(v) ==
    IF v.go = "nil" THEN [Blank EXCEPT !.as = <<"??:??:??">>]
    ELSE IF TimeText(v) # {} THEN CHOOSE s \in TimeText(v) : TRUE
    ELSE Percent(v)

\* -show-all leaves out what is empty.
AllColumns(v) == IF ToString(v) \in {Blank, NilText} THEN Blank ELSE ToString(v)

\* A string keeps its quotes in JSON.
JsonText(v) ==
    IF v.go = "string" THEN [v.text EXCEPT !.as = <<"quoted">> \o @] ELSE Marshal(v)

Format == {"table", "json", "log message", "log time", "log column", "log all"}
Shown(f, v, t) ==
    CASE f = "table" -> FormatValue(v, t)
      [] f = "json" -> JsonText(v)
      [] f = "log message" -> ToString(v)
      [] f = "log time" -> FormatTime(v)
      [] f = "log column" -> Percent(v)
      [] f = "log all" -> AllColumns(v)

----------------------------------------------------------------------------
(* What a backend may read                                                 *)

Fields ==
    {Blank, NaN, Word1, Instant}
      \union {Field(n) : n \in Ints} \union {Padded(n) : n \in Ints}
      \union {Fraction(n, f) : n \in {0}, f \in {"short", "long"}}

\* A cell of a Kusto or DuckDB column of this type.
Go(go, text) == {Value(go, text)}
Typed(t) ==
    CASE t = "long" -> {Float(Field(n)) : n \in {m \in Ints : InWord(m)}}
      [] t = "real" -> {Float(Fraction(0, f)) : f \in {"short", "long"}}
      [] t = "string" -> Go("string", Word1)
      [] t = "datetime" -> Go("string", Instant)
      [] t = "bool" -> Go("bool", Text("truth", 1, "none", <<"chars">>))
      [] t = "dynamic" -> Go("map", Text("tree", 1, "none", Unwritten))

\* The smaller integer types are like BIGINT, every other type like VARCHAR.
DBType == {"BIGINT", "HUGEINT", "FLOAT", "DOUBLE", "DECIMAL", "BOOLEAN",
           "TIMESTAMP", "DATE", "TIME", "BLOB", "VARCHAR"}
Scanned(d) ==
    CASE d = "BIGINT" -> {Value("int64", Field(n)) : n \in {m \in Ints : InWord(m)}}
      [] d = "HUGEINT" -> {Value("bigint", Field(n)) : n \in Ints}
      [] d = "FLOAT" -> {Value("float32", t) : t \in {NaN, Fraction(0, "short")}}
      [] d = "DOUBLE" -> Typed("real") \union Go("float64", NaN)
      [] d = "DECIMAL" -> Go("decimal", [Fraction(0, "long") EXCEPT !.as = Unwritten])
      [] d \in {"TIMESTAMP", "DATE", "TIME"} -> Go("time", [Instant EXCEPT !.as = Unwritten])
      [] d = "BLOB" -> Go("bytes", Text("bytes", 1, "none", Unwritten))
      [] d = "BOOLEAN" -> Typed("bool")
      [] d = "VARCHAR" -> Typed("string")

KustoType == {"long", "real", "string", "datetime", "bool", "dynamic"}
Column(t) == {<<>>} \union {<<v>> : v \in Typed(t) \union {Null}}
Tables ==
    UNION {[frame : {"DataTable"}, name : {"PrimaryResult", "QueryProperties"},
            type : {t}, rows : Column(t), failed : {FALSE}] : t \in KustoType}
Frames ==
    Tables \union [frame : {"DataSetCompletion"}, name : {"none"}, type : {"none"},
                   rows : {<<>>}, failed : BOOLEAN]

UpTo(S, n) == UNION {[1..k -> S] : k \in 0..n}

Sources ==
    [from : {"csv"}, column : UpTo(Fields, MaxRows)]
      \union [from : {"kusto"}, status : {"ok", "error"}, frames : UpTo(Frames, MaxFrames)]
      \union UNION {[from : {"duckdb"}, db : {d}, column : {<<v>> : v \in Scanned(d) \union {Null}},
                     fails : BOOLEAN] : d \in DBType}

Init ==
    /\ source \in Sources
    /\ pc = "query" /\ row = 0
    /\ allInt = TRUE /\ allFloat = TRUE
    /\ type = "none" /\ values = <<>> /\ stored = <<>>

----------------------------------------------------------------------------
(* The backends                                                            *)

IsInt(text) == text.kind = "number" /\ text.frac = "none" /\ InWord(text.n)
IsFloat(text) == text.kind \in {"number", "nan"}

\* Wrong: each row decides anew.
InferRowLast ==
    /\ source.from = "csv" /\ pc = "query"
    /\ row < Len(source.column)
    /\ row' = row + 1
    /\ LET field == source.column[row']
       IN  /\ allInt' = (field = Blank \/ IsInt(field))
           /\ allFloat' = (field = Blank \/ IsFloat(field))
    /\ UNCHANGED <<source, pc, type, values, stored>>

\* inferColumn: empty fields do not count.
InferRow ==
    /\ source.from = "csv" /\ pc = "query"
    /\ row < Len(source.column)
    /\ row' = row + 1
    /\ LET field == source.column[row']
       IN  /\ allInt' = (allInt /\ (field = Blank \/ IsInt(field)))
           /\ allFloat' = (allFloat /\ (field = Blank \/ IsFloat(field)))
    /\ UNCHANGED <<source, pc, type, values, stored>>

Coerce(field, t) ==
    IF field = Blank THEN Null
    ELSE IF (t = "long" /\ IsInt(field)) \/ (t = "real" /\ IsFloat(field)) THEN Float(field)
    ELSE Value("string", field)

CsvDone ==
    /\ source.from = "csv" /\ pc = "query"
    /\ row = Len(source.column)
    /\ type' = IF allInt THEN "long" ELSE IF allFloat THEN "real" ELSE "string"
    /\ values' = [i \in 1..Len(source.column) |-> Coerce(source.column[i], type')]
    /\ pc' = "fresh"
    /\ UNCHANGED <<source, row, allInt, allFloat, stored>>

Primary(f) == f.frame = "DataTable" /\ f.name = "PrimaryResult"
WithRows(f) == f.frame = "DataTable" /\ Len(f.rows) > 0
Primaries == {i \in DOMAIN source.frames : Primary(source.frames[i])}
Filled == {i \in DOMAIN source.frames : WithRows(source.frames[i])}

\* Wrong: the first table with rows is taken.
ChosenByRows == IF Filled # {} THEN {source.frames[Min(Filled)]} ELSE {}

\* doQuery: the first primary table, or the first table with rows.
Chosen ==
    IF Primaries # {} THEN {source.frames[Min(Primaries)]}
    ELSE IF Filled # {} THEN {source.frames[Min(Filled)]}
    ELSE {}

KustoDone ==
    /\ source.from = "kusto" /\ pc = "query" /\ source.status = "ok"
    /\ IF Chosen = {} THEN type' = "none" /\ values' = <<>>
       ELSE \E f \in Chosen : type' = f.type /\ values' = f.rows
    /\ pc' = "fresh"
    /\ UNCHANGED <<source, row, allInt, allFloat, stored>>

MapDBType(d) ==
    CASE d \in {"BIGINT", "HUGEINT"} -> "long"
      [] d \in {"FLOAT", "DOUBLE", "DECIMAL"} -> "real"
      [] d = "BOOLEAN" -> "bool"
      [] d \in {"TIMESTAMP", "DATE", "TIME"} -> "datetime"
      [] d = "BLOB" -> "dynamic"
      [] OTHER -> "string"

DuckDone ==
    /\ source.from = "duckdb" /\ pc = "query" /\ ~ source.fails
    /\ type' = MapDBType(source.db)
    /\ values' = source.column
    /\ pc' = "fresh"
    /\ UNCHANGED <<source, row, allInt, allFloat, stored>>

\* A CSV file that cannot be opened or read, a status other than 200, or an error of
\* the driver.
QueryFails ==
    /\ pc = "query"
    /\ \/ source.from = "csv" /\ row = 0
       \/ source.from = "kusto" /\ source.status = "error"
       \/ source.from = "duckdb" /\ source.fails
    /\ pc' = "failed"
    /\ UNCHANGED <<source, row, allInt, allFloat, type, values, stored>>

----------------------------------------------------------------------------
(* The cache                                                               *)

\* Put: "%v" of each value; Get: columns of type "string".
StoreCell ==
    /\ pc = "fresh" /\ Len(stored) < Len(values)
    /\ stored' = Append(stored, Value("string", Percent(values[Len(stored) + 1])))
    /\ UNCHANGED <<source, pc, row, allInt, allFloat, type, values>>

Next == InferRow \/ CsvDone \/ KustoDone \/ DuckDone \/ QueryFails \/ StoreCell

Spec == Init /\ [][Next]_vars

----------------------------------------------------------------------------
(* What should hold of it                                                  *)

Fresh(f, i) == Shown(f, values[i], type)
Hit(f, i) == Shown(f, stored[i], "string")

\* Inference and conversion of a CSV column agree: all its cells are numbers, or
\* all are strings, but for empty ones, and none is lost (csv.go:88-126).
ColumnIsUniform ==
    source.from = "csv" /\ pc = "fresh" =>
      /\ Len(values) = Len(source.column)
      /\ \A i \in 1..Len(values) :
           /\ values[i] = Null <=> source.column[i] = Blank
           /\ values[i] # Null => (values[i].go = "float64" <=> type \in {"long", "real"})

\* An integer of up to 2^53 in a column of integers is shown in plain digits, as the
\* number it is, although it may travel as a float64, whatever backend it comes from
\* and however a CSV file spells it; a hit names the same number (table.go:83-86,
\* csv.go:95, 116-118).
DigitsKept ==
    type = "long" =>
      \A i \in 1..Len(values) :
        LET n == IF source.from = "csv" THEN source.column[i].n ELSE values[i].text.n
        IN  values[i] # Null /\ Abs(n) <= ExactTo =>
              Fresh("table", i) = Field(n) /\ (i <= Len(stored) => Hit("table", i).n = n)

\* The rows shown are those of the query: a table of properties that comes
\* first, or has rows where the result has none, never takes their place; an
\* answer that names no result still shows the rows it has (client.go:161-175).
PrimaryShown ==
    source.from = "kusto" /\ pc = "fresh" =>
      /\ \A i \in Primaries :
           (\A j \in Primaries : i <= j) => values = source.frames[i].rows
      /\ values = <<>> => Primaries # {} \/ Filled = {}

\* An integer of a CSV file is shown as it is spelled there.
SpellingKept ==
    source.from = "csv" /\ type = "long" =>
      \A i \in 1..Len(values) : Abs(source.column[i].n) <= ExactTo =>
        Fresh("table", i) = source.column[i]

\* A hit shows what the query showed.
HitShowsTheSame ==
    \A i \in 1..Len(stored), f \in Format : Hit(f, i) = Fresh(f, i)

\* An answer that reports an error at its end is not shown as a result.
FailureIsError ==
    source.from = "kusto" /\ pc = "fresh" =>
      \A i \in DOMAIN source.frames : ~ source.frames[i].failed

\* -f json prints a result: json.Encode refuses NaN, and its error is ignored.
JsonPrints ==
    \A i \in 1..Len(values) : values[i].go \in {"float64", "float32"} => values[i].text.kind # "nan"
=============================================================================
