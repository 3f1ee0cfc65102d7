----------------------------- MODULE ConfigText -----------------------------
(***************************************************************************)
(* The text of ~/.jacques/config.hcl, line by line, and what the program   *)
(* does with it: src/config/config.go decodes it as HCL; `config set` and  *)
(* `config use` (src/main.go) edit its lines without decoding it.          *)
(*                                                                         *)
(* A line is a record of what those edits look at: the two labels of a     *)
(* `connection` header, whether the line has an opening and a closing      *)
(* brace, and the attribute it assigns.  No attribute name is a prefix of  *)
(* another, so the code's prefix test is equality of names.                *)
(*                                                                         *)
(* Operators marked "Wrong" are variants with a bug; README.md says which  *)
(* property finds each of them.                                            *)
(***************************************************************************)
EXTENDS Integers, Sequences, FiniteSetsExt

CONSTANT None    \* no connection, no attribute, no file

\* The attributes of a connection that steer a query.
Field == {"cluster", "database", "path", "scopes", "token_provider"}
Current == "current_connection"
Empty == "(empty)"    \* the empty string, also of what is not set
Unset == [f \in Field |-> Empty]
Cut == "(cut)"        \* stands for what is left of a line cut in two

Attr(f, v) ==
    [labels |-> <<>>, opens |-> FALSE, closes |-> FALSE, field |-> f, value |-> v]
Header(t, n) ==
    [labels |-> <<t, n>>, opens |-> TRUE, closes |-> FALSE, field |-> None, value |-> None]
OneLine(t, n, f, v) ==
    [labels |-> <<t, n>>, opens |-> TRUE, closes |-> TRUE, field |-> f, value |-> v]
Close ==
    [labels |-> <<>>, opens |-> FALSE, closes |-> TRUE, field |-> None, value |-> None]
\* `display {`: its attributes do not steer a query and are left out.
DisplayHeader ==
    [labels |-> <<>>, opens |-> TRUE, closes |-> FALSE, field |-> None, value |-> None]

\* The literals are strings too, but the provers do not know it.
Word == STRING \union {Empty, Current, Cut, "kusto", "(cli)", None}
Line == [labels : {<<>>} \union (STRING \X STRING), opens : BOOLEAN, closes : BOOLEAN,
         field : Word, value : Word]
Conn == [type : Word, name : Word, attrs : [Field -> Word]]

ASSUME NoneAssumption == None \notin Seq(Line) \union Conn

IsHeader(l) == l.labels # <<>>
Assigns(l, field) == ~ IsHeader(l) /\ l.field = field

----------------------------------------------------------------------------
(* Decoding                                                                *)

NewConn(l) ==
    [type |-> l.labels[1], name |-> l.labels[2],
     attrs |-> [f \in Field |-> IF f = l.field THEN l.value ELSE Empty]]

Assign(conn, field, value) == [conn EXCEPT !.attrs[field] = value]

\* One more line of HCL: a header begins a connection, an attribute is of the
\* block it stands in.
Conns(conns, inside, l) ==
    IF IsHeader(l) THEN Append(conns, NewConn(l))
    ELSE IF inside /\ l.field \in Field
      THEN [conns EXCEPT ![Len(conns)] = Assign(@, l.field, l.value)]
    ELSE conns

Decode(cfg, l) ==
    [current |-> IF Assigns(l, Current) THEN l.value ELSE cfg.current,
     conns   |-> Conns(cfg.conns, cfg.inside, l),
     inside  |-> (IsHeader(l) \/ cfg.inside) /\ ~ l.closes]

\* The configuration after each line.  An empty text is a valid, empty one.
NoConfig == [current |-> Empty, conns |-> <<>>, inside |-> FALSE]
Decoded(text) ==
    LET cfg[n \in 0..Len(text)] == IF n = 0 THEN NoConfig ELSE Decode(cfg[n - 1], text[n])
    IN  cfg

Starts(l) == l.opens /\ ~ l.closes
Ends(l) == l.closes /\ ~ l.opens
IsDisplay(l) == l.opens /\ ~ IsHeader(l)

\* Line k stands in the block that line i opens, or closes it.
Within(text, i, k) ==
    Starts(text[i]) /\ \A m \in (i + 1)..(k - 1) : ~ text[m].opens /\ ~ text[m].closes

\* A block is closed; an attribute stands where it belongs, and no block in
\* another one.
Ending(text, i) ==
    \E k \in (i + 1)..Len(text) : Ends(text[k]) /\ Within(text, i, k)
Fits(text, k) ==
    LET l == text[k]
        within == \E i \in 1..(k - 1) : Within(text, i, k)
    IN  /\ l.field # Cut
        /\ Ends(l) => within
        /\ l.opens \/ Assigns(l, Current) => ~ within
        /\ ~ IsHeader(l) /\ l.field \in Field =>
             \E i \in 1..(k - 1) : IsHeader(text[i]) /\ Within(text, i, k)

\* An attribute given twice in one place, or two `display` blocks.
Repeated(text, j, k) ==
    \/ IsDisplay(text[j]) /\ IsDisplay(text[k])
    \/ \E f \in Field \union {Current} :
         /\ Assigns(text[j], f) /\ Assigns(text[k], f)
         /\ f = Current \/ ~ \E i \in j..k : text[i].opens

\* HCL decodes the text as a Config.
Parses(text) ==
    \A k \in 1..Len(text) :
        /\ Starts(text[k]) => Ending(text, k)
        /\ Fits(text, k)
        /\ \A j \in 1..(k - 1) : ~ Repeated(text, j, k)

\* A text that does not decode is as good as none: the query warns and goes on
\* without (main.go), `config use` finds no connection of any name.
Load(text) == IF text # None /\ Parses(text) THEN Decoded(text)[Len(text)] ELSE NoConfig

FindConnection(cfg, name) ==
    LET named == {i \in DOMAIN cfg.conns : cfg.conns[i].name = name}
    IN  IF named = {} THEN None ELSE cfg.conns[Min(named)]

\* A current_connection that names nothing gives nothing, not the first one.
DefaultConn(cfg) ==
    IF cfg.current # Empty THEN FindConnection(cfg, cfg.current)
    ELSE IF cfg.conns # <<>> THEN cfg.conns[1]
    ELSE None

----------------------------------------------------------------------------
(* Editing                                                                 *)

Set(text, hits, value) ==
    [i \in 1..Len(text) |-> IF i \in hits THEN [text[i] EXCEPT !.value = value] ELSE text[i]]

\* Wrong: the edit does not see where the block ends.
ReplaceFieldNoEnd(text, name, field, value) ==
    LET hits == {i \in 1..Len(text) :
                   Assigns(text[i], field)
                     /\ \E j \in 1..(i - 1) : IsHeader(text[j]) /\ text[j].labels[2] = name}
    IN  Set(text, hits, value)

\* The header is a `connection` line that has the quoted name anywhere in it.
NamedBy(l, name) == IsHeader(l) /\ name \in {l.labels[1], l.labels[2], l.value}

\* How deep in the block of that name the edit takes itself to be after each
\* line: braces are counted from the line after the header.
Depth(text, name) ==
    LET depth[n \in 0..Len(text)] ==
          IF n = 0 THEN 0
          ELSE IF NamedBy(text[n], name) THEN 1
          ELSE IF depth[n - 1] > 0
            THEN depth[n - 1] + (IF text[n].opens THEN 1 ELSE 0)
                              - (IF text[n].closes THEN 1 ELSE 0)
          ELSE 0
    IN  depth

\* replaceFieldInConfig: every line in that block that assigns the field gets
\* the value.
ReplaceField(text, name, field, value) ==
    LET hits == {i \in 1..Len(text) :
                   /\ Depth(text, name)[i - 1] > 0
                   /\ Assigns(text[i], field) /\ ~ text[i].closes}
    IN  Set(text, hits, value)

\* replaceTopLevelField: the first line that assigns it, or a new first line.
ReplaceTop(text, field, value) ==
    LET lines == {i \in 1..Len(text) : Assigns(text[i], field)}
    IN  IF lines = {} THEN <<Attr(field, value)>> \o text
        ELSE Set(text, {Min(lines)}, value)

\* What is left of a longer text behind a shorter one that is written over it:
\* its last lines, the first of them perhaps cut in two.
Fragment(l) == [l EXCEPT !.labels = <<>>, !.field = Cut]
Left(text) ==
    {<<>>} \union {SubSeq(text, n, Len(text)) : n \in 2..Len(text)}
           \union {<<Fragment(text[n])>> \o SubSeq(text, n + 1, Len(text)) : n \in 1..Len(text)}

----------------------------------------------------------------------------
(* What the two edits are for, said of the decoded configuration           *)

SetField(cfg, name, field, value) ==
    [cfg EXCEPT !.conns = [i \in DOMAIN @ |->
        IF @[i].name = name THEN Assign(@[i], field, value) ELSE @[i]]]
=============================================================================
