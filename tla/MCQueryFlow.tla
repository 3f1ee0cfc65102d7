---------------------------- MODULE MCQueryFlow ----------------------------
\* Small instances of QueryFlow for TLC.
EXTENDS QueryFlow

CONSTANTS c1, c2, s1, e1

\* A kusto connection with everything set but perhaps the database, which
\* `config init` leaves empty for one of its connections.
Kusto(n, db) == <<Header("kusto", n), Attr("cluster", "x"), Attr("database", db),
                  Attr("token_provider", "az"), Attr("scopes", "s"), Close>>
Csv(n) == <<Header("csv", n), Attr("path", "p"), Close>>
Duck(n) == <<Header("duckdb", n), Attr("path", Empty), Close>>

\* Two kusto databases with the second as the default; two files without one.
Full == {<<Attr(Current, "b")>> \o Kusto("a", "u") \o Kusto("b", "v"),
         Csv("a") \o Duck("b")}
OneKusto == {<<Attr(Current, "a")>> \o Kusto("a", "u")}
NoDatabase == {<<Attr(Current, "a")>> \o Kusto("a", Empty)}

NoFlags == [cluster |-> Empty, database |-> Empty]
OnlyNoFlags == {NoFlags}
DatabaseFlag == {NoFlags, [cluster |-> Empty, database |-> "w"]}
NoEnv == {NoFlags}
DatabaseEnv == {[cluster |-> Empty, database |-> "e"]}
AnyEnv == NoEnv \union DatabaseEnv

MCDefault == Kusto("a", "u")
NoSets == {}
\* An edit that says how to ask, not where.
SetProvider == {[name |-> "a", field |-> "token_provider", value |-> "x"]}
SetDatabase == {[name |-> "a", field |-> "database", value |-> "w"]}
=============================================================================
