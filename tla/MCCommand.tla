----------------------------- MODULE MCCommand -----------------------------
(* Small instances of Command: two directories with a login each, one of    *)
(* which can be spelled in two ways, beside the default one.  A link leads  *)
(* to the first and is another path; "~/.azure" is a path in the working    *)
(* directory to jacques, and the default directory to the Azure CLI.        *)
EXTENDS Command, TLC

CONSTANTS p, q, a1, a2, home, machine

Paths == {"/d1/.azure", "/d2/.azure", "/link", "/d1/~/.azure", "/d2/~/.azure"}
AbsoluteOf ==
    [d \in Cwd |-> [s \in Spelling \ {Unset} |->
       CASE s \in Paths -> s
         [] s = ".azure" -> IF d = "d1" THEN "/d1/.azure" ELSE "/d2/.azure"
         [] s = "~/.azure" -> IF d = "d1" THEN "/d1/~/.azure" ELSE "/d2/~/.azure"]]
LoginOf ==
    [l \in Paths |-> CASE l \in {"/d1/.azure", "/link"} -> a1
                      [] l = "/d2/.azure" -> a2
                      [] OTHER -> home]
DotEnvOf == [d \in Cwd |-> IF d = "d1" THEN ".azure" ELSE Unset]

\* In the first directory .env gives a path in it; in the second the variable is
\* that path or nothing.
Shells == (p :> {[cwd |-> "d1", env |-> "unset"]})
            @@ (q :> [cwd : {"d2"}, env : {"unset", "/d1/.azure"}])
AnyShell == [r \in Proc |-> [cwd : Cwd, env : Spelling]]

Connection(scopes, tenant, known) ==
    [scopes |-> scopes, tenant |-> tenant, known |-> known, needs |-> TRUE]
Of(tail) == [resource |-> "kusto", tail |-> tail]
Connections ==
    {Connection(Of(""), "x", TRUE), Connection(Of("/"), "y", TRUE),
     Connection(Of("/.default"), "x", FALSE), Connection(NoScopes, "x", TRUE)}

ProcSymmetry == Permutations(Proc)
=============================================================================
