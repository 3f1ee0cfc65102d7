SPECIFICATION Spec
CONSTANTS
    p = p
    q = q
    Proc = {p, q}
    Cwd = {"d1", "d2"}
    Spelling = {"unset", ".azure", "/d1/.azure", "~/.azure"}
    Unset = "unset"
    a1 = a1
    a2 = a2
    home = home
    machine = machine
    Path <- Paths
    Absolute <- AbsoluteOf
    Login = {a1, a2, home, machine}
    LoginAt <- LoginOf
    Default = home
    Broker = machine
    DotEnv <- DotEnvOf
    Shell <- AnyShell
    NoConn = NoConn
    Conn <- Connections
    Tenant = {"x", "y"}
    NoScopes = NoScopes
    Source = {"cli"}
INVARIANT OneEntryPerLogin
