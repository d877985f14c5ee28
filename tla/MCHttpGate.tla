----------------------------- MODULE MCHttpGate -----------------------------
(***************************************************************************)
(* Command lines for HttpGate: an HTTP server on loopback with up to two   *)
(* flags or variables changed, each to one of its telling values, and up   *)
(* to three of those that decide who may call.                             *)
(***************************************************************************)
EXTENDS HttpGate

Origin(scheme, host, port) ==
    [scheme |-> scheme, host |-> host, port |-> port, extra |-> FALSE]

\* https://app with its default port, http://[fe:1]:2 and http://[fe:1:2].
App == Origin("https", <<"app">>, "")
AppUpper == Origin("https", <<"APP">>, "443")
AppPlain == Origin("http", <<"app">>, "443")
Six == Origin("http", <<"fe", "1">>, "2")
SixLonger == Origin("http", <<"fe", "1", "2">>, "")
NullOrigin == [Origin("null", <<>>, "") EXCEPT !.extra = TRUE]
WithPath == [App EXCEPT !.extra = TRUE]

\* A Unicode host, the host that browsers send for it, and a port with a zero
\* too many.
Idn == Origin("https", <<"idn">>, "")
Puny == Origin("https", <<"xn--idn">>, "")
ZeroPort == Origin("https", <<"app">>, "0443")

MCOrigins == {App, AppPlain, Six, SixLonger, NullOrigin, Idn, Puny}
MCLower == [piece \in {"app", "APP", "fe", "1", "2", "idn", "xn--idn"} |->
              IF piece = "APP" THEN "app" ELSE piece]
MCBrowserHost(host) == IF host = <<"idn">> THEN <<"xn--idn">> ELSE host
MCBrowserPort(port) == IF port = "0443" THEN "443" ELSE port

MCTokenFile == [path \in {"key", "locked", "huge", "empty"} |->
    CASE path = "key" -> "file-token" [] path = "locked" -> "unreadable"
      [] path = "huge" -> "oversize" [] OTHER -> "blank"]
MCTokens == {"flag-token", "file-token", "env-token"}
MCDurations == [text \in {"30s", "NONE"} |-> IF text = "30s" THEN 30 ELSE 0]

MCParseIP == [host \in {"127.0.0.1", "localhost", "::1", "0.0.0.0", "box", ""} |->
    CASE host = "127.0.0.1" -> "loopback4" [] host = "::1" -> "loopback6"
      [] host = "0.0.0.0" -> "other4" [] OTHER -> None]

BaseFlags ==
    [name \in FlagNames |->
       CASE name = "dir" -> "work" [] name = "scripts" -> "tools" [] name = "port" -> 8080
         [] OTHER -> Unset]
BaseEnv ==
    ("MCP_COMMANDS_API_KEY" :> "") @@ ("MCP_COMMANDS_ALLOWED_ORIGINS" :> <<>>)
    @@ ("MCP_COMMANDS_ALLOW_ALL_ORIGINS" :> "") @@ ("LOG_LEVEL" :> "")

Of(name, values) == {[name |-> name, value |-> value] : value \in values}

FlagChanges ==
    Of("parse-end", {"help", "undefined"}) \cup Of("version", {TRUE})
    \cup Of("dir", {Unset}) \cup Of("list-tools", {TRUE}) \cup Of("call-tool", {"", "convert"})
    \cup Of("watch", {FALSE}) \cup Of("log-level", {"debug", "loud"})
    \cup Of("timeout", {"", "30s"}) \cup Of("no-timeout", {TRUE})
    \cup Of("host", {"::1", "0.0.0.0", "box", "localhost", ""}) \cup Of("port", {0, -1, 65536})
    \cup Of("api-key", {"", "flag-token"}) \cup Of("api-key-file", {"key", "locked", "empty"})
    \cup Of("tls-cert", {"cert", "gone"}) \cup Of("tls-key", {"key"})
    \cup Of("allowed-origins", {<<>>, <<AppUpper, Blank>>, <<Six, Puny>>, <<Idn, ZeroPort>>,
                               <<WithPath>>})
    \cup Of("allow-all-origins", {TRUE, FALSE})
    \cup Of("insecure-no-auth", {TRUE}) \cup Of("disable-localhost-protection", {TRUE})
    \cup Of("max-concurrent", {257})

EnvChanges ==
    Of("MCP_COMMANDS_API_KEY", {"env-token"})
    \cup Of("MCP_COMMANDS_ALLOWED_ORIGINS", {<<App>>})
    \cup Of("MCP_COMMANDS_ALLOW_ALL_ORIGINS", {"yes", "maybe"})
    \cup Of("LOG_LEVEL", {"loud"})

Changes == FlagChanges \cup EnvChanges
Postures == {c \in Changes : c.name \in {"host", "api-key", "api-key-file", "insecure-no-auth",
                                         "MCP_COMMANDS_API_KEY", "allowed-origins"}}

\* One change of each name takes effect.
Changed(base, changes) ==
    [name \in DOMAIN base |-> IF \E c \in changes : c.name = name
                              THEN (CHOOSE c \in changes : c.name = name).value
                              ELSE base[name]]

MCSettings ==
    {[flags |-> Changed(BaseFlags, changes \cap FlagChanges),
      env |-> Changed(BaseEnv, changes \cap EnvChanges)] :
        changes \in {{}} \cup {{c, d} : c, d \in Changes}
                     \cup {{c, d, e} : c, d, e \in Postures}}

MCTlsFiles == {"cert", "key"}
=============================================================================
