----------------------------- MODULE CommandLine -----------------------------
(***************************************************************************)
(* flags.go and the resolvers it calls in timeout.go and http.go: from the *)
(* flags and the environment to a configuration, or to the first error.    *)
(*                                                                         *)
(* A text is its value.  The content of a file is what reading its path    *)
(* gives.  --allowed-origins is the sequence of its comma-separated parts  *)
(* and each part is the URL it parses to (see canonicalOrigin).            *)
(***************************************************************************)
EXTENDS Integers, Sequences, SequencesExt, TLC

CONSTANTS
    Unset,              \* a flag that is not on the command line
    Blank,              \* a part of the list that is only white space
    None,               \* no error, no source, no header
    tokenFile,          \* path -> the trimmed content or a reason to refuse it
    tlsFiles,           \* the paths of readable, regular files
    durations,          \* the texts parseTimeoutDuration accepts -> seconds
    lower               \* a piece of a host name -> its lower-case form

NoText == ""

\* A blank file is refused, so no content is empty; a host has no brackets; an
\* error is one.
ASSUME TokenFileAssumption == \A path \in DOMAIN tokenFile : tokenFile[path] # NoText
ASSUME LowerAssumption == \A piece \in DOMAIN lower : lower[piece] \notin {"[", "]"}
ASSUME NoneAssumption == None \notin {"help", "undefined", "api-key-file"} /\ None \notin Nat

RefusedFiles == {"unreadable", "oversize", "blank"}

defaultMaxConcurrentTools == 16
maxConcurrentCap == 256
maxPort == 65535
defaultToolTimeout == 300

\* The flags that only a server looks at (the order in which the notice names
\* them is left out).
serverModeFlagNames ==
    {"host", "port", "api-key", "api-key-file", "tls-cert", "tls-key", "allowed-origins",
     "allow-all-origins", "disable-localhost-protection", "insecure-no-auth", "max-concurrent"}

BoolFlags == {"version", "list-tools", "watch", "no-timeout", "allow-all-origins",
              "disable-localhost-protection", "insecure-no-auth"}

\* "parse-end" is what makes the flag package end the parse, "help" that was
\* asked for or a flag that is "undefined" or malformed.
TextFlags == {"dir", "scripts", "call-tool", "timeout", "api-key", "api-key-file",
              "tls-cert", "tls-key", "parse-end"}

FlagNames == BoolFlags \cup TextFlags
             \cup {"allowed-origins", "host", "port", "log-level", "max-concurrent"}

EnvNames == {"MCP_COMMANDS_API_KEY", "MCP_COMMANDS_ALLOWED_ORIGINS",
             "MCP_COMMANDS_ALLOW_ALL_ORIGINS", "LOG_LEVEL"}

\* The values of the flags that are not given.
flagDefaults ==
    [name \in FlagNames |->
       CASE name \in BoolFlags -> FALSE [] name \in TextFlags -> NoText
         [] name = "allowed-origins" -> <<>> [] name = "host" -> "127.0.0.1"
         [] name = "port" -> 0 [] name = "log-level" -> "info"
         [] name = "max-concurrent" -> defaultMaxConcurrentTools]

Given(flags, name) == flags[name] # Unset
Value(flags, name) == IF Given(flags, name) THEN flags[name] ELSE flagDefaults[name]

\* A check is the error it gives, if any; of several the first one counts.
Unless(ok, why) == IF ok THEN None ELSE why

FirstError(checks) ==
    LET i == SelectInSeq(checks, LAMBDA error : error # None)
    IN IF i = 0 THEN None ELSE checks[i]

-----------------------------------------------------------------------------
(* Origins. *)

\* An origin is the URL a text parses to: [scheme, host, port, extra], the host
\* as the sequence of its pieces between the colons, the port "" where it has
\* none; extra is a path, a query, a fragment or a user.
OriginShaped(o) == o.scheme \in {"http", "https"} /\ o.host # <<>> /\ ~ o.extra

Lowered(host) == [i \in DOMAIN host |-> lower[host[i]]]
DefaultPort(scheme) == IF scheme = "http" THEN "80" ELSE "443"
Bracketed(host) == <<"[">> \o host \o <<"]">>

\* Faulty variant: the address loses its brackets.
canonicalOriginBare(o) ==
    IF ~ OriginShaped(o) THEN <<>>
    ELSE <<o.scheme>> \o Lowered(o.host)
         \o (IF o.port \in {NoText, DefaultPort(o.scheme)} THEN <<>> ELSE <<o.port>>)

\* The text a browser sends, as the sequence of its pieces (the separators
\* left out): lower case, no default port, and brackets around a host with a
\* colon, an IPv6 address; empty for what is no origin.
canonicalOrigin(o) ==
    IF ~ OriginShaped(o) THEN <<>>
    ELSE <<o.scheme>> \o (IF Len(o.host) > 1 THEN Bracketed(Lowered(o.host)) ELSE Lowered(o.host))
         \o (IF o.port \in {NoText, DefaultPort(o.scheme)} THEN <<>> ELSE <<o.port>>)

originSet(origins) == {canonicalOrigin(origins[i]) : i \in DOMAIN origins} \ {<<>>}

-----------------------------------------------------------------------------
(* The resolvers: each gives its value and its error. *)

\* The flag, even an empty one, hides the environment.
OriginsRaw(flags, env) ==
    IF Given(flags, "allowed-origins") THEN flags["allowed-origins"]
    ELSE env["MCP_COMMANDS_ALLOWED_ORIGINS"]

Parts(raw) == SelectSeq(raw, LAMBDA part : part # Blank)
HasText(raw) == Len(raw) > 1 \/ Parts(raw) # <<>>

Truths == {"1", "true", "yes"}

resolveCORS(flags, env) ==
    LET raw == OriginsRaw(flags, env)
        text == env["MCP_COMMANDS_ALLOW_ALL_ORIGINS"]
        fromEnv == ~ Given(flags, "allow-all-origins")
        allowAll == IF fromEnv THEN text \in Truths ELSE flags["allow-all-origins"]
    IN [origins |-> Parts(raw), allowAll |-> allowAll,
        disableLocalhostProtection |-> Value(flags, "disable-localhost-protection"),
        error |-> FirstError(<<
            Unless(fromEnv => text \in Truths \cup {NoText}, "boolean"),
            Unless(~ (HasText(raw) /\ allowAll), "contradiction"),
            Unless(\A i \in DOMAIN Parts(raw) : OriginShaped(Parts(raw)[i]), "origin") >>)]

\* Faulty variant: a blank file falls through to the environment.
resolveAPIKeyFalling(flags, env) ==
    LET key == Value(flags, "api-key")
        path == Value(flags, "api-key-file")
        token == env["MCP_COMMANDS_API_KEY"]
    IN IF key # NoText THEN [token |-> key, error |-> None]
       ELSE IF path # NoText /\ tokenFile[path] # "blank"
       THEN IF tokenFile[path] \in RefusedFiles THEN [token |-> NoText, error |-> "api-key-file"]
            ELSE [token |-> tokenFile[path], error |-> None]
       ELSE [token |-> token, error |-> None]

\* --api-key > --api-key-file > the environment; a file that is given is used
\* or refused, never passed over.
resolveAPIKey(flags, env) ==
    LET key == Value(flags, "api-key")
        path == Value(flags, "api-key-file")
        token == env["MCP_COMMANDS_API_KEY"]
    IN IF key # NoText THEN [token |-> key, error |-> None]
       ELSE IF path # NoText
       THEN IF tokenFile[path] \in RefusedFiles THEN [token |-> NoText, error |-> "api-key-file"]
            ELSE [token |-> tokenFile[path], error |-> None]
       ELSE [token |-> token, error |-> None]

resolveTimeout(flags) ==
    LET text == Value(flags, "timeout")
    IN IF Value(flags, "no-timeout")
       THEN [seconds |-> 0, error |-> IF Given(flags, "timeout") THEN "timeouts" ELSE None]
       ELSE IF ~ Given(flags, "timeout") THEN [seconds |-> defaultToolTimeout, error |-> None]
       ELSE IF text \in DOMAIN durations THEN [seconds |-> durations[text], error |-> None]
       ELSE [seconds |-> 0, error |-> "timeout"]

\* --log-level > LOG_LEVEL > info.
logLevelValue(flags, env) ==
    IF ~ Given(flags, "log-level") /\ env["LOG_LEVEL"] # NoText THEN env["LOG_LEVEL"]
    ELSE Value(flags, "log-level")

logLevels == {"trace", "debug", "info", "warn", "error"}

\* --call-tool counts even when its value is empty.
modeOf(flags) == IF Given(flags, "call-tool") THEN "call-tool"
                 ELSE IF Value(flags, "list-tools") THEN "list-tools" ELSE "server"

ignoredFlags(flags) ==
    {name \in serverModeFlagNames : Given(flags, name)}
    \cup (IF modeOf(flags) = "call-tool" /\ Given(flags, "watch") THEN {"watch"} ELSE {})

-----------------------------------------------------------------------------
(* parseCLI: the checks in their order; the first that fails is the error. *)

SharedChecks(flags, env) == <<
    Unless(Value(flags, "dir") # NoText /\ Value(flags, "scripts") # NoText, "required"),
    Unless(~ (Value(flags, "list-tools") /\ modeOf(flags) = "call-tool"), "modes"),
    Unless(logLevelValue(flags, env) \in logLevels, "log-level"),
    resolveTimeout(flags).error >>

ServerChecks(flags, env) == <<
    resolveCORS(flags, env).error,
    Unless(Value(flags, "port") \in 0..maxPort, "port"),
    Unless(Value(flags, "max-concurrent") \in 0..maxConcurrentCap, "max-concurrent") >>

checkTLSFile(path) == Unless(path = NoText \/ path \in tlsFiles, "tls-file")

HTTPChecks(flags, env) == <<
    resolveAPIKey(flags, env).error,
    Unless((Value(flags, "tls-cert") # NoText) = (Value(flags, "tls-key") # NoText), "tls-pair"),
    checkTLSFile(Value(flags, "tls-cert")),
    checkTLSFile(Value(flags, "tls-key")) >>

\* Faulty variant: the server's flags are validated in every mode.
ChecksEager(flags, env) ==
    SharedChecks(flags, env) \o ServerChecks(flags, env)
    \o (IF modeOf(flags) = "server" /\ Value(flags, "port") > 0
        THEN HTTPChecks(flags, env) ELSE <<>>)

\* The mode decides which settings are looked at: a diagnostic invocation is
\* not blocked by the server's, nor a stdio server by those of HTTP.
Checks(flags, env) ==
    SharedChecks(flags, env)
    \o (IF modeOf(flags) = "server" THEN ServerChecks(flags, env) ELSE <<>>)
    \o (IF modeOf(flags) = "server" /\ Value(flags, "port") > 0
        THEN HTTPChecks(flags, env) ELSE <<>>)

\* What main hands on, by mode.
diagnosticConfig(flags) ==
    [timeout |-> resolveTimeout(flags).seconds]
    @@ (IF modeOf(flags) = "call-tool" THEN [tool |-> flags["call-tool"]]
        ELSE [watch |-> Value(flags, "watch")])

serverConfig(flags, env) ==
    LET http == Value(flags, "port") > 0
        cors == resolveCORS(flags, env)
    IN [timeout |-> resolveTimeout(flags).seconds, watch |-> Value(flags, "watch"),
        host |-> Value(flags, "host"), port |-> Value(flags, "port"),
        maxConcurrent |-> Value(flags, "max-concurrent"),
        insecureNoAuth |-> Value(flags, "insecure-no-auth"),
        origins |-> cors.origins, allowAll |-> cors.allowAll,
        disableLocalhostProtection |-> cors.disableLocalhostProtection,
        apiKey |-> IF http THEN resolveAPIKey(flags, env).token ELSE NoText,
        tls |-> http /\ Value(flags, "tls-cert") # NoText]

\* What the flag package refuses comes first; --version needs nothing else and
\* skips every check.
parseCLI(flags, env) ==
    LET error == FirstError(Checks(flags, env))
        mode == modeOf(flags)
    IN IF Given(flags, "parse-end") THEN [error |-> flags["parse-end"]]
       ELSE IF Value(flags, "version") THEN [error |-> None, mode |-> "version"]
       ELSE IF error # None THEN [error |-> error]
       ELSE [error |-> None, mode |-> mode, logLevel |-> logLevelValue(flags, env),
             ignored |-> IF mode = "server" THEN {} ELSE ignoredFlags(flags),
             config |-> IF mode = "server" THEN serverConfig(flags, env)
                        ELSE diagnosticConfig(flags)]
==============================================================================
