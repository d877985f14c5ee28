------------------------------ MODULE HttpGate ------------------------------
(***************************************************************************)
(* From the command line to a tool call over HTTP: main parses the         *)
(* settings (CommandLine), run checks the security posture and binds, and  *)
(* every request passes the handlers that buildHTTPHandler stacked up      *)
(* (http.go) before the SDK reads its body and calls a tool.               *)
(*                                                                         *)
(* One connection is followed, whose requests come one after the other.    *)
(* The body of a request arrives over time: clock counts from the moment   *)
(* its handler wrapped it, and sock is the connection's read deadline on   *)
(* that clock.                                                             *)
(***************************************************************************)
EXTENDS CommandLine

CONSTANTS
    Settings,           \* the command lines and environments: [flags, env]
    ParseIP,            \* host -> "loopback4", "loopback6", "other4", "other6", None
    Tokens,             \* what clients send as a bearer token
    Origins,            \* what clients send as Origin
    BrowserHost(_),     \* how browsers write a host: punycode for an IDN
    BrowserPort(_),     \* how browsers write a port: without leading zeros
    BodyTimeout,        \* httpBodyReadTimeout, in ticks
    MaxBody,            \* maxHTTPBodyBytes, in units of a read
    MaxClock            \* bound: ticks from the wrapping to the end of a call

Stations == {"handlers", "sdk", "body", "reading", "tools", "answered"}

ASSUME GateAssumption ==
    /\ BodyTimeout \in Nat \ {0} /\ MaxBody \in Nat /\ MaxClock \in Nat
    /\ NoText \notin Tokens /\ None \notin Stations \cup {"timeout"}

\* A value for every flag and variable; no credential reads as a reason to
\* refuse a file.
ASSUME SettingsAssumption ==
    \A s \in Settings : /\ DOMAIN s.flags = FlagNames /\ EnvNames \subseteq DOMAIN s.env
                        /\ s.flags["parse-end"] \in {Unset, "help", "undefined"}
                        /\ Value(s.flags, "api-key-file") \in {NoText} \cup DOMAIN tokenFile
                        /\ Value(s.flags, "api-key") \notin RefusedFiles
                        /\ s.env["MCP_COMMANDS_API_KEY"] \notin RefusedFiles

\* What url.Parse and Port give for an origin.
URL(o) == o.host \in Seq(DOMAIN lower) /\ o.port \notin {"[", "]"}
ASSUME OriginsAssumption ==
    /\ \A o \in Origins : URL(o)
    /\ \A s \in Settings : \A o \in ToSet(Parts(OriginsRaw(s.flags, s.env))) : URL(o)

Methods == {"POST", "OPTIONS"}

VARIABLES
    flags, env,     \* the settings of this process
    phase,          \* how far main and run are
    parsed,         \* what parseCLI returned
    exit,           \* [status, why] once the process has ended
    request,        \* [method, origin, token] of the request at hand
    handlers,       \* the handlers it has still to pass
    station,        \* where it is: None between two requests
    echo,           \* the Access-Control-Allow-Origin set on its response
    answer,         \* its status code
    clock, sock,    \* see above; sock is None while no deadline is set
    got,            \* the units of its body read so far
    readErr         \* the error of its last read: None, "timeout" or "oversize"

settings == <<flags, env>>
process == <<phase, parsed, exit>>
body == <<clock, sock, got, readErr>>
conn == <<request, handlers, station, echo, answer, body>>
vars == <<settings, process, conn>>

Nobody == [method |-> None, origin |-> None, token |-> None]

\* Every variable has its type; no read goes past the size limit unnoticed.
TypeOK ==
    /\ DOMAIN flags = FlagNames
    /\ phase \in {"parse", "diagnostic", "stdio", "policy", "bind", "serving", "exited"}
    /\ exit = None \/ exit.status \in 0..2
    /\ request \in {Nobody} \cup [method : Methods, origin : Origins \cup {None},
                                  token : Tokens \cup {None}]
    /\ ToSet(handlers) \subseteq {"cors", "auth", "limit"}
    /\ station \in {None} \cup Stations
    /\ echo \in Origins \cup {None}
    /\ answer \in {None, 200, 204, 400, 401, 403, 405, 413}
    /\ clock \in 0..MaxClock
    /\ sock = None \/ sock \in 0..(MaxClock + BodyTimeout)
    /\ got \in 0..(MaxBody + 1)
    /\ readErr \in {None, "timeout", "oversize"}

Init ==
    /\ \E s \in Settings : flags = s.flags /\ env = s.env
    /\ phase = "parse" /\ parsed = None /\ exit = None
    /\ request = Nobody /\ handlers = <<>> /\ station = None
    /\ echo = None /\ answer = None
    /\ clock = 0 /\ sock = None /\ got = 0 /\ readErr = None

-----------------------------------------------------------------------------
(* The process. *)

Exit(status, why) == phase' = "exited" /\ exit' = [status |-> status, why |-> why]

ErrorStatus(error) == CASE error = "help" -> 0 [] error = "undefined" -> 2 [] OTHER -> 1

\* main: an error ends the process with its status, and the modes part.
Parse ==
    /\ phase = "parse"
    /\ parsed' = parseCLI(flags, env)
    /\ \/ parsed'.error # None /\ Exit(ErrorStatus(parsed'.error), parsed'.error)
       \/ parsed'.error = None /\ parsed'.mode = "version" /\ Exit(0, "version")
       \/ /\ parsed'.error = None /\ parsed'.mode \in {"call-tool", "list-tools"}
          /\ phase' = "diagnostic" /\ UNCHANGED exit
       \/ /\ parsed'.error = None /\ parsed'.mode = "server"
          /\ phase' = (IF parsed'.config.port > 0 THEN "policy" ELSE "stdio")
          /\ UNCHANGED exit
    /\ UNCHANGED <<settings, conn>>

cfg == parsed.config

isLoopbackHost(host) == host = "localhost" \/ ParseIP[host] \in {"loopback4", "loopback6"}

\* The posture that is refused; the warnings about others are left out.
checkHTTPSecurityPolicy(host, apiKey, acceptsRisk) ==
    apiKey # NoText \/ isLoopbackHost(host) \/ acceptsRisk

Policy ==
    /\ phase = "policy"
    /\ IF checkHTTPSecurityPolicy(cfg.host, cfg.apiKey, cfg.insecureNoAuth)
       THEN phase' = "bind" /\ UNCHANGED exit
       ELSE Exit(1, "policy")
    /\ UNCHANGED <<settings, parsed, conn>>

\* The address is host:port as it stands, and package net refuses one with a
\* colon too many.
Dialable(host) == ParseIP[host] \notin {"loopback6", "other6"}

\* ListenAndServe, with TLS or without: its error ends run.
Listen ==
    /\ phase = "bind" /\ Dialable(cfg.host)
    /\ phase' = "serving"
    /\ UNCHANGED <<settings, parsed, exit, conn>>

BindFails(why) ==
    /\ phase = "bind"
    /\ why = "address" <=> ~ Dialable(cfg.host)
    /\ Exit(1, why)
    /\ UNCHANGED <<settings, parsed, conn>>

Process == Parse \/ Policy \/ Listen \/ BindFails("address") \/ BindFails("taken")

-----------------------------------------------------------------------------
(* The handlers. *)

corsEnabled == cfg.origins # <<>> \/ cfg.allowAll

\* From the outermost to the innermost.
buildHTTPHandler ==
    (IF corsEnabled THEN <<"cors">> ELSE <<>>)
    \o (IF cfg.apiKey # NoText THEN <<"auth">> ELSE <<>>) \o <<"limit">>

RequestArrives ==
    /\ phase = "serving" /\ station = None
    /\ request' \in [method : Methods, origin : Origins \cup {None}, token : Tokens \cup {None}]
    /\ station' = "handlers" /\ handlers' = buildHTTPHandler
    /\ UNCHANGED <<settings, process, echo, answer, body>>

At(handler) == station = "handlers" /\ Head(handlers) = handler

PassOn == handlers' = Tail(handlers) /\ UNCHANGED <<station, answer>>

Answer(code) == station' = "answered" /\ answer' = code

originAllowed ==
    /\ request.origin # None
    /\ cfg.allowAll \/ canonicalOrigin(request.origin) \in originSet(cfg.origins)

\* An origin that is not allowed gets no CORS header and goes on as it is.
CORSPasses ==
    /\ At("cors") /\ ~ originAllowed
    /\ PassOn
    /\ UNCHANGED <<settings, process, request, echo, body>>

\* An allowed one is echoed, and a preflight is answered on the spot.
CORSAllows ==
    /\ At("cors") /\ originAllowed
    /\ echo' = request.origin
    /\ IF request.method = "OPTIONS" THEN Answer(204) /\ UNCHANGED handlers ELSE PassOn
    /\ UNCHANGED <<settings, process, request, body>>

\* A header that is missing, has another scheme or another form is no token.
BearerAuth ==
    /\ At("auth")
    /\ IF request.token = cfg.apiKey THEN PassOn ELSE Answer(401) /\ UNCHANGED handlers
    /\ UNCHANGED <<settings, process, request, echo, body>>

\* The innermost handler wraps the body: its time starts here.
LimitBody ==
    /\ At("limit")
    /\ station' = "sdk" /\ handlers' = Tail(handlers)
    /\ clock' = 0 /\ got' = 0 /\ readErr' = None
    /\ UNCHANGED <<settings, process, request, echo, answer, sock>>

\* The SDK refuses what is no POST, an Accept header it has no use for and, on
\* a loopback server that does not waive it, a foreign Host header, all of them
\* before it reads the body.
SDKRefuses(code) ==
    /\ station = "sdk"
    /\ code = 405 => request.method # "POST"
    /\ code = 403 => isLoopbackHost(cfg.host) /\ ~ cfg.disableLocalhostProtection
    /\ Answer(code)
    /\ UNCHANGED <<settings, process, request, handlers, echo, body>>

SDKAccepts ==
    /\ station = "sdk" /\ request.method = "POST"
    /\ station' = "body"
    /\ UNCHANGED <<settings, process, request, handlers, echo, answer, body>>

Handlers == RequestArrives \/ CORSPasses \/ CORSAllows \/ BearerAuth \/ LimitBody
            \/ SDKRefuses(400) \/ SDKRefuses(403) \/ SDKRefuses(405) \/ SDKAccepts

-----------------------------------------------------------------------------
(* The body: bodyReadDeadline.Read in the SDK's reading loop. *)

late == clock >= BodyTimeout

\* The SDK answers a read error with the status for it.
ReadFails(error, code) == readErr' = error /\ Answer(code)

\* Faulty variant: every read has the whole time again.
BeginReadAnew ==
    /\ station = "body"
    /\ IF late THEN ReadFails("timeout", 400) /\ UNCHANGED sock
       ELSE station' = "reading" /\ sock' = clock + BodyTimeout /\ UNCHANGED <<answer, readErr>>
    /\ UNCHANGED <<settings, process, request, handlers, echo, clock, got>>

\* Read: too late, or the socket gets the one deadline of the whole body.
BeginRead ==
    /\ station = "body"
    /\ IF late THEN ReadFails("timeout", 400) /\ UNCHANGED sock
       ELSE station' = "reading" /\ sock' = BodyTimeout /\ UNCHANGED <<answer, readErr>>
    /\ UNCHANGED <<settings, process, request, handlers, echo, clock, got>>

\* Some of the body is there; a unit above the limit is MaxBytesReader's error.
ReadSome ==
    /\ station = "reading"
    /\ got' = got + 1
    /\ IF got' > MaxBody THEN ReadFails("oversize", 413)
       ELSE station' = "body" /\ UNCHANGED <<answer, readErr>>
    /\ UNCHANGED <<settings, process, request, handlers, echo, clock, sock>>

\* The end of the body is an error too, and late it is the timeout's.  In time,
\* net/http starts to watch the connection and clears its read deadline.
ReadEOF ==
    /\ station = "reading"
    /\ IF late THEN ReadFails("timeout", 400) /\ UNCHANGED sock
       ELSE station' = "tools" /\ sock' = None /\ UNCHANGED <<answer, readErr>>
    /\ UNCHANGED <<settings, process, request, handlers, echo, clock, got>>

\* The deadline of the socket ends a read that waits.
ReadTimesOut ==
    /\ station = "reading" /\ sock # None /\ clock >= sock
    /\ ReadFails("timeout", 400)
    /\ UNCHANGED <<settings, process, request, handlers, echo, clock, sock, got>>

\* The tool may take as long as its own timeout lets it; a body that is complete
\* but is no message the SDK can decode gets a 400.
ToolsAnswer(code) ==
    /\ station = "tools"
    /\ Answer(code)
    /\ UNCHANGED <<settings, process, request, handlers, echo, body>>

\* Time passes, but a read does not outlast the socket's deadline.
Tick ==
    /\ station \in {"body", "reading", "tools"} /\ clock < MaxClock
    /\ station = "reading" /\ sock # None => clock < sock
    /\ clock' = clock + 1
    /\ UNCHANGED <<settings, process, request, handlers, station, echo, answer, sock, got,
                   readErr>>

\* net/http resets the deadline before it waits for the connection's next request.
NextRequest ==
    /\ station = "answered"
    /\ request' = Nobody /\ handlers' = <<>> /\ station' = None
    /\ echo' = None /\ answer' = None
    /\ clock' = 0 /\ sock' = None /\ got' = 0 /\ readErr' = None
    /\ UNCHANGED <<settings, process>>

Body == BeginRead \/ ReadSome \/ ReadEOF \/ ReadTimesOut
        \/ ToolsAnswer(200) \/ ToolsAnswer(400) \/ Tick \/ NextRequest

Elsewhere == phase \in {"exited", "diagnostic", "stdio"} /\ UNCHANGED vars

Next == Process \/ Handlers \/ Body \/ Elsewhere

Spec == Init /\ [][Next]_vars

-----------------------------------------------------------------------------
(* The references. *)

Without(names) == [name \in DOMAIN flags |-> IF name \in names THEN Unset ELSE flags[name]]
Unheard(variable, nothing) == [env EXCEPT ![variable] = nothing]

\* The parse but for the notice about ignored flags.
Outcome(f, e) == LET p == parseCLI(f, e)
                 IN [field \in DOMAIN p \ {"ignored"} |-> p[field]]

Diagnostic == Given(flags, "call-tool") \/ Value(flags, "list-tools")
IgnoredInDiagnostics ==
    serverModeFlagNames \cup (IF Given(flags, "call-tool") THEN {"watch"} ELSE {})

\* What a diagnostic mode ignores has no effect at all, not even as a startup
\* error, and is announced exactly when given; over stdio authentication and TLS
\* have no effect either, but that is not announced; and --allowed-origins,
\* --allow-all-origins and --log-level, also empty or false, hide the variables
\* they stand for (an empty --api-key does not hide its own; parseCLI's order of
\* checks, resolveCORS).
IgnoredMeansIgnored ==
    phase = "parse" =>
        /\ Diagnostic =>
             /\ Outcome(flags, env) =
                  Outcome(Without(IgnoredInDiagnostics),
                          [Unheard("MCP_COMMANDS_ALLOWED_ORIGINS", <<>>)
                             EXCEPT !["MCP_COMMANDS_ALLOW_ALL_ORIGINS"] = NoText,
                                    !["MCP_COMMANDS_API_KEY"] = NoText])
             /\ LET p == parseCLI(flags, env)
                IN p.error = None /\ p.mode # "version" =>
                     p.ignored = {name \in IgnoredInDiagnostics : Given(flags, name)}
        /\ Value(flags, "port") = 0 =>
             Outcome(flags, env) =
               Outcome(Without({"api-key", "api-key-file", "tls-cert", "tls-key"}),
                       Unheard("MCP_COMMANDS_API_KEY", NoText))
        /\ Given(flags, "allowed-origins") =>
             Outcome(flags, env) = Outcome(flags, Unheard("MCP_COMMANDS_ALLOWED_ORIGINS", <<>>))
        /\ Given(flags, "allow-all-origins") =>
             Outcome(flags, env) = Outcome(flags, Unheard("MCP_COMMANDS_ALLOW_ALL_ORIGINS", NoText))
        /\ Given(flags, "log-level") =>
             Outcome(flags, env) = Outcome(flags, Unheard("LOG_LEVEL", NoText))

\* The credentials of the settings, and the strongest that is set.
Credentials ==
    <<Value(flags, "api-key"),
      IF Value(flags, "api-key-file") = NoText THEN NoText
      ELSE tokenFile[Value(flags, "api-key-file")],
      env["MCP_COMMANDS_API_KEY"]>>

Strongest == LET i == SelectInSeq(Credentials, LAMBDA credential : credential # NoText)
             IN IF i = 0 THEN NoText ELSE Credentials[i]

\* A request gets to the tools only with the strongest credential the operator
\* set; a token file that cannot be used stops the server and never weakens
\* it.  Without any credential the server is on loopback or was told to take
\* the risk.
ToolsAreGuarded ==
    station \in {"sdk", "body", "reading", "tools"} =>
        /\ Strongest # NoText => Strongest \notin RefusedFiles /\ request.token = Strongest
        /\ Strongest = NoText =>
             \/ Value(flags, "host") = "localhost"
             \/ ParseIP[Value(flags, "host")] \in {"loopback4", "loopback6"}
             \/ Value(flags, "insecure-no-auth")

EffectivePort(o) == IF o.port = NoText THEN DefaultPort(o.scheme) ELSE o.port

\* Two URLs name one origin for a browser.
SameToBrowsers(o, p) ==
    /\ OriginShaped(o) /\ OriginShaped(p) /\ o.scheme = p.scheme
    /\ BrowserPort(EffectivePort(o)) = BrowserPort(EffectivePort(p))
    /\ BrowserHost(Lowered(o.host)) = BrowserHost(Lowered(p.host))

\* A URL with the host and the port as a browser writes them, up to case and a
\* default port.
BrowserSpelled(o) ==
    /\ BrowserPort(EffectivePort(o)) = EffectivePort(o)
    /\ BrowserHost(Lowered(o.host)) = Lowered(o.host)

Meant(o) == {p \in ToSet(cfg.origins) : SameToBrowsers(p, o)}

\* Only a page of an origin that the operator listed, as browsers compare
\* origins, may read a response, or any page if all are allowed; and a browser's
\* page of an origin that is listed as browsers write it may indeed read it, also
\* the response that refuses its token.  An entry in another spelling, Unicode or
\* a port with leading zeros, lets no browser's page in.  A preflight that is
\* allowed is answered without a token and gets nowhere near the tools.
OriginsAsBrowsersDo ==
    station \in {"sdk", "body", "reading", "tools", "answered"} =>
        /\ echo # None => /\ echo = request.origin
                          /\ cfg.allowAll \/ Meant(request.origin) # {}
        /\ request.origin # None /\ cfg.allowAll => echo # None
        /\ request.origin # None /\ ~ cfg.allowAll /\ BrowserSpelled(request.origin) =>
             (echo # None <=> \E o \in Meant(request.origin) : BrowserSpelled(o))
        /\ echo # None /\ request.method = "OPTIONS" => station = "answered" /\ answer = 204

\* However its bytes dribble in, no body keeps its handler waiting beyond the
\* one timeout, and no read is told that it timed out before that; a call is
\* made only with a body that was complete in time and in size, and is never cut
\* off by that deadline, however long it runs.
BodyIsBounded ==
    /\ station = "reading" => clock <= BodyTimeout
    /\ readErr = "timeout" => clock >= BodyTimeout
    /\ station = "tools" => readErr = None /\ got <= MaxBody /\ (sock = None \/ clock < sock)

-----------------------------------------------------------------------------
(* What a comment says of --host. *)

\* "IP address for HTTP server": the server can be bound to any address that
\* the security policy has accepted.
AddressesBind == exit # None => exit.why # "address"
==============================================================================
