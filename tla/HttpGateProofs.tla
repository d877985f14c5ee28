---------------------------- MODULE HttpGateProofs ----------------------------
(***************************************************************************)
(* HttpGate for all settings, files, tokens, origins and time limits: who  *)
(* gets to the tools, who may read the answer, how long a body may take,   *)
(* and what the settings that a mode ignores can do.                       *)
(***************************************************************************)
EXTENDS HttpGate, WellFoundedInduction, TLAPS

-----------------------------------------------------------------------------
(* The first element of a sequence that passes a test. *)

\* A set of indices that is not empty has a least one.
LEMMA LeastIndex ==
  ASSUME NEW S \in SUBSET Nat, S # {}
  PROVE  Min(S) \in S /\ \A y \in S : Min(S) <= y
<1>1. PICK x \in S : \A y \in S : ~ (<<y, x>> \in OpToRel(<, Nat))
  BY NatLessThanWellFounded, WFMin
<1>2. \A y \in S : x <= y
  <2> TAKE y \in S
  <2>1. x \in Nat /\ y \in Nat /\ <<y, x>> \in Nat \X Nat
    OBVIOUS
  <2>2. <<y, x>>[1] = y /\ <<y, x>>[2] = x
    OBVIOUS
  <2>3. ~ (<<y, x>>[1] < <<y, x>>[2])
    BY <1>1, <2>1 DEF OpToRel
  <2> QED
    BY <2>1, <2>2, <2>3
<1> QED
  BY <1>1, <1>2 DEF Min

\* Without a first error there is none.
LEMMA NoFirstError ==
  ASSUME NEW checks, Len(checks) \in Nat, FirstError(checks) = None,
         NEW i \in 1..Len(checks)
  PROVE  checks[i] = None
<1> DEFINE I == {j \in 1..Len(checks) : checks[j] # None}
<1>1. SUFFICES ASSUME checks[i] # None PROVE FALSE
  OBVIOUS
<1>2. I \in SUBSET Nat /\ I # {}
  BY <1>1
<1>3. Min(I) \in I
  BY <1>2, LeastIndex
<1> HIDE DEF I
<1>4. FirstError(checks) = checks[Min(I)]
  BY <1>2, <1>3 DEF FirstError, SelectInSeq, I
<1> QED
  BY <1>3, <1>4 DEF I

\* The strongest credential is the one resolveAPIKey takes.
LEMMA StrongestIsFirst ==
  Strongest = IF Credentials[1] # NoText THEN Credentials[1]
              ELSE IF Credentials[2] # NoText THEN Credentials[2]
              ELSE Credentials[3]
<1> DEFINE I == {j \in 1..Len(Credentials) : Credentials[j] # NoText}
<1>1. Len(Credentials) = 3
  BY DEF Credentials
<1>2. \A j : j \in I <=> j \in 1..3 /\ Credentials[j] # NoText
  BY <1>1
<1>3. Strongest = IF I # {} THEN IF Min(I) = 0 THEN NoText ELSE Credentials[Min(I)] ELSE NoText
  BY DEF Strongest, SelectInSeq
<1> HIDE DEF I
<1>4. I \subseteq 1..3
  BY <1>2
<1>5. \A j \in 1..3 : j \notin I => Credentials[j] = NoText
  BY <1>2
<1>6. \A j \in I : Credentials[j] # NoText
  BY <1>2
<1>7. ASSUME I # {} PROVE Min(I) \in I /\ \A j \in I : Min(I) <= j
  BY <1>4, <1>7, LeastIndex
<1>8. CASE 1 \in I
  <2>1. Min(I) \in 1..3 /\ Min(I) <= 1 /\ Min(I) \in I
    BY <1>4, <1>7, <1>8
  <2>2. Min(I) = 1
    BY <2>1, <1>8
  <2> QED
    BY <1>3, <1>6, <1>8, <2>2
<1>9. CASE 1 \notin I /\ 2 \in I
  <2>1. Min(I) \in 1..3 /\ Min(I) <= 2 /\ Min(I) \in I
    BY <1>4, <1>7, <1>9
  <2>2. Min(I) = 2
    BY <2>1, <1>9
  <2> QED
    BY <1>3, <1>5, <1>6, <1>9, <2>2
<1>10. CASE I = {3}
  <2>1. Min(I) = 3
    BY <1>7, <1>10
  <2> QED
    BY <1>3, <1>5, <1>10, <2>1
<1>11. CASE I = {}
  BY <1>3, <1>5, <1>11
<1>12. 1 \in I \/ 2 \in I \/ I = {3} \/ I = {}
  <2>1. ASSUME 1 \notin I, 2 \notin I PROVE \A j \in I : j = 3
    BY <2>1, <1>4
  <2> QED
    BY <2>1
<1> QED
  BY <1>8, <1>9, <1>10, <1>11, <1>12

-----------------------------------------------------------------------------
(* What parseCLI has seen to when a server binds. *)

\* The settings a command line can have.
SettingsInv ==
    /\ DOMAIN flags = FlagNames /\ EnvNames \subseteq DOMAIN env
    /\ flags["parse-end"] \in {Unset, "help", "undefined"}
    /\ Value(flags, "api-key-file") \in {NoText} \cup DOMAIN tokenFile
    /\ Value(flags, "api-key") \notin RefusedFiles
    /\ env["MCP_COMMANDS_API_KEY"] \notin RefusedFiles

Accepted ==
    /\ parsed = parseCLI(flags, env)
    /\ parsed.error = None /\ parsed.mode = "server" /\ parsed.config.port > 0

\* An accepted command line is one whose checks have all passed, and its
\* configuration is the server's.
LEMMA AcceptedChecks ==
  ASSUME SettingsInv, Accepted
  PROVE  /\ FirstError(Checks(flags, env)) = None
         /\ modeOf(flags) = "server"
         /\ cfg = serverConfig(flags, env) /\ Value(flags, "port") > 0
<1> USE NoneAssumption
<1>1. ~ Given(flags, "parse-end")
  <2>1. SUFFICES ASSUME Given(flags, "parse-end") PROVE FALSE
    OBVIOUS
  <2>2. flags["parse-end"] \in {"help", "undefined"}
    BY <2>1 DEF SettingsInv, Given
  <2>3. parsed.error = flags["parse-end"]
    BY <2>1 DEF Accepted, parseCLI
  <2> QED
    BY <2>2, <2>3 DEF Accepted
<1>2. ~ Value(flags, "version")
  BY <1>1 DEF Accepted, parseCLI
<1>3. FirstError(Checks(flags, env)) = None
  BY <1>1, <1>2 DEF Accepted, parseCLI
<1>4. modeOf(flags) = "server" /\ cfg = serverConfig(flags, env)
  BY <1>1, <1>2, <1>3 DEF Accepted, parseCLI, cfg
<1>5. cfg.port = Value(flags, "port")
  BY <1>4 DEF serverConfig
<1> QED
  BY <1>3, <1>4, <1>5 DEF Accepted, cfg

\* The checks of an HTTP server: four, three and four, the token's the eighth.
LEMMA EighthOfEleven ==
  ASSUME NEW a1, NEW a2, NEW a3, NEW a4, NEW b1, NEW b2, NEW b3, NEW c1, NEW c2, NEW c3, NEW c4
  PROVE  LET s == (<<a1, a2, a3, a4>> \o <<b1, b2, b3>>) \o <<c1, c2, c3, c4>>
         IN Len(s) = 11 /\ s[8] = c1
OBVIOUS

\* Its token is the strongest credential, and no refused file stands for one.
LEMMA TokenIsStrongest ==
  ASSUME SettingsInv, Accepted
  PROVE  cfg.apiKey = Strongest /\ (Strongest # NoText => Strongest \notin RefusedFiles)
<1> USE AcceptedChecks
<1>1. resolveAPIKey(flags, env).error = None
  <2>1. PICK a1, a2, a3, a4 : SharedChecks(flags, env) = <<a1, a2, a3, a4>>
    BY DEF SharedChecks
  <2> DEFINE b1 == resolveCORS(flags, env).error
             b2 == Unless(Value(flags, "port") \in 0..maxPort, "port")
             b3 == Unless(Value(flags, "max-concurrent") \in 0..maxConcurrentCap,
                          "max-concurrent")
  <2>2. ServerChecks(flags, env) = <<b1, b2, b3>>
    BY DEF ServerChecks
  <2> HIDE DEF b1, b2, b3
  <2>3. PICK c2, c3, c4 :
          HTTPChecks(flags, env) = <<resolveAPIKey(flags, env).error, c2, c3, c4>>
    BY DEF HTTPChecks
  <2>4. Checks(flags, env) = (SharedChecks(flags, env) \o ServerChecks(flags, env))
                             \o HTTPChecks(flags, env)
    BY DEF Checks
  <2>5. /\ Len(Checks(flags, env)) = 11
        /\ Checks(flags, env)[8] = resolveAPIKey(flags, env).error
    BY <2>1, <2>2, <2>3, <2>4, EighthOfEleven
  <2>6. Len(Checks(flags, env)) \in Nat /\ 8 \in 1..Len(Checks(flags, env))
    BY <2>5
  <2>7. Checks(flags, env)[8] = None
    BY <2>6, NoFirstError
  <2> QED
    BY <2>5, <2>7
<1>2. cfg.apiKey = resolveAPIKey(flags, env).token
  BY DEF serverConfig
<1> DEFINE key == Value(flags, "api-key")
           path == Value(flags, "api-key-file")
<1>3. CASE key # NoText
  BY <1>2, <1>3, StrongestIsFirst DEF resolveAPIKey, Credentials, SettingsInv
<1>4. CASE key = NoText /\ path # NoText
  <2>1. tokenFile[path] \notin RefusedFiles
    <3>1. SUFFICES ASSUME tokenFile[path] \in RefusedFiles PROVE FALSE
      OBVIOUS
    <3>2. resolveAPIKey(flags, env).error = "api-key-file"
      BY <1>4, <3>1 DEF resolveAPIKey
    <3> QED
      BY <1>1, <3>2, NoneAssumption
  <2>2. tokenFile[path] # NoText
    BY <1>4, TokenFileAssumption DEF SettingsInv
  <2> QED
    BY <1>2, <1>4, <2>1, <2>2, StrongestIsFirst DEF resolveAPIKey, Credentials
<1>5. CASE key = NoText /\ path = NoText
  BY <1>2, <1>5, StrongestIsFirst DEF resolveAPIKey, Credentials, SettingsInv
<1> QED
  BY <1>3, <1>4, <1>5

-----------------------------------------------------------------------------
(* The inductive invariant. *)

\* No server binds but with an accepted command line and posture.
ProcessInv ==
    /\ SettingsInv
    /\ phase \in {"policy", "bind", "serving"} => Accepted
    /\ phase \in {"bind", "serving"} =>
         checkHTTPSecurityPolicy(cfg.host, cfg.apiKey, cfg.insecureNoAuth)
    /\ station \in Stations => phase = "serving"

Entitled == cfg.apiKey = NoText \/ request.token = cfg.apiKey

\* What is left of the handlers: the last one limits the body, and none does
\* so before the authentication.
Guarded ==
    /\ handlers \in Seq({"cors", "auth", "limit"}) /\ Len(handlers) > 0
    /\ handlers[Len(handlers)] = "limit"
    /\ \A j \in 1..Len(handlers) :
         handlers[j] = "limit" => Entitled \/ \E i \in 1..(j - 1) : handlers[i] = "auth"

HandlersInv ==
    /\ station = "handlers" => Guarded
    /\ station \in {"sdk", "body", "reading", "tools"} => Entitled

\* The deadline stands while a read waits, and only then.
BodyInv ==
    /\ clock \in Nat /\ got \in Nat
    /\ station = "reading" => clock <= BodyTimeout /\ sock = BodyTimeout
    /\ station = "sdk" => got = 0
    /\ station \in {"body", "reading", "tools"} => got <= MaxBody
    /\ station = "tools" => sock = None
    /\ station \in {"sdk", "body", "reading", "tools"} => readErr = None
    /\ readErr = "timeout" => station = "answered" /\ clock >= BodyTimeout

IInv == ProcessInv /\ HandlersInv /\ BodyInv

\* Nothing has happened, and the settings are ones a command line can have.
LEMMA InitIInv == Init => IInv
<1> SUFFICES ASSUME Init PROVE IInv
  OBVIOUS
<1>1. SettingsInv
  BY SettingsAssumption DEF Init, SettingsInv
<1>2. station = None /\ None \notin Stations
  BY GateAssumption DEF Init
<1> QED
  BY <1>1, <1>2, GateAssumption, NoneAssumption DEF Init, IInv, ProcessInv, HandlersInv, BodyInv, Stations

-----------------------------------------------------------------------------
(* Every step preserves it. *)

\* Only run moves the phase, and it binds what it has checked.
LEMMA ProcessStep == ASSUME IInv, [Next]_vars PROVE ProcessInv'
<1> USE GateAssumption DEF IInv, ProcessInv, Stations, settings, process, body, conn
<1>1. CASE Parse
  BY <1>1 DEF Parse, Exit, SettingsInv, Accepted
<1>2. CASE Policy
  BY <1>2 DEF Policy, Exit, SettingsInv, Accepted, cfg
<1>3. CASE Listen \/ BindFails("address") \/ BindFails("taken")
  BY <1>3 DEF Listen, BindFails, Exit, SettingsInv, Accepted, cfg
<1>4. CASE Handlers \/ Body
  <2>1. UNCHANGED <<settings, process>> /\ phase = "serving"
    BY <1>4 DEF Handlers, Body, RequestArrives, CORSPasses, CORSAllows, BearerAuth, LimitBody,
                SDKRefuses, SDKAccepts, BeginRead, ReadSome, ReadEOF, ReadTimesOut, ToolsAnswer,
                Tick, NextRequest, At, ReadFails, Answer, PassOn
  <2> QED
    BY <2>1 DEF SettingsInv, Accepted, cfg
<1>5. CASE UNCHANGED vars
  BY <1>5 DEF vars, SettingsInv, Accepted, cfg
<1> QED
  BY <1>1, <1>2, <1>3, <1>4, <1>5 DEF Next, Process, Elsewhere

\* A request passes the handlers in their order.
LEMMA HandlersStep == ASSUME IInv, [Next]_vars PROVE HandlersInv'
<1> USE GateAssumption
    DEF IInv, ProcessInv, HandlersInv, Entitled, Stations, settings, process, body, conn
<1>1. CASE Process
  BY <1>1 DEF Process, Parse, Policy, Listen, BindFails
<1>2. CASE RequestArrives
  <2>1. /\ handlers' = buildHTTPHandler /\ station' = "handlers"
        /\ cfg' = cfg
    BY <1>2 DEF RequestArrives, cfg
  <2>2. CASE cfg.apiKey = NoText
    <3>1. Entitled'
      BY <2>1, <2>2
    <3>2. CASE handlers' = <<"cors">> \o <<>> \o <<"limit">>
      <4>1. /\ Len(handlers') = 2 /\ handlers'[2] = "limit"
            /\ handlers' \in Seq({"cors", "auth", "limit"})
        BY <3>2
      <4> QED
        BY <2>1, <3>1, <4>1 DEF Guarded
    <3>3. CASE handlers' = <<>> \o <<>> \o <<"limit">>
      <4>1. /\ Len(handlers') = 1 /\ handlers'[1] = "limit"
            /\ handlers' \in Seq({"cors", "auth", "limit"})
        BY <3>3
      <4> QED
        BY <2>1, <3>1, <4>1 DEF Guarded
    <3> QED
      BY <2>1, <2>2, <3>2, <3>3 DEF buildHTTPHandler
  <2>3. CASE cfg.apiKey # NoText
    <3>1. CASE handlers' = <<"cors">> \o <<"auth">> \o <<"limit">>
      <4>1. /\ Len(handlers') = 3 /\ handlers'[1] = "cors" /\ handlers'[2] = "auth"
            /\ handlers'[3] = "limit" /\ handlers' \in Seq({"cors", "auth", "limit"})
        BY <3>1
      <4> QED
        BY <2>1, <4>1 DEF Guarded
    <3>2. CASE handlers' = <<>> \o <<"auth">> \o <<"limit">>
      <4>1. /\ Len(handlers') = 2 /\ handlers'[1] = "auth" /\ handlers'[2] = "limit"
            /\ handlers' \in Seq({"cors", "auth", "limit"})
        BY <3>2
      <4> QED
        BY <2>1, <4>1 DEF Guarded
    <3> QED
      BY <2>1, <2>3, <3>1, <3>2 DEF buildHTTPHandler
  <2> QED
    BY <2>2, <2>3
<1>3. CASE CORSPasses \/ CORSAllows \/ BearerAuth \/ LimitBody
  <2>1. station = "handlers" /\ Guarded /\ Head(handlers) = handlers[1] /\ UNCHANGED <<cfg, request>>
    BY <1>3 DEF CORSPasses, CORSAllows, BearerAuth, LimitBody, At, Guarded, cfg
  <2>2. CASE LimitBody
    <3>1. Entitled
      BY <2>1, <2>2 DEF LimitBody, At, Guarded
    <3> QED
      BY <2>1, <2>2, <3>1 DEF LimitBody
  <2>3. CASE station' = "answered"
    BY <2>3
  <2>4. CASE PassOn
    <3>1. handlers[1] # "limit" /\ (handlers[1] = "auth" => Entitled)
      BY <1>3, <2>1, <2>4 DEF CORSPasses, CORSAllows, BearerAuth, LimitBody, At, PassOn, Answer
    <3>2. /\ handlers' = Tail(handlers) /\ station' = "handlers"
          /\ Entitled' <=> Entitled
      BY <2>1, <2>4 DEF PassOn
    <3>3. Len(handlers) > 1
      BY <2>1, <3>1 DEF Guarded
    <3>4. /\ handlers' \in Seq({"cors", "auth", "limit"})
          /\ Len(handlers') = Len(handlers) - 1
          /\ \A i \in 1..Len(handlers') : handlers'[i] = handlers[i + 1]
      BY <2>1, <3>2, <3>3 DEF Guarded
    <3>5. ASSUME NEW j \in 1..Len(handlers'), handlers'[j] = "limit", ~ Entitled
          PROVE  \E i \in 1..(j - 1) : handlers'[i] = "auth"
      <4>1. PICK i \in 1..j : handlers[i] = "auth"
        BY <2>1, <3>4, <3>5 DEF Guarded
      <4>2. i > 1
        BY <3>1, <3>5, <4>1
      <4>3. i - 1 \in 1..(j - 1) /\ handlers'[i - 1] = "auth"
        BY <3>4, <3>5, <4>1, <4>2
      <4> QED
        BY <4>3
    <3>6. Guarded'
      BY <2>1, <3>2, <3>3, <3>4, <3>5 DEF Guarded
    <3> QED
      BY <3>2, <3>6
  <2> QED
    BY <1>3, <2>2, <2>3, <2>4 DEF CORSPasses, CORSAllows, BearerAuth, Answer
<1>4. CASE SDKRefuses(400) \/ SDKRefuses(403) \/ SDKRefuses(405) \/ SDKAccepts
  BY <1>4 DEF SDKRefuses, SDKAccepts, Answer, cfg
<1>5. CASE Body
  BY <1>5 DEF Body, BeginRead, ReadSome, ReadEOF, ReadTimesOut, ToolsAnswer, Tick, NextRequest,
              ReadFails, Answer, cfg
<1>6. CASE UNCHANGED vars
  BY <1>6 DEF vars, cfg, Guarded
<1> QED
  BY <1>1, <1>2, <1>3, <1>4, <1>5, <1>6 DEF Next, Handlers, Elsewhere

\* Every read has the same deadline, and the clock stops with the answer.
LEMMA BodyStep == ASSUME IInv, [Next]_vars PROVE BodyInv'
<1> USE GateAssumption, NoneAssumption
    DEF IInv, ProcessInv, BodyInv, Stations, settings, process, body, conn
<1>1. CASE Process
  BY <1>1 DEF Process, Parse, Policy, Listen, BindFails
<1>2. CASE RequestArrives \/ CORSPasses \/ CORSAllows \/ BearerAuth
  BY <1>2 DEF RequestArrives, CORSPasses, CORSAllows, BearerAuth, At, PassOn, Answer
<1>3. CASE LimitBody
  BY <1>3 DEF LimitBody, At
<1>4. CASE SDKRefuses(400) \/ SDKRefuses(403) \/ SDKRefuses(405)
  BY <1>4 DEF SDKRefuses, Answer
<1>5. CASE SDKAccepts
  BY <1>5 DEF SDKAccepts
<1>6. CASE Body
  <2> USE DEF ReadFails, Answer, late
  <2>1. CASE BeginRead
    BY <2>1 DEF BeginRead
  <2>2. CASE ReadSome
    BY <2>2 DEF ReadSome
  <2>3. CASE ReadEOF
    BY <2>3 DEF ReadEOF
  <2>4. CASE ReadTimesOut
    BY <2>4 DEF ReadTimesOut
  <2>5. CASE ToolsAnswer(200) \/ ToolsAnswer(400)
    BY <2>5 DEF ToolsAnswer
  <2>6. CASE Tick
    BY <2>6 DEF Tick
  <2>7. CASE NextRequest
    BY <2>7 DEF NextRequest
  <2> QED
    BY <1>6, <2>1, <2>2, <2>3, <2>4, <2>5, <2>6, <2>7 DEF Body
<1>7. CASE UNCHANGED vars
  BY <1>7 DEF vars
<1> QED
  BY <1>1, <1>2, <1>3, <1>4, <1>5, <1>6, <1>7 DEF Next, Handlers, Elsewhere

\* The invariant holds in every state of the server.
LEMMA Inductive == Spec => []IInv
<1>1. IInv /\ [Next]_vars => IInv'
  BY ProcessStep, HandlersStep, BodyStep DEF IInv
<1> QED
  BY <1>1, InitIInv, PTL DEF Spec

-----------------------------------------------------------------------------
(* Origins: the text of canonicalOrigin determines scheme, host and port. *)

\* A text c with this scheme, these pieces of a host and, for k = 1, this port.
Spelled(c, scheme, host, port, k) ==
    /\ c[1] = scheme
    /\ Len(host) = 1 => Len(c) = 2 + k /\ c[2] = host[1]
    /\ Len(host) > 1 => /\ Len(c) = Len(host) + 3 + k /\ c[2] = "["
                        /\ \A i \in 1..Len(host) : c[i + 2] = host[i]
                        /\ c[Len(host) + 3] = "]"
    /\ k = 1 => c[Len(c)] = port

Reading(c, E, scheme, host, port, k) ==
    /\ host \in Seq(E) /\ host # <<>> /\ port # "]" /\ k \in {0, 1}
    /\ Spelled(c, scheme, host, port, k)

\* Two readings of one text are the same.
LEMMA SpellingIsUnique ==
  ASSUME NEW E, "[" \notin E,
         NEW c, NEW s1, NEW s2, NEW h1, NEW h2, NEW p1, NEW p2, NEW k1, NEW k2,
         Reading(c, E, s1, h1, p1, k1), Reading(c, E, s2, h2, p2, k2)
  PROVE  s1 = s2 /\ h1 = h2 /\ k1 = k2 /\ (k1 = 1 => p1 = p2)
<1> SUFFICES ASSUME h1 \in Seq(E), h2 \in Seq(E), k1 \in {0, 1}, k2 \in {0, 1},
                    p1 # "]", p2 # "]", h1 # <<>>, h2 # <<>>,
                    Spelled(c, s1, h1, p1, k1), Spelled(c, s2, h2, p2, k2)
             PROVE  s1 = s2 /\ h1 = h2 /\ k1 = k2 /\ (k1 = 1 => p1 = p2)
  BY DEF Reading
<1> DEFINE n1 == Len(h1)
           n2 == Len(h2)
<1>1. n1 \in Nat /\ n2 \in Nat /\ n1 >= 1 /\ n2 >= 1
  OBVIOUS
<1>2. /\ \A i \in 1..n1 : h1[i] \in E
      /\ \A i \in 1..n2 : h2[i] \in E
  OBVIOUS
<1>3. /\ c[1] = s1
      /\ n1 = 1 => Len(c) = 2 + k1 /\ c[2] = h1[1]
      /\ n1 > 1 => /\ Len(c) = n1 + 3 + k1 /\ c[2] = "["
                   /\ \A i \in 1..n1 : c[i + 2] = h1[i]
                   /\ c[n1 + 3] = "]"
      /\ k1 = 1 => c[Len(c)] = p1
  BY DEF Spelled
<1>4. /\ c[1] = s2
      /\ n2 = 1 => Len(c) = 2 + k2 /\ c[2] = h2[1]
      /\ n2 > 1 => /\ Len(c) = n2 + 3 + k2 /\ c[2] = "["
                   /\ \A i \in 1..n2 : c[i + 2] = h2[i]
                   /\ c[n2 + 3] = "]"
      /\ k2 = 1 => c[Len(c)] = p2
  BY DEF Spelled
<1>5. ASSUME n1 = n2, \A i \in 1..n1 : h1[i] = h2[i] PROVE h1 = h2
  BY <1>5
<1> HIDE DEF n1, n2
<1>6. CASE n1 = 1 /\ n2 = 1
  <2>1. k1 = k2 /\ h1[1] = h2[1]
    BY <1>3, <1>4, <1>6
  <2>2. h1 = h2
    BY <1>5, <1>6, <2>1
  <2> QED
    BY <1>3, <1>4, <2>1, <2>2
<1>7. CASE n1 = 1 /\ n2 > 1
  BY <1>1, <1>2, <1>3, <1>4, <1>7
<1>8. CASE n1 > 1 /\ n2 = 1
  BY <1>1, <1>2, <1>3, <1>4, <1>8
<1>9. CASE n1 > 1 /\ n2 > 1
  <2>1. n1 + k1 = n2 + k2
    BY <1>1, <1>3, <1>4, <1>9
  <2>2. CASE k1 = 0 /\ k2 = 1
    <3>1. Len(c) = n1 + 3
      BY <1>1, <1>3, <1>9, <2>2
    <3> QED
      BY <1>3, <1>4, <1>9, <2>2, <3>1
  <2>3. CASE k1 = 1 /\ k2 = 0
    <3>1. Len(c) = n2 + 3
      BY <1>1, <1>4, <1>9, <2>3
    <3> QED
      BY <1>3, <1>4, <1>9, <2>3, <3>1
  <2>4. CASE k1 = k2
    <3>1. n1 = n2
      BY <1>1, <2>1, <2>4
    <3>2. \A i \in 1..n1 : h1[i] = h2[i]
      BY <1>3, <1>4, <1>9, <3>1
    <3>3. h1 = h2
      BY <1>5, <3>1, <3>2
    <3> QED
      BY <1>3, <1>4, <2>4, <3>3
  <2> QED
    BY <2>2, <2>3, <2>4
<1> QED
  BY <1>1, <1>6, <1>7, <1>8, <1>9

\* The pieces a host can have.
LoweredPieces == {lower[piece] : piece \in DOMAIN lower}
PortPieces(o) == IF o.port \in {NoText, DefaultPort(o.scheme)} THEN 0 ELSE 1

\* A sequence of one piece between two others.
LEMMA OnePiece == ASSUME NEW E, NEW h \in Seq(E), Len(h) = 1 PROVE h[1] \in E /\ h = <<h[1]>>
OBVIOUS

\* A spelling of two pieces.
LEMMA TwoPieces ==
  ASSUME NEW X, NEW a \in X, NEW b \in X
  PROVE  LET c == (<<a>> \o <<b>>) \o <<>>
         IN Len(c) = 2 /\ c[1] = a /\ c[2] = b /\ c # <<>>
OBVIOUS

\* A spelling of three pieces.
LEMMA ThreePieces ==
  ASSUME NEW X, NEW a \in X, NEW b \in X, NEW d \in X
  PROVE  LET c == (<<a>> \o <<b>>) \o <<d>>
         IN Len(c) = 3 /\ c[1] = a /\ c[2] = b /\ c[3] = d /\ c # <<>>
OBVIOUS

\* What is put together is spelled.
LEMMA PutTogether ==
  ASSUME NEW E, NEW s, NEW h \in Seq(E), h # <<>>, NEW tail, NEW port, NEW k \in {0, 1},
         tail = IF k = 0 THEN <<>> ELSE <<port>>
  PROVE  LET c == (<<s>> \o (IF Len(h) > 1 THEN (<<"[">> \o h) \o <<"]">> ELSE h)) \o tail
         IN Spelled(c, s, h, port, k) /\ c # <<>>
<1> DEFINE n == Len(h)
           b == (<<"[">> \o h) \o <<"]">>
<1>1. n \in Nat /\ n >= 1
  OBVIOUS
<1>2. CASE n = 1
  <2> DEFINE x == h[1]
             c == (<<s>> \o <<x>>) \o tail
  <2>1. h = <<x>> /\ ~ (Len(h) > 1)
    BY <1>2, OnePiece
  <2>2. /\ k = 0 => Len(c) = 2 /\ c[1] = s /\ c[2] = x /\ c # <<>>
        /\ k = 1 => Len(c) = 3 /\ c[1] = s /\ c[2] = x /\ c[3] = port /\ c # <<>>
    <3> HIDE DEF x
    <3>1. s \in {s, x, port} /\ x \in {s, x, port} /\ port \in {s, x, port}
      OBVIOUS
    <3>2. CASE k = 0
      BY <3>1, <3>2, TwoPieces
    <3>3. CASE k = 1
      BY <3>1, <3>3, ThreePieces
    <3> QED
      BY <3>2, <3>3
  <2> HIDE DEF c
  <2>3. Spelled(c, s, h, port, k) /\ c # <<>>
    <3>1. k = 0 => Len(c) = 2 + k /\ c[1] = s /\ c[2] = h[1] /\ c # <<>>
      BY <2>2
    <3>2. k = 1 => Len(c) = 2 + k /\ c[1] = s /\ c[2] = h[1] /\ c[Len(c)] = port /\ c # <<>>
      <4>1. k = 1 => 2 + k = 3
        OBVIOUS
      <4> QED
        BY <2>2, <4>1, Zenon
    <3>3. Len(h) = 1 /\ ~ (1 > 1) /\ 0 # 1
      BY <1>2
    <3> HIDE DEF n, b
    <3>4. k = 0 \/ k = 1
      OBVIOUS
    <3> QED
      BY <3>1, <3>2, <3>3, <3>4, Zenon DEF Spelled
  <2>4. (IF Len(h) > 1 THEN (<<"[">> \o h) \o <<"]">> ELSE h) = <<x>>
    BY <2>1
  <2> HIDE DEF x
  <2> QED
    BY <2>3, <2>4, Zenon DEF c
<1>3. CASE n > 1
  <2>1. /\ b \in Seq(E \cup {"[", "]"}) /\ Len(b) = n + 2 /\ b[1] = "["
        /\ (\A i \in 1..n : b[i + 1] = h[i]) /\ b[n + 2] = "]"
    <3>1. <<"[">> \o h \in Seq(E \cup {"[", "]"})
      OBVIOUS
    <3>2. /\ Len(<<"[">> \o h) = n + 1 /\ (<<"[">> \o h)[1] = "["
          /\ \A i \in 1..n : (<<"[">> \o h)[i + 1] = h[i]
      OBVIOUS
    <3> DEFINE d == <<"[">> \o h
    <3> HIDE DEF d, n
    <3>3. /\ d \o <<"]">> \in Seq(E \cup {"[", "]"}) /\ Len(d \o <<"]">>) = n + 2
          /\ (d \o <<"]">>)[n + 2] = "]"
          /\ \A i \in 1..(n + 1) : (d \o <<"]">>)[i] = d[i]
      BY <1>1, <3>1, <3>2 DEF d
    <3>4. 1 \in 1..(n + 1) /\ \A i \in 1..n : i + 1 \in 1..(n + 1)
      BY <1>1
    <3> QED
      BY <3>2, <3>3, <3>4 DEF d
  <2> HIDE DEF b, n
  <2> DEFINE f == <<s>> \o b
             c == f \o tail
  <2>2. /\ f \in Seq(E \cup {"[", "]", s}) /\ Len(f) = n + 3 /\ f[1] = s
        /\ \A i \in 1..(n + 2) : f[i + 1] = b[i]
    <3>1. b \in Seq(E \cup {"[", "]", s}) /\ s \in E \cup {"[", "]", s}
      BY <2>1
    <3> QED
      BY <1>1, <2>1, <3>1
  <2>3. /\ f[2] = "[" /\ (\A i \in 1..n : f[i + 2] = h[i]) /\ f[n + 3] = "]"
    <3>1. 1 \in 1..(n + 2) /\ n + 2 \in 1..(n + 2)
          /\ \A i \in 1..n : i + 1 \in 1..(n + 2) /\ (i + 1) + 1 = i + 2
      BY <1>1
    <3>2. (n + 2) + 1 = n + 3 /\ 1 + 1 = 2
      BY <1>1
    <3>3. f[2] = b[1] /\ f[n + 3] = b[n + 2]
      BY <2>2, <3>1, <3>2
    <3>4. \A i \in 1..n : f[i + 2] = b[i + 1]
      BY <2>2, <3>1
    <3> QED
      BY <2>1, <3>3, <3>4
  <2> HIDE DEF f
  <2>4. CASE k = 0
    <3>1. tail = <<>>
      BY <2>4
    <3>2. c = f
      BY <2>2, <3>1
    <3>3. Spelled(f, s, h, port, k)
      BY <1>1, <1>3, <2>2, <2>3, <2>4 DEF Spelled, n
    <3>4. f # <<>>
      BY <1>1, <2>2
    <3> QED
      BY <1>3, <3>2, <3>3, <3>4 DEF f, b, n
  <2>5. CASE k = 1
    <3>1. tail = <<port>>
      BY <2>5
    <3>2. /\ Len(c) = n + 4 /\ c[n + 4] = port
          /\ \A i \in 1..(n + 3) : c[i] = f[i]
      <4>1. f \in Seq(E \cup {"[", "]", s, port})
        BY <2>2
      <4>2. c = f \o <<port>> /\ Len(f) = n + 3 /\ n \in Nat
        BY <1>1, <2>2, <3>1
      <4> QED
        BY <4>1, <4>2
    <3>3. 1 \in 1..(n + 3) /\ 2 \in 1..(n + 3) /\ n + 3 \in 1..(n + 3)
          /\ \A i \in 1..n : i + 2 \in 1..(n + 3)
      BY <1>1
    <3>4. c[1] = s /\ c[2] = "[" /\ (\A i \in 1..n : c[i + 2] = h[i]) /\ c[n + 3] = "]"
      BY <2>2, <2>3, <3>2, <3>3
    <3> HIDE DEF c
    <3>5. Spelled(c, s, h, port, k)
      BY <1>1, <1>3, <2>5, <3>2, <3>4 DEF Spelled, n
    <3>6. c # <<>>
      BY <1>1, <3>2
    <3> QED
      BY <1>3, <3>5, <3>6 DEF c, f, b, n
  <2> QED
    BY <2>4, <2>5
<1> QED
  BY <1>1, <1>2, <1>3

\* Two URLs name one origin as the server compares them, the texts of host and
\* port taken as they stand.
SameOrigin(o, p) ==
    /\ OriginShaped(o) /\ OriginShaped(p)
    /\ o.scheme = p.scheme /\ EffectivePort(o) = EffectivePort(p)
    /\ Lowered(o.host) = Lowered(p.host)

Listed(o) == \E i \in DOMAIN cfg.origins : SameOrigin(cfg.origins[i], o)

\* With one scheme, two ports are the same exactly if canonicalOrigin writes the
\* same.
LEMMA PortsCompare ==
  ASSUME NEW o, NEW p, o.scheme = p.scheme
  PROVE  EffectivePort(o) = EffectivePort(p)
         <=> PortPieces(o) = PortPieces(p) /\ (PortPieces(o) = 1 => o.port = p.port)
<1> DEFINE default == DefaultPort(o.scheme)
<1>1. DefaultPort(p.scheme) = default
  OBVIOUS
<1>2. /\ EffectivePort(o) = IF o.port = NoText THEN default ELSE o.port
      /\ EffectivePort(p) = IF p.port = NoText THEN default ELSE p.port
  BY <1>1 DEF EffectivePort
<1>3. /\ PortPieces(o) = IF o.port \in {NoText, default} THEN 0 ELSE 1
      /\ PortPieces(p) = IF p.port \in {NoText, default} THEN 0 ELSE 1
  BY <1>1 DEF PortPieces
<1> HIDE DEF default
<1> QED
  BY <1>2, <1>3

\* The pieces of a host in lower case.
LEMMA LoweredHost ==
  ASSUME NEW host \in Seq(DOMAIN lower)
  PROVE  Lowered(host) \in Seq(LoweredPieces) /\ Len(Lowered(host)) = Len(host)
<1>1. DOMAIN host = 1..Len(host) /\ Len(host) \in Nat
  OBVIOUS
<1>2. \A i \in 1..Len(host) : lower[host[i]] \in LoweredPieces
  BY DEF LoweredPieces
<1> QED
  BY <1>1, <1>2 DEF Lowered

\* The text of an origin has its scheme, its host and its port where it is not
\* the default one.
LEMMA OriginSpelled ==
  ASSUME NEW o, URL(o), OriginShaped(o)
  PROVE  /\ Reading(canonicalOrigin(o), LoweredPieces, o.scheme, Lowered(o.host), o.port,
                    PortPieces(o))
         /\ canonicalOrigin(o) # <<>>
<1> DEFINE h == Lowered(o.host)
           k == PortPieces(o)
           tail == IF k = 0 THEN <<>> ELSE <<o.port>>
           c == (<<o.scheme>> \o (IF Len(h) > 1 THEN (<<"[">> \o h) \o <<"]">> ELSE h)) \o tail
<1>1. o.host \in Seq(DOMAIN lower) /\ o.host # <<>>
  BY DEF URL, OriginShaped
<1>2. h \in Seq(LoweredPieces) /\ Len(h) = Len(o.host)
  BY <1>1, LoweredHost
<1>3. h # <<>>
  <2> HIDE DEF h
  <2>1. Len(o.host) # 0
    BY <1>1
  <2> QED
    BY <1>2, <2>1
<1>4. k \in {0, 1}
  BY DEF PortPieces
<1>5. canonicalOrigin(o) = c
  <2>1. (IF o.port \in {NoText, DefaultPort(o.scheme)} THEN <<>> ELSE <<o.port>>) = tail
    BY DEF PortPieces
  <2> HIDE DEF tail, h
  <2> QED
    BY <1>2, <2>1 DEF canonicalOrigin, Bracketed, h
<1> HIDE DEF h, k
<1>6. Spelled(c, o.scheme, h, o.port, k) /\ c # <<>>
  BY <1>2, <1>3, <1>4, PutTogether
<1> QED
  BY <1>2, <1>3, <1>4, <1>5, <1>6 DEF Reading, URL, h, k

\* Two origins have one text exactly if they are the same.
LEMMA CanonicalOrigins ==
  ASSUME NEW o, NEW p, URL(o), URL(p)
  PROVE  canonicalOrigin(o) # <<>> /\ canonicalOrigin(o) = canonicalOrigin(p)
         <=> SameOrigin(o, p)
<1>1. CASE ~ OriginShaped(o)
  BY <1>1 DEF canonicalOrigin, SameOrigin
<1>2. CASE ~ OriginShaped(p)
  BY <1>2 DEF canonicalOrigin, SameOrigin
<1>3. CASE OriginShaped(o) /\ OriginShaped(p)
  <2>1. ASSUME canonicalOrigin(o) = canonicalOrigin(p)
        PROVE  SameOrigin(o, p)
    <3>1. "[" \notin LoweredPieces
      BY LowerAssumption DEF LoweredPieces
    <3>2. /\ o.scheme = p.scheme /\ Lowered(o.host) = Lowered(p.host)
          /\ PortPieces(o) = PortPieces(p) /\ (PortPieces(o) = 1 => o.port = p.port)
      BY <1>3, <2>1, <3>1, OriginSpelled, SpellingIsUnique
    <3> QED
      BY <1>3, <3>2, PortsCompare DEF SameOrigin
  <2>2. ASSUME SameOrigin(o, p)
        PROVE  canonicalOrigin(o) = canonicalOrigin(p)
    <3>1. /\ o.scheme = p.scheme /\ Lowered(o.host) = Lowered(p.host)
          /\ EffectivePort(o) = EffectivePort(p)
      BY <2>2 DEF SameOrigin
    <3>2. PortPieces(o) = PortPieces(p) /\ (PortPieces(o) = 1 => o.port = p.port)
      BY <3>1, PortsCompare
    <3>3. Len(o.host) = Len(p.host)
      BY <3>1, LoweredHost DEF URL
    <3>4. (IF o.port \in {NoText, DefaultPort(o.scheme)} THEN <<>> ELSE <<o.port>>)
          = (IF p.port \in {NoText, DefaultPort(p.scheme)} THEN <<>> ELSE <<p.port>>)
      BY <3>2 DEF PortPieces
    <3> QED
      BY <1>3, <3>1, <3>3, <3>4, Zenon DEF canonicalOrigin
  <2> QED
    BY <1>3, <2>1, <2>2, OriginSpelled
<1> QED
  BY <1>1, <1>2, <1>3

-----------------------------------------------------------------------------
(* What a response tells the page that asked. *)

Welcome == request.origin # None /\ (cfg.allowAll \/ Listed(request.origin))
Preflight == Welcome /\ request.method = "OPTIONS"
Echoed == echo = IF Welcome THEN request.origin ELSE None

ListedURLs == \A o \in ToSet(Parts(OriginsRaw(flags, env))) : URL(o)

\* Either the CORS handler is the next one or it has done what it does; without
\* one no origin is welcome.
OriginsInv ==
    /\ ListedURLs
    /\ station \in Stations => request.origin \in Origins \cup {None}
    /\ station = None => echo = None
    /\ station = "handlers" =>
         \/ corsEnabled /\ handlers = buildHTTPHandler /\ echo = None
         \/ Echoed /\ ~ Preflight /\ \A i \in 1..Len(handlers) : handlers[i] # "cors"
    /\ station \in {"sdk", "body", "reading", "tools"} => Echoed /\ ~ Preflight
    /\ station = "answered" => Echoed /\ (Preflight => answer = 204)

\* What is the same to the server is the same to a browser, and of two origins
\* as browsers write them the reverse holds too.
LEMMA BrowsersCompare ==
  ASSUME NEW o, NEW p
  PROVE  /\ SameOrigin(o, p) => /\ SameToBrowsers(o, p)
                                /\ BrowserSpelled(p) => BrowserSpelled(o)
         /\ SameToBrowsers(o, p) /\ BrowserSpelled(o) /\ BrowserSpelled(p) => SameOrigin(o, p)
BY DEF SameOrigin, SameToBrowsers, BrowserSpelled

\* Who is welcome is whom the operator meant, for a browser's page exactly.
LEMMA WelcomeIsMeant ==
  ASSUME request.origin # None, ~ cfg.allowAll
  PROVE  /\ Welcome => Meant(request.origin) # {}
         /\ BrowserSpelled(request.origin) =>
              (Welcome <=> \E o \in Meant(request.origin) : BrowserSpelled(o))
<1>1. \A o : o \in Meant(request.origin)
             <=> \E i \in DOMAIN cfg.origins : /\ o = cfg.origins[i]
                                               /\ SameToBrowsers(o, request.origin)
  BY DEF Meant, ToSet
<1>2. Welcome <=> \E i \in DOMAIN cfg.origins : SameOrigin(cfg.origins[i], request.origin)
  BY DEF Welcome, Listed
<1> QED
  BY <1>1, <1>2, BrowsersCompare

\* The server allows exactly the origins that are welcome.
LEMMA AllowedIsWelcome ==
  ASSUME IInv, OriginsInv, station = "handlers"
  PROVE  originAllowed <=> Welcome
<1>1. SettingsInv /\ Accepted
  BY DEF IInv, ProcessInv, Stations
<1>2. cfg.origins = Parts(OriginsRaw(flags, env))
  BY <1>1, AcceptedChecks DEF serverConfig, resolveCORS
<1>3. CASE request.origin = None
  BY <1>3 DEF originAllowed, Welcome
<1>4. CASE request.origin # None
  <2>1. URL(request.origin)
    BY <1>4, OriginsAssumption DEF OriginsInv, Stations
  <2>2. \A i \in DOMAIN cfg.origins : URL(cfg.origins[i])
    BY <1>2 DEF OriginsInv, ListedURLs, ToSet
  <2>3. \A i \in DOMAIN cfg.origins :
          /\ canonicalOrigin(cfg.origins[i]) # <<>>
          /\ canonicalOrigin(cfg.origins[i]) = canonicalOrigin(request.origin)
          <=> SameOrigin(cfg.origins[i], request.origin)
    BY <2>1, <2>2, CanonicalOrigins
  <2>4. canonicalOrigin(request.origin) \in originSet(cfg.origins) <=> Listed(request.origin)
    <3>1. canonicalOrigin(request.origin) \in originSet(cfg.origins)
          <=> \E i \in DOMAIN cfg.origins :
                /\ canonicalOrigin(cfg.origins[i]) # <<>>
                /\ canonicalOrigin(cfg.origins[i]) = canonicalOrigin(request.origin)
      BY DEF originSet
    <3> QED
      BY <2>3, <3>1, Zenon DEF Listed
  <2> QED
    BY <1>4, <2>4 DEF originAllowed, Welcome
<1> QED
  BY <1>3, <1>4

\* The CORS handler is the outermost one, and there is one.
LEMMA OutermostCORS ==
  ASSUME corsEnabled
  PROVE  /\ Len(buildHTTPHandler) \in Nat /\ buildHTTPHandler[1] = "cors"
         /\ \A i \in 2..Len(buildHTTPHandler) : buildHTTPHandler[i] # "cors"
<1>1. CASE buildHTTPHandler = <<"cors">> \o <<"auth">> \o <<"limit">>
  <2>1. /\ Len(buildHTTPHandler) = 3 /\ buildHTTPHandler[1] = "cors"
        /\ buildHTTPHandler[2] = "auth" /\ buildHTTPHandler[3] = "limit"
    BY <1>1
  <2> QED
    BY <2>1
<1>2. CASE buildHTTPHandler = <<"cors">> \o <<>> \o <<"limit">>
  <2>1. /\ Len(buildHTTPHandler) = 2 /\ buildHTTPHandler[1] = "cors"
        /\ buildHTTPHandler[2] = "limit"
    BY <1>2
  <2> QED
    BY <2>1
<1> QED
  BY <1>1, <1>2 DEF buildHTTPHandler

\* Every step preserves it.
LEMMA OriginsStep == ASSUME IInv, OriginsInv, [Next]_vars PROVE OriginsInv'
<1> USE GateAssumption DEF Stations, settings, process, body, conn
<1>1. ListedURLs' /\ (station \in Stations => phase = "serving")
  <2>1. UNCHANGED <<flags, env>>
    BY DEF Next, Process, Handlers, Body, Elsewhere, Parse, Policy, Listen, BindFails,
           RequestArrives, CORSPasses, CORSAllows, BearerAuth, LimitBody, SDKRefuses, SDKAccepts,
           BeginRead, ReadSome, ReadEOF, ReadTimesOut, ToolsAnswer, Tick, NextRequest, vars
  <2> QED
    BY <2>1 DEF OriginsInv, ListedURLs, IInv, ProcessInv
<1>2. CASE Process
  BY <1>1, <1>2 DEF Process, Parse, Policy, Listen, BindFails, OriginsInv
<1>3. CASE RequestArrives
  <2>1. /\ cfg' = cfg /\ station' = "handlers" /\ handlers' = buildHTTPHandler
        /\ echo' = echo /\ echo = None
        /\ request'.origin \in Origins \cup {None}
    BY <1>3 DEF RequestArrives, cfg, OriginsInv
  <2>2. CASE corsEnabled
    <3>1. corsEnabled' /\ buildHTTPHandler' = buildHTTPHandler
      BY <2>1, <2>2 DEF corsEnabled, buildHTTPHandler
    <3> QED
      BY <1>1, <2>1, <3>1 DEF OriginsInv
  <2>3. CASE ~ corsEnabled
    <3>1. ~ Welcome'
      BY <2>1, <2>3 DEF Welcome, Listed, corsEnabled
    <3>2. \A i \in 1..Len(handlers') : handlers'[i] # "cors"
      <4>1. \/ handlers' = <<>> \o <<"auth">> \o <<"limit">>
            \/ handlers' = <<>> \o <<>> \o <<"limit">>
        BY <2>1, <2>3 DEF buildHTTPHandler
      <4>2. CASE handlers' = <<>> \o <<"auth">> \o <<"limit">>
        <5>1. Len(handlers') = 2 /\ handlers'[1] = "auth" /\ handlers'[2] = "limit"
          BY <4>2
        <5> QED
          BY <5>1
      <4>3. CASE handlers' = <<>> \o <<>> \o <<"limit">>
        <5>1. Len(handlers') = 1 /\ handlers'[1] = "limit"
          BY <4>3
        <5> QED
          BY <5>1
      <4> QED
        BY <4>1, <4>2, <4>3
    <3> QED
      BY <1>1, <2>1, <3>1, <3>2 DEF OriginsInv, Echoed, Preflight
  <2> QED
    BY <2>2, <2>3
<1>4. CASE CORSPasses \/ CORSAllows \/ BearerAuth \/ LimitBody
  <2>1. /\ station = "handlers" /\ Guarded /\ Head(handlers) = handlers[1]
        /\ cfg' = cfg /\ request' = request
    BY <1>4 DEF CORSPasses, CORSAllows, BearerAuth, LimitBody, At, Guarded, cfg,
                IInv, HandlersInv
  <2>2. (Welcome' <=> Welcome) /\ (Preflight' <=> Preflight)
    BY <2>1 DEF Welcome, Preflight, Listed
  <2>3. originAllowed <=> Welcome
    BY <2>1, AllowedIsWelcome
  <2> DEFINE past == \A i \in 1..Len(handlers) : handlers[i] # "cors"
  <2>4. Len(handlers) \in Nat /\ Len(handlers) > 0
    BY <2>1 DEF Guarded
  <2>5. \/ handlers[1] = "cors" /\ echo = None /\ \A i \in 2..Len(handlers) : handlers[i] # "cors"
        \/ handlers[1] # "cors" /\ Echoed /\ ~ Preflight /\ past
    BY <2>1, <2>4, OutermostCORS DEF OriginsInv
  <2>6. ASSUME PassOn
        PROVE  /\ station' = "handlers"
               /\ \A i \in 1..Len(handlers') : handlers'[i] # "cors"
    <3>1. /\ Len(handlers') = Len(handlers) - 1
          /\ \A i \in 1..Len(handlers') : handlers'[i] = handlers[i + 1]
      BY <2>1, <2>6 DEF PassOn, Guarded
    <3>2. \A i \in 2..Len(handlers) : handlers[i] # "cors"
      BY <2>5
    <3>3. \A i \in 1..Len(handlers') : i + 1 \in 2..Len(handlers)
      BY <2>4, <3>1
    <3> QED
      BY <2>1, <2>6, <3>1, <3>2, <3>3 DEF PassOn
  <2>7. request'.origin \in Origins \cup {None}
    BY <2>1 DEF OriginsInv
  <2>8. CASE CORSPasses
    <3>1. PassOn /\ echo' = echo /\ echo = None /\ ~ Welcome
      BY <2>1, <2>3, <2>5, <2>8 DEF CORSPasses, At
    <3> QED
      BY <1>1, <2>2, <2>6, <2>7, <3>1 DEF OriginsInv, Echoed, Preflight
  <2>9. CASE CORSAllows
    <3>1. Welcome /\ echo' = request.origin
      BY <2>3, <2>9 DEF CORSAllows
    <3>2. Echoed'
      BY <2>1, <2>2, <3>1 DEF Echoed
    <3>3. CASE request.method = "OPTIONS"
      BY <1>1, <2>7, <2>9, <3>2, <3>3 DEF CORSAllows, Answer, OriginsInv
    <3>4. CASE request.method # "OPTIONS"
      <4>1. PassOn /\ ~ Preflight'
        BY <2>1, <2>9, <3>4 DEF CORSAllows, Preflight
      <4> QED
        BY <1>1, <2>6, <2>7, <3>2, <4>1 DEF OriginsInv
    <3> QED
      BY <3>3, <3>4
  <2>10. CASE BearerAuth \/ LimitBody
    <3>1. Echoed /\ ~ Preflight /\ echo' = echo
      BY <2>1, <2>5, <2>10 DEF BearerAuth, LimitBody, At
    <3>2. Echoed' /\ ~ Preflight'
      BY <2>1, <2>2, <3>1 DEF Echoed
    <3> QED
      BY <1>1, <2>6, <2>7, <2>10, <3>2 DEF BearerAuth, LimitBody, Answer, OriginsInv
  <2> QED
    BY <1>4, <2>8, <2>9, <2>10
<1>5. CASE SDKRefuses(400) \/ SDKRefuses(403) \/ SDKRefuses(405) \/ SDKAccepts
  <2>1. /\ station = "sdk" /\ UNCHANGED <<cfg, request, echo>>
        /\ station' \in {"answered", "body"}
    BY <1>5 DEF SDKRefuses, SDKAccepts, Answer, cfg
  <2>2. (Welcome' <=> Welcome) /\ (Preflight' <=> Preflight)
    BY <2>1 DEF Welcome, Preflight, Listed
  <2> QED
    BY <1>1, <2>1, <2>2 DEF OriginsInv, Echoed
<1>6. CASE Body /\ ~ NextRequest
  <2>1. /\ UNCHANGED <<cfg, request, echo>> /\ station \in {"body", "reading", "tools"}
        /\ station' \in {"body", "reading", "tools", "answered"}
    BY <1>6 DEF Body, BeginRead, ReadSome, ReadEOF, ReadTimesOut, ToolsAnswer, Tick,
                ReadFails, Answer, cfg
  <2>2. (Welcome' <=> Welcome) /\ (Preflight' <=> Preflight)
    BY <2>1 DEF Welcome, Preflight, Listed
  <2> QED
    BY <1>1, <2>1, <2>2 DEF OriginsInv, Echoed
<1>7. CASE NextRequest
  BY <1>1, <1>7 DEF NextRequest, OriginsInv
<1>8. CASE UNCHANGED vars
  <2>1. UNCHANGED <<cfg, request, echo, station, handlers, answer>>
    BY <1>8 DEF vars, cfg
  <2>2. (Welcome' <=> Welcome) /\ (Preflight' <=> Preflight)
    BY <2>1 DEF Welcome, Preflight, Listed
  <2>3. corsEnabled' = corsEnabled /\ buildHTTPHandler' = buildHTTPHandler
    BY <2>1 DEF corsEnabled, buildHTTPHandler
  <2> QED
    BY <1>1, <2>1, <2>2, <2>3 DEF OriginsInv, Echoed
<1> QED
  BY <1>2, <1>3, <1>4, <1>5, <1>6, <1>7, <1>8 DEF Next, Handlers, Elsewhere

-----------------------------------------------------------------------------
(* Settings that are ignored: two command lines that differ in them only. *)

\* What every mode looks at.
SharedFlags == {"parse-end", "version", "dir", "scripts", "list-tools", "call-tool", "log-level",
                "timeout", "no-timeout"}

SameShared(f, e, g, d) ==
    /\ \A name \in SharedFlags : f[name] = g[name]
    /\ logLevelValue(f, e) = logLevelValue(g, d)

\* Two command lines whose checks and configurations are the same have the
\* same outcome.
LEMMA SameOutcome ==
  ASSUME NEW f, NEW e, NEW g, NEW d, SameShared(f, e, g, d), Checks(f, e) = Checks(g, d),
         modeOf(f) = modeOf(g),
         modeOf(f) = "server" => serverConfig(f, e) = serverConfig(g, d),
         modeOf(f) # "server" => diagnosticConfig(f) = diagnosticConfig(g)
  PROVE  Outcome(f, e) = Outcome(g, d)
<1> DEFINE p == parseCLI(f, e)
           q == parseCLI(g, d)
<1>1. /\ f["parse-end"] = g["parse-end"]
      /\ Given(f, "parse-end") <=> Given(g, "parse-end")
      /\ Value(f, "version") = Value(g, "version")
      /\ logLevelValue(f, e) = logLevelValue(g, d)
  BY DEF SameShared, SharedFlags, Given, Value
<1>2. CASE Given(f, "parse-end") \/ Value(f, "version") \/ FirstError(Checks(f, e)) # None
  <2>1. p = q
    BY <1>1, <1>2 DEF parseCLI
  <2> QED
    BY <2>1 DEF Outcome
<1>3. CASE ~ (Given(f, "parse-end") \/ Value(f, "version") \/ FirstError(Checks(f, e)) # None)
  <2> DEFINE mode == modeOf(f)
             level == logLevelValue(f, e)
             config == IF mode = "server" THEN serverConfig(f, e) ELSE diagnosticConfig(f)
             i1 == IF mode = "server" THEN {} ELSE ignoredFlags(f)
             i2 == IF mode = "server" THEN {} ELSE ignoredFlags(g)
  <2>1. p = [error |-> None, mode |-> mode, logLevel |-> level, ignored |-> i1, config |-> config]
    BY <1>3 DEF parseCLI
  <2>2. config = IF mode = "server" THEN serverConfig(g, d) ELSE diagnosticConfig(g)
    OBVIOUS
  <2>3. q = [error |-> None, mode |-> mode, logLevel |-> level, ignored |-> i2, config |-> config]
    BY <1>1, <1>3, <2>2 DEF parseCLI
  <2> HIDE DEF p, q, mode, level, config, i1, i2
  <2>4. /\ DOMAIN p = DOMAIN q
        /\ \A field \in DOMAIN p \ {"ignored"} : p[field] = q[field]
    BY <2>1, <2>3
  <2> QED
    BY <2>4 DEF Outcome, p, q
<1> QED
  BY <1>2, <1>3

\* The shared settings decide the shared checks, the mode and the timeout.
LEMMA SharedDecide ==
  ASSUME NEW f, NEW e, NEW g, NEW d, SameShared(f, e, g, d)
  PROVE  /\ SharedChecks(f, e) = SharedChecks(g, d) /\ modeOf(f) = modeOf(g)
         /\ resolveTimeout(f) = resolveTimeout(g) /\ f["call-tool"] = g["call-tool"]
<1>1. \A name \in SharedFlags : (Given(f, name) <=> Given(g, name)) /\ Value(f, name) = Value(g, name)
  BY DEF SameShared, Given, Value
<1>2. /\ Value(f, "dir") = Value(g, "dir") /\ Value(f, "scripts") = Value(g, "scripts")
      /\ Value(f, "list-tools") = Value(g, "list-tools")
      /\ Given(f, "call-tool") <=> Given(g, "call-tool")
      /\ f["call-tool"] = g["call-tool"]
      /\ Value(f, "timeout") = Value(g, "timeout")
      /\ Given(f, "timeout") <=> Given(g, "timeout")
      /\ Value(f, "no-timeout") = Value(g, "no-timeout")
  BY <1>1 DEF SharedFlags, SameShared
<1>3. logLevelValue(f, e) = logLevelValue(g, d)
  BY DEF SameShared
<1>4. modeOf(f) = modeOf(g)
  BY <1>2, Zenon DEF modeOf
<1>5. resolveTimeout(f) = resolveTimeout(g)
  BY <1>2, Zenon DEF resolveTimeout
<1>6. SharedChecks(f, e) = SharedChecks(g, d)
  BY <1>2, <1>3, <1>4, <1>5, Zenon DEF SharedChecks
<1> QED
  BY <1>2, <1>4, <1>5, <1>6

\* In a diagnostic mode nothing else counts but --watch of a list.
LEMMA DiagnosticsAlike ==
  ASSUME NEW f, NEW e, NEW g, NEW d, SameShared(f, e, g, d), modeOf(f) # "server",
         modeOf(f) = "call-tool" \/ f["watch"] = g["watch"]
  PROVE  Outcome(f, e) = Outcome(g, d)
<1>1. Checks(f, e) = Checks(g, d)
  <2>1. SharedChecks(f, e) = SharedChecks(g, d) /\ modeOf(g) = modeOf(f)
    BY SharedDecide
  <2> QED
    BY <2>1 DEF Checks
<1>2. diagnosticConfig(f) = diagnosticConfig(g)
  BY SharedDecide, Zenon DEF diagnosticConfig, Value, Given
<1> QED
  BY <1>1, <1>2, SharedDecide, SameOutcome

\* What a server looks at.
ServerFlags == {"watch", "host", "port", "max-concurrent", "insecure-no-auth",
                "disable-localhost-protection"}

\* A server has the same outcome with the same cross-origin settings and, over
\* HTTP, the same checks of its credentials.
LEMMA ServersAlike ==
  ASSUME NEW f, NEW e, NEW g, NEW d, SameShared(f, e, g, d), modeOf(f) = "server",
         \A name \in ServerFlags : f[name] = g[name],
         resolveCORS(f, e) = resolveCORS(g, d),
         Value(f, "port") > 0 =>
           /\ HTTPChecks(f, e) = HTTPChecks(g, d)
           /\ resolveAPIKey(f, e) = resolveAPIKey(g, d)
           /\ f["tls-cert"] = g["tls-cert"]
  PROVE  Outcome(f, e) = Outcome(g, d)
<1>1. /\ Value(f, "watch") = Value(g, "watch") /\ Value(f, "host") = Value(g, "host")
      /\ Value(f, "port") = Value(g, "port")
      /\ Value(f, "max-concurrent") = Value(g, "max-concurrent")
      /\ Value(f, "insecure-no-auth") = Value(g, "insecure-no-auth")
  BY DEF ServerFlags, Value, Given
<1>2. ServerChecks(f, e) = ServerChecks(g, d)
  BY <1>1, Zenon DEF ServerChecks
<1>3. Checks(f, e) = Checks(g, d)
  <2>1. SharedChecks(f, e) = SharedChecks(g, d) /\ modeOf(g) = "server"
    BY SharedDecide
  <2> QED
    BY <1>1, <1>2, <2>1 DEF Checks
<1>4. Value(f, "port") > 0 => Value(f, "tls-cert") = Value(g, "tls-cert")
  BY DEF Value, Given
<1>5. serverConfig(f, e) = serverConfig(g, d)
  BY <1>1, <1>4, SharedDecide, Zenon DEF serverConfig
<1> QED
  BY <1>3, <1>5, SharedDecide, SameOutcome

\* Taking away flags and variables leaves the others.
LEMMA OthersStay ==
  ASSUME SettingsInv, NEW names, NEW name \in FlagNames \ names
  PROVE  Without(names)[name] = flags[name]
BY DEF Without, SettingsInv

\* The other variables of the environment are as they were.
LEMMA OthersAreHeard ==
  ASSUME SettingsInv, NEW variable, NEW nothing, NEW other \in EnvNames \ {variable}
  PROVE  Unheard(variable, nothing)[other] = env[other]
BY DEF Unheard, SettingsInv

\* Shared flags and server flags are flags.
LEMMA SharedAreFlags == SharedFlags \subseteq FlagNames /\ ServerFlags \subseteq FlagNames
BY DEF SharedFlags, ServerFlags, FlagNames, BoolFlags, TextFlags

\* Without flags that are not shared and with LOG_LEVEL as it was.
LEMMA StillShared ==
  ASSUME SettingsInv, NEW names, names \cap SharedFlags = {},
         NEW d, d["LOG_LEVEL"] = env["LOG_LEVEL"]
  PROVE  SameShared(flags, env, Without(names), d)
<1> DEFINE g == Without(names)
<1>1. \A name \in SharedFlags : flags[name] = g[name]
  BY OthersStay, SharedAreFlags
<1>2. (Given(flags, "log-level") <=> Given(g, "log-level"))
      /\ Value(flags, "log-level") = Value(g, "log-level")
  BY <1>1 DEF SharedFlags, Given, Value
<1> HIDE DEF g
<1>3. logLevelValue(flags, env) = logLevelValue(g, d)
  BY <1>2, Zenon DEF logLevelValue
<1> QED
  BY <1>1, <1>3 DEF SameShared, g

\* What a diagnostic mode ignores has no effect.
LEMMA DiagnosticsIgnore ==
  ASSUME SettingsInv, Diagnostic, NEW d, d["LOG_LEVEL"] = env["LOG_LEVEL"]
  PROVE  Outcome(flags, env) = Outcome(Without(IgnoredInDiagnostics), d)
<1>1. IgnoredInDiagnostics \cap SharedFlags = {}
  BY DEF IgnoredInDiagnostics, serverModeFlagNames, SharedFlags
<1>2. SameShared(flags, env, Without(IgnoredInDiagnostics), d)
  BY <1>1, StillShared
<1>3. modeOf(flags) # "server"
  BY DEF modeOf, Diagnostic
<1>4. CASE Given(flags, "call-tool")
  <2>1. modeOf(flags) = "call-tool"
    BY <1>4 DEF modeOf
  <2> QED
    BY <1>2, <1>3, <2>1, DiagnosticsAlike
<1>5. CASE ~ Given(flags, "call-tool")
  <2>1. "watch" \in FlagNames \ IgnoredInDiagnostics
    BY <1>5, SharedAreFlags DEF IgnoredInDiagnostics, serverModeFlagNames, ServerFlags
  <2>2. flags["watch"] = Without(IgnoredInDiagnostics)["watch"]
    BY <2>1, OthersStay
  <2> QED
    BY <1>2, <1>3, <2>2, DiagnosticsAlike
<1> QED
  BY <1>4, <1>5

\* It is announced exactly when given.
LEMMA DiagnosticsAnnounce ==
  ASSUME SettingsInv, Diagnostic, parseCLI(flags, env).error = None,
         parseCLI(flags, env).mode # "version"
  PROVE  parseCLI(flags, env).ignored = {name \in IgnoredInDiagnostics : Given(flags, name)}
<1>1. ~ Given(flags, "parse-end")
  <2>1. SUFFICES ASSUME Given(flags, "parse-end") PROVE FALSE
    OBVIOUS
  <2>2. flags["parse-end"] \in {"help", "undefined"}
    BY <2>1 DEF SettingsInv, Given
  <2>3. parseCLI(flags, env).error = flags["parse-end"]
    BY <2>1 DEF parseCLI
  <2> QED
    BY <2>2, <2>3, NoneAssumption
<1>2. ~ Value(flags, "version")
  BY <1>1 DEF parseCLI
<1>3. FirstError(Checks(flags, env)) = None
  BY <1>1, <1>2 DEF parseCLI
<1>4. modeOf(flags) # "server" /\ (modeOf(flags) = "call-tool" <=> Given(flags, "call-tool"))
  BY DEF modeOf, Diagnostic
<1>5. parseCLI(flags, env).ignored = ignoredFlags(flags)
  BY <1>1, <1>2, <1>3, <1>4 DEF parseCLI
<1>6. ignoredFlags(flags) = {name \in IgnoredInDiagnostics : Given(flags, name)}
  <2> HIDE DEF serverModeFlagNames
  <2> QED
    BY <1>4 DEF ignoredFlags, IgnoredInDiagnostics
<1> QED
  BY <1>5, <1>6

\* Over stdio, authentication and TLS have none either.
LEMMA StdioIgnores ==
  ASSUME SettingsInv, Value(flags, "port") = 0
  PROVE  Outcome(flags, env)
         = Outcome(Without({"api-key", "api-key-file", "tls-cert", "tls-key"}),
                   Unheard("MCP_COMMANDS_API_KEY", NoText))
<1> DEFINE names == {"api-key", "api-key-file", "tls-cert", "tls-key"}
           g == Without(names)
           d == Unheard("MCP_COMMANDS_API_KEY", NoText)
<1>1. \A variable \in EnvNames \ {"MCP_COMMANDS_API_KEY"} : d[variable] = env[variable]
  BY OthersAreHeard
<1>2. \A name \in FlagNames \ names : g[name] = flags[name]
  BY OthersStay
<1> HIDE DEF d
<1>3. SameShared(flags, env, g, d)
  <2>1. names \cap SharedFlags = {}
    BY DEF SharedFlags
  <2>2. d["LOG_LEVEL"] = env["LOG_LEVEL"]
    BY <1>1 DEF EnvNames
  <2> QED
    BY <2>1, <2>2, StillShared
<1>4. \A name \in ServerFlags : flags[name] = g[name]
  BY <1>2, SharedAreFlags DEF ServerFlags
<1>5. flags["allowed-origins"] = g["allowed-origins"]
      /\ flags["allow-all-origins"] = g["allow-all-origins"]
  BY <1>2 DEF FlagNames, BoolFlags
<1> HIDE DEF g
<1>6. resolveCORS(flags, env) = resolveCORS(g, d)
  <2>1. /\ d["MCP_COMMANDS_ALLOWED_ORIGINS"] = env["MCP_COMMANDS_ALLOWED_ORIGINS"]
        /\ d["MCP_COMMANDS_ALLOW_ALL_ORIGINS"] = env["MCP_COMMANDS_ALLOW_ALL_ORIGINS"]
    BY <1>1 DEF EnvNames
  <2>2. OriginsRaw(flags, env) = OriginsRaw(g, d)
    BY <1>5, <2>1 DEF OriginsRaw, Given
  <2>3. flags["disable-localhost-protection"] = g["disable-localhost-protection"]
    BY <1>4 DEF ServerFlags
  <2> QED
    BY <1>5, <2>1, <2>2, <2>3, Zenon DEF resolveCORS, Given, Value
<1>7. ~ (Value(flags, "port") > 0)
  OBVIOUS
<1>8. CASE modeOf(flags) = "server"
  BY <1>3, <1>4, <1>6, <1>7, <1>8, ServersAlike DEF g, d
<1>9. CASE modeOf(flags) # "server"
  <2>1. flags["watch"] = g["watch"]
    BY <1>4 DEF ServerFlags
  <2> QED
    BY <1>3, <1>9, <2>1, DiagnosticsAlike DEF g, d
<1> QED
  BY <1>8, <1>9

\* A variable whose flag is given has none: only resolveCORS and the log level
\* could tell.
LEMMA HiddenVariable ==
  ASSUME SettingsInv, NEW d, logLevelValue(flags, env) = logLevelValue(flags, d),
         resolveCORS(flags, env) = resolveCORS(flags, d),
         d["MCP_COMMANDS_API_KEY"] = env["MCP_COMMANDS_API_KEY"]
  PROVE  Outcome(flags, env) = Outcome(flags, d)
<1>1. SameShared(flags, env, flags, d)
  BY DEF SameShared
<1>2. resolveAPIKey(flags, env) = resolveAPIKey(flags, d)
  BY Zenon DEF resolveAPIKey
<1>3. HTTPChecks(flags, env) = HTTPChecks(flags, d)
  BY <1>2, Zenon DEF HTTPChecks
<1>4. CASE modeOf(flags) = "server"
  BY <1>1, <1>2, <1>3, <1>4, ServersAlike
<1>5. CASE modeOf(flags) # "server"
  BY <1>1, <1>5, DiagnosticsAlike
<1> QED
  BY <1>4, <1>5

\* A flag that is given hides the variable it stands for.
LEMMA FlagsHide ==
  ASSUME SettingsInv
  PROVE  /\ Given(flags, "allowed-origins") =>
              Outcome(flags, env) = Outcome(flags, Unheard("MCP_COMMANDS_ALLOWED_ORIGINS", <<>>))
         /\ Given(flags, "allow-all-origins") =>
              Outcome(flags, env) = Outcome(flags, Unheard("MCP_COMMANDS_ALLOW_ALL_ORIGINS", NoText))
         /\ Given(flags, "log-level") =>
              Outcome(flags, env) = Outcome(flags, Unheard("LOG_LEVEL", NoText))
<1>1. ASSUME Given(flags, "allowed-origins")
      PROVE  Outcome(flags, env) = Outcome(flags, Unheard("MCP_COMMANDS_ALLOWED_ORIGINS", <<>>))
  <2> DEFINE d == Unheard("MCP_COMMANDS_ALLOWED_ORIGINS", <<>>)
  <2>1. \A variable \in EnvNames \ {"MCP_COMMANDS_ALLOWED_ORIGINS"} : d[variable] = env[variable]
    BY OthersAreHeard
  <2> HIDE DEF d
  <2>2. /\ d["MCP_COMMANDS_API_KEY"] = env["MCP_COMMANDS_API_KEY"]
        /\ d["MCP_COMMANDS_ALLOW_ALL_ORIGINS"] = env["MCP_COMMANDS_ALLOW_ALL_ORIGINS"]
        /\ d["LOG_LEVEL"] = env["LOG_LEVEL"]
    BY <2>1 DEF EnvNames
  <2>3. OriginsRaw(flags, env) = OriginsRaw(flags, d)
    BY <1>1, Zenon DEF OriginsRaw
  <2>4. resolveCORS(flags, env) = resolveCORS(flags, d)
    BY <2>2, <2>3, Zenon DEF resolveCORS
  <2>5. logLevelValue(flags, env) = logLevelValue(flags, d)
    BY <2>2, Zenon DEF logLevelValue
  <2> QED
    BY <2>2, <2>4, <2>5, HiddenVariable DEF d
<1>2. ASSUME Given(flags, "allow-all-origins")
      PROVE  Outcome(flags, env) = Outcome(flags, Unheard("MCP_COMMANDS_ALLOW_ALL_ORIGINS", NoText))
  <2> DEFINE d == Unheard("MCP_COMMANDS_ALLOW_ALL_ORIGINS", NoText)
  <2>1. \A variable \in EnvNames \ {"MCP_COMMANDS_ALLOW_ALL_ORIGINS"} : d[variable] = env[variable]
    BY OthersAreHeard
  <2> HIDE DEF d
  <2>2. /\ d["MCP_COMMANDS_API_KEY"] = env["MCP_COMMANDS_API_KEY"]
        /\ d["MCP_COMMANDS_ALLOWED_ORIGINS"] = env["MCP_COMMANDS_ALLOWED_ORIGINS"]
        /\ d["LOG_LEVEL"] = env["LOG_LEVEL"]
    BY <2>1 DEF EnvNames
  <2>3. OriginsRaw(flags, env) = OriginsRaw(flags, d)
    BY <2>2, Zenon DEF OriginsRaw
  <2>4. resolveCORS(flags, env) = resolveCORS(flags, d)
    BY <1>2, <2>3, Zenon DEF resolveCORS, Unless
  <2>5. logLevelValue(flags, env) = logLevelValue(flags, d)
    BY <2>2, Zenon DEF logLevelValue
  <2> QED
    BY <2>2, <2>4, <2>5, HiddenVariable DEF d
<1>3. ASSUME Given(flags, "log-level")
      PROVE  Outcome(flags, env) = Outcome(flags, Unheard("LOG_LEVEL", NoText))
  <2> DEFINE d == Unheard("LOG_LEVEL", NoText)
  <2>1. \A variable \in EnvNames \ {"LOG_LEVEL"} : d[variable] = env[variable]
    BY OthersAreHeard
  <2> HIDE DEF d
  <2>2. /\ d["MCP_COMMANDS_API_KEY"] = env["MCP_COMMANDS_API_KEY"]
        /\ d["MCP_COMMANDS_ALLOWED_ORIGINS"] = env["MCP_COMMANDS_ALLOWED_ORIGINS"]
        /\ d["MCP_COMMANDS_ALLOW_ALL_ORIGINS"] = env["MCP_COMMANDS_ALLOW_ALL_ORIGINS"]
    BY <2>1 DEF EnvNames
  <2>3. OriginsRaw(flags, env) = OriginsRaw(flags, d)
    BY <2>2, Zenon DEF OriginsRaw
  <2>4. resolveCORS(flags, env) = resolveCORS(flags, d)
    BY <2>2, <2>3, Zenon DEF resolveCORS
  <2>5. logLevelValue(flags, env) = logLevelValue(flags, d)
    BY <1>3, Zenon DEF logLevelValue
  <2> QED
    BY <2>2, <2>4, <2>5, HiddenVariable DEF d
<1> QED
  BY <1>1, <1>2, <1>3

-----------------------------------------------------------------------------
(* The theorems. *)

\* Whatever the settings and the files, a request that reaches the SDK has the
\* strongest credential, or there is none and the posture was accepted.
THEOREM OnlyTheEntitled == Spec => []ToolsAreGuarded
<1>1. IInv => ToolsAreGuarded
  <2> SUFFICES ASSUME IInv, station \in {"sdk", "body", "reading", "tools"}
               PROVE  ToolsAreGuarded
    BY DEF ToolsAreGuarded
  <2>1. phase = "serving" /\ SettingsInv /\ Accepted /\ Entitled
    BY DEF IInv, ProcessInv, HandlersInv, Stations
  <2>2. cfg.apiKey = Strongest /\ (Strongest # NoText => Strongest \notin RefusedFiles)
    BY <2>1, TokenIsStrongest
  <2>3. checkHTTPSecurityPolicy(cfg.host, cfg.apiKey, cfg.insecureNoAuth)
    BY <2>1 DEF IInv, ProcessInv
  <2>4. cfg.host = Value(flags, "host") /\ cfg.insecureNoAuth = Value(flags, "insecure-no-auth")
    BY <2>1, AcceptedChecks DEF serverConfig
  <2> QED
    BY <2>1, <2>2, <2>3, <2>4
    DEF ToolsAreGuarded, Entitled, checkHTTPSecurityPolicy, isLoopbackHost
<1> QED
  BY <1>1, Inductive, PTL

\* For any time limit and body size, a read waits no longer than the body's one
\* deadline, none is told of a timeout before it, and a call is made only with a
\* complete body and runs without a deadline.
THEOREM BodiesAreBounded == Spec => []BodyIsBounded
<1>1. IInv => BodyIsBounded
  BY DEF IInv, BodyInv, BodyIsBounded
<1> QED
  BY <1>1, Inductive, PTL

\* Whatever the settings and whatever a client sends as Origin, and however
\* browsers write hosts and ports: a response is readable only for an origin that
\* browsers hold equal to a listed one, for a browser's page exactly when that
\* one is listed as browsers write it, and a preflight that is allowed is
\* answered before the authentication.
THEOREM OriginsAreCompared == Spec => []OriginsAsBrowsersDo
<1>1. Init => OriginsInv
  <2> SUFFICES ASSUME Init PROVE OriginsInv
    OBVIOUS
  <2>1. ListedURLs
    BY OriginsAssumption DEF Init, ListedURLs
  <2> QED
    BY <2>1, GateAssumption DEF Init, OriginsInv, Stations
<1>2. IInv /\ OriginsInv /\ [Next]_vars => OriginsInv'
  BY OriginsStep
<1>3. OriginsInv => OriginsAsBrowsersDo
  <2> SUFFICES ASSUME OriginsInv, station \in {"sdk", "body", "reading", "tools", "answered"}
               PROVE  OriginsAsBrowsersDo
    BY DEF OriginsAsBrowsersDo
  <2>1. Echoed /\ (Preflight => station = "answered" /\ answer = 204)
    BY DEF OriginsInv
  <2>2. echo # None <=> Welcome
    BY <2>1 DEF Echoed, Welcome
  <2>3. Welcome => echo = request.origin /\ request.origin # None
    BY <2>1 DEF Echoed, Welcome
  <2>4. request.origin # None /\ cfg.allowAll => Welcome
    BY DEF Welcome
  <2> QED
    BY <2>1, <2>2, <2>3, <2>4, WelcomeIsMeant DEF OriginsAsBrowsersDo, Preflight
<1> QED
  BY <1>1, <1>2, <1>3, Inductive, PTL DEF Spec

\* Whatever the command line and the environment, what a mode ignores, and the
\* variable that a flag hides, cannot change what parseCLI gives, not even an
\* error, and what a diagnostic mode ignores is announced exactly when given.
THEOREM IgnoredHasNoEffect == Spec => []IgnoredMeansIgnored
<1>1. IInv => IgnoredMeansIgnored
  <2> SUFFICES ASSUME SettingsInv PROVE IgnoredMeansIgnored
    BY DEF IInv, ProcessInv
  <2> DEFINE d == [Unheard("MCP_COMMANDS_ALLOWED_ORIGINS", <<>>)
                     EXCEPT !["MCP_COMMANDS_ALLOW_ALL_ORIGINS"] = NoText,
                            !["MCP_COMMANDS_API_KEY"] = NoText]
  <2>1. d["LOG_LEVEL"] = env["LOG_LEVEL"]
    BY DEF SettingsInv, EnvNames, Unheard
  <2> HIDE DEF d
  <2>2. Diagnostic => Outcome(flags, env) = Outcome(Without(IgnoredInDiagnostics), d)
    BY <2>1, DiagnosticsIgnore
  <2> QED
    BY <2>2, DiagnosticsAnnounce, StdioIgnores, FlagsHide, Zenon DEF IgnoredMeansIgnored, d
<1> QED
  BY <1>1, Inductive, PTL

-----------------------------------------------------------------------------
(* Types. *)

\* What TypeOK says of the process and of the connection, the handlers as a
\* sequence.
ExitType ==
    /\ phase \in {"parse", "diagnostic", "stdio", "policy", "bind", "serving", "exited"}
    /\ exit = None \/ exit.status \in 0..2

ConnectionType ==
    /\ request \in {Nobody} \cup [method : Methods, origin : Origins \cup {None},
                                  token : Tokens \cup {None}]
    /\ handlers \in Seq({"cors", "auth", "limit"})
    /\ station \in {None} \cup Stations
    /\ echo \in Origins \cup {None}
    /\ answer \in {None, 200, 204, 400, 401, 403, 405, 413}

ClockType ==
    /\ clock \in 0..MaxClock
    /\ sock = None \/ sock \in 0..(MaxClock + BodyTimeout)
    /\ got \in 0..(MaxBody + 1)
    /\ readErr \in {None, "timeout", "oversize"}

\* The process takes its places and ends with a status of main's.
LEMMA ExitTypeStep == ASSUME ExitType, [Next]_vars PROVE ExitType'
<1> USE DEF ExitType, settings, process, body, conn
<1>1. ASSUME NEW code \in 0..2, NEW why, Exit(code, why) PROVE ExitType'
  BY <1>1 DEF Exit
<1>2. CASE Parse
  <2>1. \A error : ErrorStatus(error) \in 0..2
    BY DEF ErrorStatus
  <2>2. CASE parsed'.error # None /\ Exit(ErrorStatus(parsed'.error), parsed'.error)
    BY <1>1, <2>1, <2>2
  <2>3. CASE Exit(0, "version")
    BY <1>1, <2>3
  <2>4. CASE phase' \in {"diagnostic", "policy", "stdio"} /\ exit' = exit
    BY <2>4
  <2> QED
    BY <1>2, <2>2, <2>3, <2>4 DEF Parse
<1>3. CASE Policy
  BY <1>1, <1>3 DEF Policy
<1>4. CASE Listen
  BY <1>4 DEF Listen
<1>5. CASE BindFails("address") \/ BindFails("taken")
  BY <1>1, <1>5 DEF BindFails
<1>6. CASE Handlers \/ Body
  BY <1>6 DEF Handlers, Body, RequestArrives, CORSPasses, CORSAllows, BearerAuth, LimitBody,
              SDKRefuses, SDKAccepts, BeginRead, ReadSome, ReadEOF, ReadTimesOut, ToolsAnswer,
              Tick, NextRequest, ReadFails, Answer
<1>7. CASE UNCHANGED vars
  BY <1>7 DEF vars
<1> QED
  BY <1>2, <1>3, <1>4, <1>5, <1>6, <1>7 DEF Next, Process, Elsewhere

\* A request and its answer are of their types at every station.
LEMMA ConnectionTypeStep ==
  ASSUME IInv, ConnectionType, [Next]_vars
  PROVE  ConnectionType'
<1> USE DEF ConnectionType, Stations, settings, process, body, conn
<1>1. CASE Process
  BY <1>1 DEF Process, Parse, Policy, Listen, BindFails
<1>2. CASE RequestArrives
  <2> DEFINE H == {"cors", "auth", "limit"}
             outer == IF corsEnabled THEN <<"cors">> ELSE <<>>
             inner == IF cfg.apiKey # NoText THEN <<"auth">> ELSE <<>>
  <2>0. outer \in Seq(H) /\ inner \in Seq(H) /\ <<"limit">> \in Seq(H)
    <3>1. <<>> \in Seq(H) /\ <<"cors">> \in Seq(H) /\ <<"auth">> \in Seq(H)
          /\ <<"limit">> \in Seq(H)
      OBVIOUS
    <3> HIDE DEF H
    <3> QED
      BY <3>1
  <2>1. handlers' \in Seq(H)
    <3>1. handlers' = outer \o inner \o <<"limit">>
      BY <1>2 DEF RequestArrives, buildHTTPHandler
    <3> HIDE DEF H, outer, inner
    <3> QED
      BY <2>0, <3>1
  <2> QED
    BY <1>2, <2>1 DEF RequestArrives
<1>3. CASE CORSPasses \/ CORSAllows \/ BearerAuth \/ LimitBody
  <2>1. handlers # <<>>
    BY <1>3 DEF IInv, HandlersInv, Guarded, CORSPasses, CORSAllows, BearerAuth, LimitBody, At
  <2>2. Tail(handlers) \in Seq({"cors", "auth", "limit"})
    BY <2>1
  <2>3. originAllowed => request.origin \in Origins
    BY DEF originAllowed, Nobody
  <2> QED
    BY <1>3, <2>2, <2>3 DEF CORSPasses, CORSAllows, BearerAuth, LimitBody, PassOn, Answer
<1>4. CASE SDKRefuses(400) \/ SDKRefuses(403) \/ SDKRefuses(405) \/ SDKAccepts
  BY <1>4 DEF SDKRefuses, SDKAccepts, Answer
<1>5. CASE BeginRead \/ ReadSome \/ ReadEOF
  BY <1>5 DEF BeginRead, ReadSome, ReadEOF, ReadFails, Answer
<1>6. CASE ReadTimesOut \/ ToolsAnswer(200) \/ ToolsAnswer(400) \/ Tick
  BY <1>6 DEF ReadTimesOut, ToolsAnswer, Tick, ReadFails, Answer
<1>7. CASE NextRequest
  BY <1>7 DEF NextRequest
<1>8. CASE UNCHANGED vars
  BY <1>8 DEF vars
<1> QED
  BY <1>1, <1>2, <1>3, <1>4, <1>5, <1>6, <1>7, <1>8 DEF Next, Handlers, Body, Elsewhere

\* The clock stops at its bound, and a read ends one unit above the limit.
LEMMA ClockTypeStep == ASSUME IInv, ClockType, [Next]_vars PROVE ClockType'
<1> USE GateAssumption
    DEF IInv, BodyInv, ClockType, Stations, settings, process, body, conn
<1>1. CASE Process
  BY <1>1 DEF Process, Parse, Policy, Listen, BindFails
<1>2. CASE Handlers
  BY <1>2 DEF Handlers, RequestArrives, CORSPasses, CORSAllows, BearerAuth, LimitBody,
              SDKRefuses, SDKAccepts
<1>3. CASE BeginRead \/ ReadEOF
  BY <1>3 DEF BeginRead, ReadEOF, ReadFails, Answer
<1>4. CASE ReadSome
  BY <1>4 DEF ReadSome, ReadFails, Answer
<1>5. CASE ReadTimesOut \/ ToolsAnswer(200) \/ ToolsAnswer(400) \/ Tick \/ NextRequest
  BY <1>5 DEF ReadTimesOut, ReadFails, Answer, ToolsAnswer, Tick, NextRequest
<1>6. CASE UNCHANGED vars
  BY <1>6 DEF vars
<1> QED
  BY <1>1, <1>2, <1>3, <1>4, <1>5, <1>6 DEF Next, Body, Elsewhere

\* For all settings, clients and limits every variable has its type: a process
\* ends with a status main knows, and no read goes past the size limit unnoticed.
THEOREM TypeCorrect == Spec => []TypeOK
<1>1. Init => ExitType /\ ConnectionType /\ ClockType
  BY GateAssumption DEF Init, ExitType, ConnectionType, ClockType
<1>2. IInv /\ (ExitType /\ ConnectionType /\ ClockType) /\ [Next]_vars
        => (ExitType /\ ConnectionType /\ ClockType)'
  BY ExitTypeStep, ConnectionTypeStep, ClockTypeStep
<1>3. IInv /\ ExitType /\ ConnectionType /\ ClockType => TypeOK
  <2> SUFFICES ASSUME SettingsInv, ExitType, ConnectionType, ClockType PROVE TypeOK
    BY DEF IInv, ProcessInv
  <2>1. ToSet(handlers) \subseteq {"cors", "auth", "limit"}
    BY DEF ConnectionType, ToSet
  <2> QED
    BY <2>1 DEF TypeOK, SettingsInv, ExitType, ConnectionType, ClockType
<1> QED
  BY <1>1, <1>2, <1>3, Inductive, PTL DEF Spec
===============================================================================
