--------------------------- MODULE ServerRunProofs ---------------------------
(***************************************************************************)
(* ServerRun for both transports and any number of requests in flight: the *)
(* record is truthful and unique, and the exit status is right, whichever  *)
(* arm of the select wins.                                                 *)
(***************************************************************************)
EXTENDS ServerRun, SequenceTheorems, FiniteSetTheorems, TLAPS

-----------------------------------------------------------------------------
(* The inductive invariant. *)

\* Where the shutdown goroutine can be at each place of run.
PlaceInv ==
    /\ status = None <=> main # "exited"
    /\ mode = "stdio" => shutdown = "off" /\ requests = 0 /\ main \notin {"queue", "settle"}
    /\ mode = "http" => main # "check"
    /\ main \in {"boot", "policy"} => shutdown = "off" /\ serve = "off" /\ stopReason = None
    /\ main = "boot" => watch = "off"
    /\ mode = "http" /\ main \in {"select", "queue", "cancel", "settle"} => shutdown # "off"
    /\ mode = "http" /\ main \in {"collect", "return"} => shutdown = "done"
    /\ mode = "http" /\ shutdown = "off" => serve = "off" /\ requests = 0
    /\ main = "exited" => shutdown \in {"off", "done"}
    /\ status = "clean" /\ mode = "http" => shutdown = "done"

\* Shutdown returned with a request in flight only when its time was up.
GraceInv == shutdown = "done" /\ requests > 0 => graceExpired

\* A result is the same in the goroutine's history, its channel and run.
ResultInv ==
    /\ mode = "http" => serve \notin {"eof", "canceled"}
    /\ mode = "stdio" => serve # "closed"
    /\ serveDone # None => serve = serveDone
    /\ serveErr # None => serve = serveErr
    /\ serve = "closed" => shutdown \in {"draining", "done"}
    /\ serve = "canceled" => sigCtx # None
    /\ watchDone # None => watch = watchDone
    /\ watchErr => watch = "fatal"
    /\ watch = "canceled" => sigCtx # None

\* Why run is where it is: it never cancels without a failure or an end of
\* session it has seen.
CauseInv ==
    /\ main \in {"boot", "policy", "select", "collect"} => serveErr = None
    /\ main = "queue" /\ ~ watchErr => serveErr # None
    /\ mode = "stdio" /\ main = "cancel" /\ ~ watchErr => serveErr # None
    /\ main = "return" /\ ~ watchErr => serveErr # None
    /\ main = "cancel" /\ sigCtx = None => watchErr \/ serveErr \in {"failure", "eof"}
    /\ sigCtx = "cancel" => /\ main \in {"settle", "collect", "return", "exited"}
                            /\ watchErr \/ serveErr \in {"failure", "eof"}

\* A reason is what a shutting-down record says it is.
Truthful(why) ==
    CASE why = "signal" -> sigCtx = "signal"
      [] why = "watch-error" -> watch = "fatal"
      [] OTHER -> serve = "failure"

\* The reason is in the channel before run cancels, and stays there until the
\* shutdown goroutine takes it; what is queued after that is never read.
ReasonInv ==
    /\ sigCtx = None => shutdown \in {"off", "waiting"}
    /\ mode = "http" /\ main = "cancel" /\ sigCtx = None => stopReason # None
    /\ mode = "http" /\ sigCtx = "cancel" /\ shutdown \in {"waiting", "woken"} => stopReason # None
    /\ stopReason # "signal"
    /\ shutdown \in {"waiting", "woken"} /\ stopReason # None => Truthful(stopReason)
    /\ shutdown = "logging" => reason # None /\ Truthful(reason)

\* The log: empty, one true shutting-down record, and at a clean end the
\* server-stopped record.
Silent == /\ log = <<>> /\ status # "clean"
          /\ shutdown \notin {"draining", "done"}

Announced(why) == /\ log = <<ShuttingDown(why)>> /\ status # "clean"
                  /\ Truthful(why)
                  /\ mode = "http" => shutdown \in {"draining", "done"}
                  /\ mode = "stdio" => main \notin {"boot", "policy", "select", "check"}

Stopped == log = <<ServerStopped>> /\ status = "clean" /\ mode = "stdio"

Finished(why) == log = <<ShuttingDown(why), ServerStopped>> /\ status = "clean" /\ Truthful(why)

LogInv == \/ Silent \/ Stopped
          \/ \E why \in Reasons : Announced(why) \/ Finished(why)

IInv == Enumerations /\ PlaceInv /\ GraceInv /\ ResultInv /\ CauseInv /\ ReasonInv /\ LogInv
        /\ CleanExitIsAsked

\* Nothing has happened.
LEMMA InitIInv == Init => IInv
BY ModesAssumption, RequestsAssumption
   DEF Init, IInv, Enumerations, PlaceInv, GraceInv, ResultInv, CauseInv, ReasonInv, Truthful,
       LogInv, Silent, CleanExitIsAsked, None, Reasons, WatchResults, ServeResults

-----------------------------------------------------------------------------
(* Every step preserves it. *)

\* An equation of truth values says when they hold.
LEMMA FatalWatch == ASSUME TakeWatch PROVE watchErr' <=> watchDone = "fatal"
BY Zenon DEF TakeWatch

\* The grace period is over exactly when requests are left.
LEMMA ExpiredGrace == ASSUME NEW expired, Drained(expired) PROVE graceExpired' <=> requests > 0
BY Zenon DEF Drained

\* Places, causes and results stay in their enumerations.
LEMMA EnumerationsStep == ASSUME IInv, [Next]_vars PROVE Enumerations'
<1> USE ModesAssumption, RequestsAssumption
    DEF IInv, Enumerations, ResultInv, ReasonInv, None, Reasons, WatchResults, ServeResults,
        context, watcher, server, shutter, locals, Running
<1>1. CASE Main
  BY <1>1, SMTT(60)
  DEF Main, Boot, Policy, StartStdio, TakeSignal, TakeWatch, TakeServe, CheckSignal, QueueReason,
      CancelRun, Settle, CollectServe, Return, Fail
<1>2. CASE Shutter
  BY <1>2 DEF Shutter, Wake, ReadReason, Record, Drained
<1>3. CASE Surroundings
  BY <1>3 DEF Surroundings, Signal, WatchEnds, Listen, ServeFails, ServeCloses, ClientLeaves,
              SessionCanceled, RequestArrives, RequestEnds, ServeEnds
<1>4. CASE UNCHANGED vars
  BY <1>4 DEF vars
<1> QED
  BY <1>1, <1>2, <1>3, <1>4 DEF Next, Exited

\* run waits for the shutdown goroutine, which run has started.
LEMMA PlaceStep == ASSUME IInv, [Next]_vars PROVE PlaceInv'
<1> USE ModesAssumption, RequestsAssumption
    DEF IInv, Enumerations, PlaceInv, ResultInv, ReasonInv, None, Reasons, WatchResults,
        ServeResults, context, watcher, server, shutter, locals, Running
<1>1. CASE Boot \/ Policy \/ StartStdio
  BY <1>1 DEF Boot, Policy, StartStdio, Fail
<1>2. CASE TakeSignal \/ TakeWatch \/ TakeServe \/ CheckSignal
  BY <1>2 DEF TakeSignal, TakeWatch, TakeServe, CheckSignal
<1>3. CASE QueueReason \/ CancelRun
  BY <1>3 DEF QueueReason, CancelRun
<1>4. CASE Settle
  BY <1>4 DEF Settle
<1>5. CASE CollectServe \/ Return
  BY <1>5 DEF CollectServe, Return, Fail
<1>6. CASE Shutter
  BY <1>6 DEF Shutter, Wake, ReadReason, Record, Drained
<1>7. CASE Surroundings
  BY <1>7 DEF Surroundings, Signal, WatchEnds, Listen, ServeFails, ServeCloses, ClientLeaves,
              SessionCanceled, RequestArrives, RequestEnds, ServeEnds
<1>8. CASE UNCHANGED vars
  BY <1>8 DEF vars
<1> QED
  BY <1>1, <1>2, <1>3, <1>4, <1>5, <1>6, <1>7, <1>8 DEF Next, Main, Exited

\* Shutdown returns with a request in flight only for its deadline, and none
\* arrives after it.
LEMMA GraceStep == ASSUME IInv, [Next]_vars PROVE GraceInv'
<1> USE RequestsAssumption
    DEF IInv, Enumerations, PlaceInv, GraceInv, context, watcher, server, shutter, locals, Running
<1>1. ASSUME NEW expired \in BOOLEAN, Drained(expired) PROVE GraceInv'
  <2>1. requests' = requests
    BY <1>1 DEF Drained
  <2> QED
    BY <1>1, <2>1, ExpiredGrace, Zenon
<1>2. CASE Wake \/ ReadReason \/ Record
  BY <1>2 DEF Wake, ReadReason, Record
<1>3. CASE Policy
  BY <1>3 DEF Policy, Fail
<1>4. CASE Main /\ ~ Policy
  BY <1>4 DEF Main, Boot, StartStdio, TakeSignal, TakeWatch, TakeServe, CheckSignal, QueueReason,
              CancelRun, Settle, CollectServe, Return, Fail
<1>5. CASE RequestArrives \/ RequestEnds
  BY <1>5 DEF RequestArrives, RequestEnds
<1>6. CASE Surroundings /\ ~ RequestArrives /\ ~ RequestEnds
  BY <1>6 DEF Surroundings, Signal, WatchEnds, Listen, ServeFails, ServeCloses, ClientLeaves,
              SessionCanceled, ServeEnds
<1>7. CASE UNCHANGED vars
  BY <1>7 DEF vars
<1> QED
  BY <1>1, <1>2, <1>3, <1>4, <1>5, <1>6, <1>7 DEF Next, Shutter, Exited

\* A result is sent once and received once.
LEMMA ResultStep == ASSUME IInv, [Next]_vars PROVE ResultInv'
<1> USE ModesAssumption
    DEF IInv, Enumerations, PlaceInv, ResultInv, CauseInv, None, WatchResults, ServeResults,
        context, watcher, server, shutter, locals, Running
<1>1. CASE Boot \/ Policy \/ StartStdio
  BY <1>1 DEF Boot, Policy, StartStdio, Fail
<1>2. CASE TakeWatch
  BY <1>2, FatalWatch DEF TakeWatch
<1>3. CASE TakeServe \/ CollectServe
  BY <1>3 DEF TakeServe, CollectServe
<1>4. CASE TakeSignal \/ CheckSignal \/ QueueReason \/ CancelRun \/ Settle \/ Return
  BY <1>4 DEF TakeSignal, CheckSignal, QueueReason, CancelRun, Settle, Return, Fail
<1>5. CASE Shutter
  BY <1>5 DEF Shutter, Wake, ReadReason, Record, Drained
<1>6. CASE Surroundings
  BY <1>6 DEF Surroundings, Signal, WatchEnds, Listen, ServeFails, ServeCloses, ClientLeaves,
              SessionCanceled, RequestArrives, RequestEnds, ServeEnds
<1>7. CASE UNCHANGED vars
  BY <1>7 DEF vars
<1> QED
  BY <1>1, <1>2, <1>3, <1>4, <1>5, <1>6, <1>7 DEF Next, Main, Exited

\* run cancels for a failed watcher or server, or because the session is over.
LEMMA CauseStep == ASSUME IInv, [Next]_vars PROVE CauseInv'
<1> USE ModesAssumption
    DEF IInv, Enumerations, PlaceInv, ResultInv, CauseInv, ReasonInv, None, WatchResults,
        ServeResults, context, watcher, server, shutter, locals, Running
<1>1. CASE Boot \/ Policy \/ StartStdio
  BY <1>1 DEF Boot, Policy, StartStdio, Fail
<1>2. CASE TakeSignal
  BY <1>2 DEF TakeSignal
<1>3. CASE TakeWatch
  BY <1>3, FatalWatch DEF TakeWatch
<1>4. CASE TakeServe
  BY <1>4 DEF TakeServe
<1>5. CASE CheckSignal
  BY <1>5 DEF CheckSignal
<1>6. CASE QueueReason
  BY <1>6 DEF QueueReason
<1>7. CASE CancelRun
  BY <1>7 DEF CancelRun
<1>8. CASE Settle \/ CollectServe \/ Return
  BY <1>8 DEF Settle, CollectServe, Return, Fail
<1>9. CASE Shutter
  BY <1>9 DEF Shutter, Wake, ReadReason, Record, Drained
<1>10. CASE Surroundings
  BY <1>10 DEF Surroundings, Signal, WatchEnds, Listen, ServeFails, ServeCloses, ClientLeaves,
               SessionCanceled, RequestArrives, RequestEnds, ServeEnds
<1>11. CASE UNCHANGED vars
  BY <1>11 DEF vars
<1> QED
  BY <1>1, <1>2, <1>3, <1>4, <1>5, <1>6, <1>7, <1>8, <1>9, <1>10, <1>11 DEF Next, Main, Exited

\* The order of run's steps is what makes the reason true: it is queued before
\* the context ends, and a server that Shutdown closed is queued for nobody.
LEMMA ReasonStep == ASSUME IInv, [Next]_vars PROVE ReasonInv'
<1> USE ModesAssumption
    DEF IInv, Enumerations, PlaceInv, ResultInv, CauseInv, ReasonInv, Truthful, None, Reasons,
        WatchResults, ServeResults, context, watcher, server, shutter, locals, Running
<1>1. CASE Boot \/ Policy \/ StartStdio
  BY <1>1 DEF Boot, Policy, StartStdio, Fail
<1>2. CASE TakeSignal \/ TakeWatch \/ TakeServe \/ CheckSignal
  BY <1>2 DEF TakeSignal, TakeWatch, TakeServe, CheckSignal
<1>3. CASE QueueReason
  BY <1>3 DEF QueueReason
<1>4. CASE CancelRun
  BY <1>4 DEF CancelRun
<1>5. CASE Settle \/ CollectServe \/ Return
  BY <1>5 DEF Settle, CollectServe, Return, Fail
<1>6. CASE Wake
  BY <1>6 DEF Wake
<1>7. CASE ReadReason
  BY <1>7 DEF ReadReason
<1>8. CASE Record \/ Drained(TRUE) \/ Drained(FALSE)
  BY <1>8 DEF Record, Drained
<1>9. CASE Surroundings
  BY <1>9 DEF Surroundings, Signal, WatchEnds, Listen, ServeFails, ServeCloses, ClientLeaves,
              SessionCanceled, RequestArrives, RequestEnds, ServeEnds
<1>10. CASE UNCHANGED vars
  BY <1>10 DEF vars
<1> QED
  BY <1>1, <1>2, <1>3, <1>4, <1>5, <1>6, <1>7, <1>8, <1>9, <1>10 DEF Next, Main, Shutter, Exited

\* What made a reason true stays true: contexts, watchers and servers end once.
LEMMA TruthStays ==
  ASSUME IInv, [Next]_vars, NEW why \in Reasons, Truthful(why)
  PROVE  Truthful(why)'
<1> USE DEF IInv, Enumerations, PlaceInv, Truthful, None, Reasons, WatchResults, ServeResults,
            context, watcher, server, shutter, locals, Running
<1>1. CASE Main
  BY <1>1
  DEF Main, Boot, Policy, StartStdio, TakeSignal, TakeWatch, TakeServe, CheckSignal, QueueReason,
      CancelRun, Settle, CollectServe, Return, Fail
<1>2. CASE Shutter
  BY <1>2 DEF Shutter, Wake, ReadReason, Record, Drained
<1>3. CASE Surroundings
  BY <1>3 DEF Surroundings, Signal, WatchEnds, Listen, ServeFails, ServeCloses, ClientLeaves,
              SessionCanceled, RequestArrives, RequestEnds, ServeEnds
<1>4. CASE UNCHANGED vars
  BY <1>4 DEF vars
<1> QED
  BY <1>1, <1>2, <1>3, <1>4 DEF Next, Exited

\* The second record follows the first.
LEMMA AppendToOne == ASSUME NEW a, NEW b PROVE Append(<<a>>, b) = <<a, b>>
<1> DEFINE s == Append(<<a>>, b)
           t == <<a, b>>
<1>1. <<a>> \in Seq({a, b}) /\ t \in Seq({a, b})
  OBVIOUS
<1>2. s \in Seq({a, b}) /\ Len(s) = 2 /\ s[1] = a /\ s[2] = b
  BY <1>1
<1>3. Len(s) = Len(t) /\ \A i \in 1..Len(s) : s[i] = t[i]
  BY <1>2
<1> HIDE DEF s, t
<1>4. s = t
  BY <1>1, <1>2, <1>3, SeqEqual
<1> QED
  BY <1>4 DEF s, t

\* A record is written while there is none, and the final one at the end.
LEMMA LogStep == ASSUME IInv, [Next]_vars PROVE LogInv'
<1> USE ModesAssumption
    DEF IInv, Enumerations, PlaceInv, ReasonInv, None, Reasons, WatchResults, ServeResults,
        context, watcher, server, shutter, locals, Running
<1>1. ASSUME mode = "stdio", main \in {"select", "check"} \/ log = <<>>, status # "clean",
             NEW why \in Reasons, Truthful(why)', log' = Append(log, ShuttingDown(why)),
             status' = status, mode' = mode,
             main' \notin {"boot", "policy", "select", "check"}
      PROVE  LogInv'
  <2>1. log = <<>>
    BY <1>1 DEF LogInv, Silent, Announced, Stopped, Finished
  <2>2. log' = <<ShuttingDown(why)>>
    BY <1>1, <2>1
  <2>3. Announced(why)'
    BY <1>1, <2>2 DEF Announced, ShuttingDown
  <2> QED
    BY <2>3 DEF LogInv
<1>2. ASSUME log' = log, status' = status, mode' = mode,
             mode = "http" => (shutdown' \in {"draining", "done"}
                                 <=> shutdown \in {"draining", "done"}),
             mode = "stdio" => shutdown' = shutdown,
             mode = "stdio" /\ main' \in {"boot", "policy", "select", "check"}
               => main \in {"boot", "policy", "select", "check"}
      PROVE  LogInv'
  <2>1. CASE Silent
    BY <1>2, <2>1 DEF LogInv, Silent
  <2>2. CASE Stopped
    BY <1>2, <2>2 DEF LogInv, Stopped, ServerStopped
  <2>3. ASSUME NEW why \in Reasons, Announced(why) \/ Finished(why) PROVE LogInv'
    <3>1. Truthful(why)'
      BY <2>3, TruthStays DEF Announced, Finished
    <3>2. Announced(why)' \/ Finished(why)'
      BY <1>2, <2>3, <3>1 DEF Announced, Finished, ShuttingDown, ServerStopped
    <3> QED
      BY <3>2 DEF LogInv
  <2> QED
    BY <2>1, <2>2, <2>3 DEF LogInv
<1>3. CASE TakeSignal
  <2>1. CASE mode = "http"
    BY <1>2, <1>3, <2>1 DEF TakeSignal
  <2>2. CASE mode = "stdio"
    BY <1>1, <1>3, <2>2 DEF TakeSignal, CauseInv, Truthful
  <2> QED
    BY <2>1, <2>2
<1>4. CASE TakeWatch
  <2>1. CASE log' = log
    BY <1>2, <1>4, <2>1 DEF TakeWatch
  <2>2. CASE log' # log
    BY <1>1, <1>4, <2>2 DEF TakeWatch, ResultInv, Truthful
  <2> QED
    BY <2>1, <2>2
<1>5. CASE CheckSignal
  <2>1. CASE sigCtx = None
    BY <1>2, <1>5, <2>1 DEF CheckSignal
  <2>2. CASE sigCtx # None
    BY <1>1, <1>5, <2>2 DEF CheckSignal, CauseInv, Truthful
  <2> QED
    BY <2>1, <2>2
<1>6. CASE Record
  <2>1. Truthful(reason) /\ reason \in Reasons /\ log = <<>> /\ mode = "http"
    BY <1>6, ModesAssumption DEF Record, LogInv, Silent, Announced, Stopped, Finished
  <2>2. log' = <<ShuttingDown(reason)>>
    BY <1>6, <2>1 DEF Record
  <2>3. Truthful(reason)' /\ reason' = reason
    BY <1>6, <2>1, TruthStays DEF Record
  <2>4. \E why \in Reasons : Announced(why)'
    BY <1>6, <2>1, <2>2, <2>3 DEF Record, Announced, Truthful, ShuttingDown
  <2> QED
    BY <2>4 DEF LogInv
<1>7. CASE Return
  <2>1. CASE status' = "failed"
    <3>1. CASE Silent
      BY <1>7, <2>1, <3>1 DEF Return, Fail, LogInv, Silent
    <3>2. ASSUME NEW why \in Reasons, Announced(why) PROVE LogInv'
      <4>1. Truthful(why)'
        BY <3>2, TruthStays DEF Announced
      <4>2. Announced(why)'
        BY <1>7, <2>1, <3>2, <4>1 DEF Return, Fail, Announced, ShuttingDown
      <4> QED
        BY <4>2 DEF LogInv
    <3> QED
      BY <1>7, <3>1, <3>2 DEF Return, LogInv, Stopped, Finished
  <2>2. CASE status' = "clean" /\ log' = Append(log, ServerStopped)
    <3>1. CASE Silent
      <4>1. log' = <<ServerStopped>> /\ mode = "stdio"
        BY <1>7, <2>2, <3>1 DEF Return, Silent
      <4> QED
        BY <1>7, <2>2, <4>1 DEF Return, LogInv, Stopped, ServerStopped
    <3>2. ASSUME NEW why \in Reasons, Announced(why) PROVE LogInv'
      <4>1. Truthful(why)'
        BY <3>2, TruthStays DEF Announced
      <4>2. log' = <<ShuttingDown(why), ServerStopped>>
        BY <2>2, <3>2, AppendToOne DEF Announced
      <4>3. Finished(why)'
        BY <2>2, <4>1, <4>2 DEF Finished, ShuttingDown, ServerStopped
      <4> QED
        BY <4>3 DEF LogInv
    <3> QED
      BY <1>7, <3>1, <3>2 DEF Return, LogInv, Stopped, Finished
  <2> QED
    BY <1>7, <2>1, <2>2 DEF Return, Fail
<1>8. CASE Boot \/ Policy
  <2>1. log' = log /\ status' # "clean" /\ Silent
    BY <1>8, ModesAssumption
    DEF Boot, Policy, Fail, LogInv, Silent, Announced, Stopped, Finished
  <2> QED
    BY <1>8, <2>1 DEF Boot, Policy, LogInv, Silent
<1>9. CASE StartStdio \/ TakeServe \/ QueueReason \/ CancelRun \/ Settle \/ CollectServe
  BY <1>2, <1>9 DEF StartStdio, TakeServe, QueueReason, CancelRun, Settle, CollectServe
<1>10. CASE Wake \/ ReadReason \/ Drained(TRUE) \/ Drained(FALSE)
  BY <1>2, <1>10 DEF Wake, ReadReason, Drained
<1>11. CASE Surroundings
  BY <1>2, <1>11 DEF Surroundings, Signal, WatchEnds, Listen, ServeFails, ServeCloses,
                     ClientLeaves, SessionCanceled, RequestArrives, RequestEnds, ServeEnds
<1>12. CASE UNCHANGED vars
  BY <1>2, <1>12 DEF vars
<1> QED
  BY <1>3, <1>4, <1>5, <1>6, <1>7, <1>8, <1>9, <1>10, <1>11, <1>12
  DEF Next, Main, Shutter, Exited

\* A clean return has taken the outcome of the server, and knows no error.
LEMMA CleanExitStep == ASSUME IInv, [Next]_vars PROVE CleanExitIsAsked'
<1> USE ModesAssumption
    DEF IInv, Enumerations, PlaceInv, ResultInv, CauseInv, CleanExitIsAsked, None, WatchResults,
        ServeResults, context, watcher, server, shutter, locals, Running
<1>1. CASE Return
  <2>1. CASE watchErr \/ serveErr = "failure"
    BY <1>1, <2>1 DEF Return, Fail
  <2>2. CASE ~ watchErr /\ serveErr # "failure"
    <3>1. serveErr # None /\ serve = serveErr
      BY <1>1, <2>2 DEF Return
    <3>2. sigCtx = "signal" \/ serve = "eof"
      BY <1>1, <2>2, <3>1 DEF Return, ReasonInv
    <3>3. mode = "http" => serve = "closed"
      BY <2>2, <3>1
    <3> QED
      BY <1>1, <2>2, <3>1, <3>2, <3>3 DEF Return
  <2> QED
    BY <2>1, <2>2
<1>2. CASE Main /\ ~ Return
  BY <1>2 DEF Main, Boot, Policy, StartStdio, TakeSignal, TakeWatch, TakeServe, CheckSignal,
              QueueReason, CancelRun, Settle, CollectServe, Fail
<1>3. CASE Shutter
  BY <1>3 DEF Shutter, Wake, ReadReason, Record, Drained
<1>4. CASE Surroundings
  BY <1>4 DEF Surroundings, Signal, WatchEnds, Listen, ServeFails, ServeCloses, ClientLeaves,
              SessionCanceled, RequestArrives, RequestEnds, ServeEnds
<1>5. CASE UNCHANGED vars
  BY <1>5 DEF vars
<1> QED
  BY <1>1, <1>2, <1>3, <1>4, <1>5 DEF Next, Exited

\* The invariant holds in every state of the process.
LEMMA Inductive == Spec => []IInv
<1>1. IInv /\ [Next]_vars => IInv'
  BY EnumerationsStep, PlaceStep, GraceStep, ResultStep, CauseStep, ReasonStep, LogStep,
     CleanExitStep DEF IInv
<1> QED
  BY <1>1, InitIInv, PTL DEF Spec

-----------------------------------------------------------------------------
(* The theorems. *)

\* The records of a log of each form; Stops is where "server stopped" stands.
Stops == {i \in 1..Len(log) : log[i] = ServerStopped}

\* No record.
LEMMA RecordsOfSilence == ASSUME log = <<>> PROVE Shutdowns = {} /\ Stops = {}
BY DEF Shutdowns, Stops

\* A session over stdio that the client has ended.
LEMMA RecordsOfStop == ASSUME log = <<ServerStopped>> PROVE Shutdowns = {} /\ Stops = {1}
<1>1. Len(log) = 1 /\ log[1] = ServerStopped
  OBVIOUS
<1>2. log[1].record = "server stopped"
  BY <1>1 DEF ServerStopped
<1>3. 1..Len(log) = {1}
  BY <1>1
<1> QED
  BY <1>1, <1>2, <1>3 DEF Shutdowns, Stops

\* A shutdown under way, or one that ended in a failure.
LEMMA RecordsOfAnnouncement ==
  ASSUME NEW why, log = <<ShuttingDown(why)>>
  PROVE  Shutdowns = {1} /\ Stops = {} /\ log[1].reason = why
<1>1. Len(log) = 1 /\ log[1] = ShuttingDown(why)
  OBVIOUS
<1>2. log[1].record = "shutting down" /\ log[1].reason = why
  BY <1>1 DEF ShuttingDown
<1>3. ServerStopped.record = "server stopped"
  BY DEF ServerStopped
<1>4. 1..Len(log) = {1}
  BY <1>1
<1>5. log[1] # ServerStopped
  BY <1>2, <1>3
<1> QED
  BY <1>2, <1>4, <1>5 DEF Shutdowns, Stops

\* A clean shutdown.
LEMMA RecordsOfBoth ==
  ASSUME NEW why, log = <<ShuttingDown(why), ServerStopped>>
  PROVE  Shutdowns = {1} /\ Stops = {2} /\ Len(log) = 2 /\ log[1].reason = why
<1>1. Len(log) = 2 /\ log[1] = ShuttingDown(why) /\ log[2] = ServerStopped
  OBVIOUS
<1>2. log[1].record = "shutting down" /\ log[1].reason = why
  BY <1>1 DEF ShuttingDown
<1>3. ServerStopped.record = "server stopped"
  BY DEF ServerStopped
<1>4. 1..Len(log) = {1, 2}
  BY <1>1
<1>5. log[1] # ServerStopped
  BY <1>2, <1>3
<1> QED
  BY <1>1, <1>2, <1>3, <1>4, <1>5 DEF Shutdowns, Stops

\* Every shutting-down record names what ended the server (run's stopReason and
\* the order of queueing, canceling and waiting).
THEOREM RecordsAreTrue == Spec => []TruthfulRecord
<1>1. IInv => TruthfulRecord
  <2> SUFFICES ASSUME IInv, NEW i \in Shutdowns
               PROVE  Truthful(log[i].reason)
    BY DEF TruthfulRecord, Truthful
  <2>1. PICK why \in Reasons : Announced(why) \/ Finished(why)
    BY RecordsOfSilence, RecordsOfStop DEF IInv, LogInv, Silent, Stopped
  <2>2. i = 1 /\ log[1].reason = why
    BY <2>1, RecordsOfAnnouncement, RecordsOfBoth DEF Announced, Finished
  <2> QED
    BY <2>1, <2>2 DEF Announced, Finished
<1> QED
  BY <1>1, Inductive, PTL

\* A process that served HTTP ends with its record, and no process with two;
\* exactly the clean ones end with "server stopped".
THEOREM OneRecordEach == Spec => []OneRecord
<1>1. IInv => OneRecord
  <2> SUFFICES ASSUME IInv, status # None PROVE OneRecord
    BY DEF OneRecord
  <2>1. Cardinality({}) = 0 /\ Cardinality({1}) = 1
    BY FS_EmptySet, FS_Singleton
  <2>2. CASE Silent
    <3>1. Shutdowns = {} /\ Stops = {} /\ status # "clean" /\ shutdown = "off"
      BY <2>2, RecordsOfSilence DEF Silent, IInv, PlaceInv, None
    <3> QED
      BY <3>1, <2>1 DEF OneRecord, Stops
  <2>3. CASE Stopped
    <3>1. Shutdowns = {} /\ Stops = {1} /\ Len(log) = 1 /\ status = "clean" /\ shutdown = "off"
      BY <2>3, RecordsOfStop DEF Stopped, IInv, PlaceInv
    <3> QED
      BY <3>1, <2>1 DEF OneRecord, Stops
  <2>4. ASSUME NEW why \in Reasons, Announced(why) PROVE OneRecord
    <3>1. Shutdowns = {1} /\ Stops = {} /\ status # "clean"
      BY <2>4, RecordsOfAnnouncement DEF Announced
    <3> QED
      BY <3>1, <2>1 DEF OneRecord, Stops
  <2>5. ASSUME NEW why \in Reasons, Finished(why) PROVE OneRecord
    <3>1. Shutdowns = {1} /\ Stops = {2} /\ Len(log) = 2 /\ status = "clean"
      BY <2>5, RecordsOfBoth DEF Finished
    <3> QED
      BY <3>1, <2>1 DEF OneRecord, Stops
  <2> QED
    BY <2>2, <2>3, <2>4, <2>5 DEF IInv, LogInv
<1> QED
  BY <1>1, Inductive, PTL

\* Status zero is for a signal or a client that left, never for a failure of
\* the server that run has seen.
THEOREM CleanExitsAreAsked == Spec => []CleanExitIsAsked
<1>1. IInv => CleanExitIsAsked
  BY DEF IInv
<1> QED
  BY <1>1, Inductive, PTL

\* However the server ends, requests in flight had their five seconds.
THEOREM RequestsAreDrained == Spec => []DrainsBeforeExit
<1>1. IInv => DrainsBeforeExit
  BY ModesAssumption DEF IInv, Enumerations, PlaceInv, GraceInv, DrainsBeforeExit
<1> QED
  BY <1>1, Inductive, PTL

\* What Shutdown returned, and what run knows of the watcher, are truth values.
Errors == graceExpired \in BOOLEAN /\ watchErr \in BOOLEAN

\* Only Shutdown's return and run's receiving of the watcher's result set them.
LEMMA ErrorsStep == ASSUME Errors, [Next]_vars PROVE Errors'
<1> USE DEF Errors, context, watcher, server, shutter, locals
<1>1. CASE TakeWatch
  <2>1. graceExpired' = graceExpired
    BY <1>1 DEF TakeWatch
  <2>2. watchErr' \in BOOLEAN
    BY <1>1, Zenon DEF TakeWatch
  <2> QED
    BY <2>1, <2>2
<1>2. ASSUME NEW expired, Drained(expired) PROVE Errors'
  <2>1. watchErr' = watchErr
    BY <1>2 DEF Drained
  <2>2. (requests > 0) \in BOOLEAN
    OBVIOUS
  <2>3. graceExpired' = (requests > 0)
    BY <1>2, Zenon DEF Drained
  <2>4. graceExpired' \in BOOLEAN
    BY <2>2, <2>3, Zenon
  <2> QED
    BY <2>1, <2>4
<1>3. CASE Main /\ ~ TakeWatch
  BY <1>3 DEF Main, Boot, Policy, StartStdio, TakeSignal, TakeServe, CheckSignal, QueueReason,
              CancelRun, Settle, CollectServe, Return, Fail
<1>4. CASE Wake \/ ReadReason \/ Record
  BY <1>4 DEF Wake, ReadReason, Record
<1>5. CASE Surroundings
  BY <1>5 DEF Surroundings, Signal, WatchEnds, Listen, ServeFails, ServeCloses, ClientLeaves,
              SessionCanceled, RequestArrives, RequestEnds, ServeEnds
<1>6. CASE UNCHANGED vars
  BY <1>6 DEF vars
<1> QED
  BY <1>1, <1>2, <1>3, <1>4, <1>5, <1>6 DEF Next, Shutter, Exited

\* Short sequences of a set's elements.
LEMMA ShortSequences ==
  ASSUME NEW S
  PROVE  <<>> \in Seq(S) /\ \A x, y \in S : <<x>> \in Seq(S) /\ <<x, y>> \in Seq(S)
OBVIOUS

\* Every variable has its type, in both transports and with any number of
\* requests: the log in particular holds records of the two kinds only.
THEOREM TypeCorrect == Spec => []TypeOK
<1>1. Init => Errors
  BY DEF Init, Errors
<1>2. IInv /\ Errors => TypeOK
  <2> DEFINE Records == {ShuttingDown(why) : why \in Reasons} \cup {ServerStopped}
  <2> SUFFICES ASSUME LogInv PROVE log \in Seq(Records)
    BY DEF IInv, Errors, TypeOK
  <2>1. ServerStopped \in Records /\ \A why \in Reasons : ShuttingDown(why) \in Records
    OBVIOUS
  <2> HIDE DEF Records
  <2>2. CASE log = <<>> \/ log = <<ServerStopped>>
    BY <2>1, <2>2, ShortSequences
  <2>3. ASSUME NEW why \in Reasons,
               log = <<ShuttingDown(why)>> \/ log = <<ShuttingDown(why), ServerStopped>>
        PROVE  log \in Seq(Records)
    BY <2>1, <2>3, ShortSequences
  <2> QED
    BY <2>2, <2>3 DEF LogInv, Silent, Stopped, Announced, Finished
<1> QED
  BY <1>1, <1>2, ErrorsStep, Inductive, PTL DEF Spec
=============================================================================
