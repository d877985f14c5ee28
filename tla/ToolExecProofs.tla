--------------------------- MODULE ToolExecProofs ---------------------------
(***************************************************************************)
(* ToolExec for every number of calls, finite or not, and every slot limit.*)
(***************************************************************************)
EXTENDS ToolExec, FiniteSetTheorems, TLAPS

-----------------------------------------------------------------------------
(* The inductive invariant. *)

\* The slots.
SlotInv == /\ IsFiniteSet(InFlight)
           /\ held = Cardinality(InFlight)
           /\ held <= limit

\* Which states of the script and of the watcher go with which place of the
\* handler.
StageInv(c) ==
  /\ pc[c] \in {"new", "start"} => proc[c] = "none"
  /\ pc[c] = "wait" => proc[c] \in {"running", "dying", "exited"}
  /\ pc[c] \in {"handoff", "drain", "classify"} => proc[c] = "reaped"
  /\ pc[c] = "done" => proc[c] \in {"none", "reaped"}
  /\ watcher[c] # "off" => pc[c] \in {"wait", "handoff"}
  /\ watcher[c] \in {"grace", "closed"} => proc[c] # "running"

\* The kill of the group comes before the script is gone, and no descendant
\* appears after it.
KillInv(c) ==
  /\ proc[c] = "dying" => "group" \notin kids[c]
  /\ code[c] = "signal" => "group" \notin kids[c] /\ proc[c] \in {"exited", "reaped"}

\* Wait reports no error only for exit status zero and pipes at their end.
WaitInv(c) ==
  /\ watcher[c] \in {"grace", "closed"} /\ watchErr[c] = "nil" => proc[c] = "reaped"
  /\ watcher[c] = "closed" /\ watchErr[c] = "nil" => kids[c] = {}
  /\ pc[c] \in {"drain", "classify"} /\ waitErr[c] = "nil" => code[c] = "zero"
  /\ pc[c] = "classify" /\ waitErr[c] = "nil" => kids[c] = {}
  /\ reason[c] = "ok" => pc[c] = "done" /\ proc[c] = "reaped"
                         /\ code[c] = "zero" /\ kids[c] = {}

CallInv(c) == StageInv(c) /\ KillInv(c) /\ WaitInv(c)

IInv == TypeOK /\ SlotInv /\ \A c \in Calls : CallInv(c)

\* There is at least one slot.
LEMMA LimitType == limit \in Nat \ {0}
BY MaxConcurrentAssumption DEF limit, defaultMaxConcurrentTools

\* No call has begun and no slot is taken.
LEMMA InitIInv == Init => IInv
<1> SUFFICES ASSUME Init PROVE IInv
  OBVIOUS
<1>1. TypeOK
  <2>1. timed \in [Calls -> BOOLEAN]
    BY Zenon DEF Init
  <2> QED
    BY <2>1 DEF Init, TypeOK, Executing, Errors, Failures
<1>2. SlotInv
  <2>1. InFlight = {}
    BY DEF Init, InFlight, Executing
  <2> QED
    BY <2>1, FS_EmptySet, LimitType DEF Init, SlotInv
<1>3. \A c \in Calls : CallInv(c)
  BY DEF Init, CallInv, StageInv, KillInv, WaitInv
<1> QED
  BY <1>1, <1>2, <1>3 DEF IInv

-----------------------------------------------------------------------------
(* Slots. *)

\* A call enters when a slot is free and takes it.
LEMMA EnterKeepsSlotInv ==
  ASSUME IInv, NEW c \in Calls, Acquire(c)
  PROVE  SlotInv'
<1>1. InFlight' = InFlight \cup {c} /\ c \notin InFlight
  BY DEF Acquire, InFlight, Executing, IInv, TypeOK
<1>2. held' = held + 1 /\ held < limit /\ held \in Nat
  BY DEF Acquire, IInv, TypeOK
<1>3. IsFiniteSet(InFlight') /\ Cardinality(InFlight') = Cardinality(InFlight) + 1
  BY <1>1, FS_AddElement DEF IInv, SlotInv
<1>4. limit' = limit
  BY DEF limit
<1> QED
  BY <1>2, <1>3, <1>4, LimitType DEF IInv, SlotInv

\* A call leaves and gives its slot back.
LEMMA LeaveKeepsSlotInv ==
  ASSUME IInv, NEW c \in Calls, pc[c] \in Executing, release,
         pc' = [pc EXCEPT ![c] = "done"]
  PROVE  SlotInv' /\ held' \in Nat
<1>1. InFlight' = InFlight \ {c} /\ c \in InFlight
  BY DEF InFlight, Executing, IInv, TypeOK
<1>2. IsFiniteSet(InFlight') /\ Cardinality(InFlight') = Cardinality(InFlight) - 1
  BY <1>1, FS_RemoveElement DEF IInv, SlotInv
<1>3. held = Cardinality(InFlight) /\ held \in Nat /\ held <= limit /\ held' = held - 1
  BY DEF IInv, SlotInv, TypeOK, release
<1>4. held # 0
  BY <1>1, <1>3, FS_EmptySet DEF IInv, SlotInv
<1>5. limit' = limit
  BY DEF limit
<1> QED
  BY <1>2, <1>3, <1>4, <1>5, LimitType DEF SlotInv

\* A step within executeTool moves no slot.
LEMMA StayKeepsSlotInv ==
  ASSUME IInv, held' = held, InFlight' = InFlight
  PROVE  SlotInv'
BY DEF IInv, SlotInv, limit

-----------------------------------------------------------------------------
(* Steps. *)

\* The state of one call; a step changes it for one call only.
LEMMA OtherCallsKeepInv ==
  ASSUME NEW c \in Calls, CallInv(c),
         pc'[c] = pc[c], proc'[c] = proc[c], code'[c] = code[c], kids'[c] = kids[c],
         watcher'[c] = watcher[c], watchErr'[c] = watchErr[c],
         waitErr'[c] = waitErr[c], reason'[c] = reason[c]
  PROVE  CallInv(c)'
BY DEF CallInv, StageInv, KillInv, WaitInv

\* One step of one call keeps the types and the invariant of every call.
LEMMA RequestKeepsCallInv ==
  ASSUME TypeOK, \A d \in Calls : CallInv(d), NEW c \in Calls, Request(c)
  PROVE  TypeOK' /\ \A d \in Calls : CallInv(d)'
<1>1. CASE Reject(c)
  <2>1. TypeOK'
    BY <1>1 DEF Reject, Finish, procVars, watchVars, TypeOK, Executing, Errors, Failures
  <2>2. CallInv(c)'
    BY <1>1 DEF Reject, Finish, procVars, watchVars, TypeOK, CallInv, StageInv, KillInv, WaitInv
  <2>3. ASSUME NEW d \in Calls, d # c PROVE CallInv(d)'
    BY <1>1, <2>3, OtherCallsKeepInv DEF Reject, Finish, procVars, watchVars, TypeOK
  <2> QED
    BY <2>1, <2>2, <2>3
<1>2. CASE AtCapacity(c)
  <2>1. TypeOK'
    BY <1>2 DEF AtCapacity, Finish, procVars, watchVars, TypeOK, Executing, Errors, Failures
  <2>2. CallInv(c)'
    BY <1>2 DEF AtCapacity, Finish, procVars, watchVars, TypeOK, CallInv, StageInv, KillInv, WaitInv
  <2>3. ASSUME NEW d \in Calls, d # c PROVE CallInv(d)'
    BY <1>2, <2>3, OtherCallsKeepInv DEF AtCapacity, Finish, procVars, watchVars, TypeOK
  <2> QED
    BY <2>1, <2>2, <2>3
<1>3. CASE Acquire(c)
  <2>1. TypeOK'
    <3>1. held' \in Nat
      <4>1. held \in Nat /\ held' = held + 1
        BY <1>3, Zenon DEF Acquire, TypeOK
      <4> QED
        BY <4>1
    <3>2. pc' \in [Calls -> {"new", "done"} \cup Executing]
      BY <1>3 DEF Acquire, TypeOK, Executing
    <3> QED
      BY <1>3, <3>1, <3>2 DEF Acquire, procVars, watchVars, TypeOK
  <2>2. CallInv(c)'
    BY <1>3 DEF Acquire, procVars, watchVars, TypeOK, CallInv, StageInv, KillInv, WaitInv
  <2>3. ASSUME NEW d \in Calls, d # c PROVE CallInv(d)'
    BY <1>3, <2>3, OtherCallsKeepInv DEF Acquire, procVars, watchVars, TypeOK
  <2> QED
    BY <2>1, <2>2, <2>3
<1> QED
  BY <1>1, <1>2, <1>3 DEF Request

\* The ways out of the handler.
LEMMA LeaveKeepsCallInv ==
  ASSUME TypeOK, held' \in Nat, \A d \in Calls : CallInv(d), NEW c \in Calls,
         RejectKey(c) \/ StartFails(c) \/ Return(c)
  PROVE  TypeOK' /\ \A d \in Calls : CallInv(d)'
<1>1. CASE RejectKey(c)
  <2>1. TypeOK'
    BY <1>1 DEF RejectKey, Finish, procVars, watchVars, TypeOK, Executing, Errors, Failures
  <2>2. CallInv(c)'
    BY <1>1 DEF RejectKey, Finish, procVars, watchVars, TypeOK, CallInv, StageInv, KillInv, WaitInv
  <2>3. ASSUME NEW d \in Calls, d # c PROVE CallInv(d)'
    BY <1>1, <2>3, OtherCallsKeepInv DEF RejectKey, Finish, procVars, watchVars, TypeOK
  <2> QED
    BY <2>1, <2>2, <2>3
<1>2. CASE StartFails(c)
  <2>1. TypeOK'
    BY <1>2 DEF StartFails, Finish, procVars, watchVars, TypeOK, Executing, Errors, Failures
  <2>2. CallInv(c)'
    BY <1>2 DEF StartFails, Finish, procVars, watchVars, TypeOK, CallInv, StageInv, KillInv, WaitInv
  <2>3. ASSUME NEW d \in Calls, d # c PROVE CallInv(d)'
    BY <1>2, <2>3, OtherCallsKeepInv DEF StartFails, Finish, procVars, watchVars, TypeOK
  <2> QED
    BY <2>1, <2>2, <2>3
<1>3. CASE Return(c)
  <2>1. TypeOK'
    BY <1>3 DEF Return, Finish, Classification, procVars, watchVars, TypeOK, Executing, Errors, Failures
  <2>2. CallInv(c)'
    BY <1>3 DEF Return, Finish, Classification, procVars, watchVars, TypeOK, CallInv, StageInv,
                KillInv, WaitInv
  <2>3. ASSUME NEW d \in Calls, d # c PROVE CallInv(d)'
    BY <1>3, <2>3, OtherCallsKeepInv DEF Return, Finish, Classification, procVars, watchVars, TypeOK
  <2> QED
    BY <2>1, <2>2, <2>3
<1> QED
  BY <1>1, <1>2, <1>3

\* The steps of Start and Wait.
LEMMA WaitKeepsCallInv ==
  ASSUME TypeOK, \A d \in Calls : CallInv(d), NEW c \in Calls,
         Start(c) \/ Reap(c) \/ Handoff(c) \/ Drain(c) \/ DrainEnds(c)
  PROVE  TypeOK' /\ \A d \in Calls : CallInv(d)'
<1>1. CASE Start(c)
  <2>1. TypeOK'
    BY <1>1 DEF Start, TypeOK, Executing, Errors, Failures
  <2>2. CallInv(c)'
    BY <1>1 DEF Start, TypeOK, CallInv, StageInv, KillInv, WaitInv
  <2>3. ASSUME NEW d \in Calls, d # c PROVE CallInv(d)'
    BY <1>1, <2>3, OtherCallsKeepInv DEF Start, TypeOK
  <2> QED
    BY <2>1, <2>2, <2>3
<1>2. CASE Reap(c)
  <2>1. TypeOK'
    BY <1>2 DEF Reap, watchVars, TypeOK, Executing, Errors, Failures
  <2>2. CallInv(c)'
    BY <1>2 DEF Reap, watchVars, TypeOK, CallInv, StageInv, KillInv, WaitInv
  <2>3. ASSUME NEW d \in Calls, d # c PROVE CallInv(d)'
    BY <1>2, <2>3, OtherCallsKeepInv DEF Reap, watchVars, TypeOK
  <2> QED
    BY <2>1, <2>2, <2>3
<1>3. CASE Handoff(c)
  <2>1. TypeOK'
    BY <1>3 DEF Handoff, procVars, TypeOK, Executing, Errors, Failures
  <2>2. CallInv(c)'
    BY <1>3 DEF Handoff, procVars, TypeOK, CallInv, StageInv, KillInv, WaitInv
  <2>3. ASSUME NEW d \in Calls, d # c PROVE CallInv(d)'
    BY <1>3, <2>3, OtherCallsKeepInv DEF Handoff, procVars, TypeOK
  <2> QED
    BY <2>1, <2>2, <2>3
<1>4. CASE Drain(c)
  <2>1. TypeOK'
    BY <1>4 DEF Drain, procVars, watchVars, TypeOK, Executing, Errors, Failures
  <2>2. CallInv(c)'
    BY <1>4 DEF Drain, procVars, watchVars, TypeOK, CallInv, StageInv, KillInv, WaitInv
  <2>3. ASSUME NEW d \in Calls, d # c PROVE CallInv(d)'
    BY <1>4, <2>3, OtherCallsKeepInv DEF Drain, procVars, watchVars, TypeOK
  <2> QED
    BY <2>1, <2>2, <2>3
<1>5. CASE DrainEnds(c)
  <2>1. TypeOK'
    BY <1>5 DEF DrainEnds, procVars, watchVars, TypeOK, Executing, Errors, Failures
  <2>2. CallInv(c)'
    BY <1>5 DEF DrainEnds, procVars, watchVars, TypeOK, CallInv, StageInv, KillInv, WaitInv
  <2>3. ASSUME NEW d \in Calls, d # c PROVE CallInv(d)'
    BY <1>5, <2>3, OtherCallsKeepInv DEF DrainEnds, procVars, watchVars, TypeOK
  <2> QED
    BY <2>1, <2>2, <2>3
<1> QED
  BY <1>1, <1>2, <1>3, <1>4, <1>5

\* The deadline, the abort and the kill.
LEMMA KillKeepsCallInv ==
  ASSUME TypeOK, \A d \in Calls : CallInv(d), NEW c \in Calls,
         Die(c) \/ Deadline(c) \/ ClientCancels(c) \/ Kill(c) \/ GraceEnds(c)
  PROVE  TypeOK' /\ \A d \in Calls : CallInv(d)'
<1>1. CASE Die(c)
  <2>1. TypeOK'
    BY <1>1 DEF Die, watchVars, TypeOK, Executing, Errors, Failures
  <2>2. CallInv(c)'
    BY <1>1 DEF Die, watchVars, TypeOK, CallInv, StageInv, KillInv, WaitInv
  <2>3. ASSUME NEW d \in Calls, d # c PROVE CallInv(d)'
    BY <1>1, <2>3, OtherCallsKeepInv DEF Die, watchVars, TypeOK
  <2> QED
    BY <2>1, <2>2, <2>3
<1>2. CASE Deadline(c)
  <2>1. TypeOK'
    BY <1>2 DEF Deadline, procVars, watchVars, TypeOK, Executing, Errors, Failures
  <2>2. CallInv(c)'
    BY <1>2 DEF Deadline, procVars, watchVars, TypeOK, CallInv, StageInv, KillInv, WaitInv
  <2>3. ASSUME NEW d \in Calls, d # c PROVE CallInv(d)'
    BY <1>2, <2>3, OtherCallsKeepInv DEF Deadline, procVars, watchVars, TypeOK
  <2> QED
    BY <2>1, <2>2, <2>3
<1>3. CASE ClientCancels(c)
  <2>1. TypeOK'
    BY <1>3 DEF ClientCancels, procVars, watchVars, TypeOK, Executing, Errors, Failures
  <2>2. CallInv(c)'
    BY <1>3 DEF ClientCancels, procVars, watchVars, TypeOK, CallInv, StageInv, KillInv, WaitInv
  <2>3. ASSUME NEW d \in Calls, d # c PROVE CallInv(d)'
    BY <1>3, <2>3, OtherCallsKeepInv DEF ClientCancels, procVars, watchVars, TypeOK
  <2> QED
    BY <2>1, <2>2, <2>3
<1>4. CASE Kill(c)
  <2>1. TypeOK'
    BY <1>4 DEF Kill, Killed, TypeOK, Executing, Errors, Failures
  <2>2. CallInv(c)'
    <3>1. StageInv(c)'
      BY <1>4 DEF Kill, Killed, TypeOK, CallInv, StageInv
    <3>2. KillInv(c)'
      BY <1>4 DEF Kill, Killed, TypeOK, CallInv, KillInv
    <3>3. WaitInv(c)'
      <4>1. /\ watcher'[c] = "grace"
            /\ watchErr'[c] = "nil" => proc[c] = "reaped"
            /\ proc[c] = "reaped" => proc'[c] = "reaped"
            /\ kids'[c] \subseteq kids[c]
        BY <1>4 DEF Kill, Killed, TypeOK
      <4>2. pc' = pc /\ code' = code /\ waitErr' = waitErr /\ reason' = reason
        BY <1>4 DEF Kill
      <4> QED
        BY <4>1, <4>2 DEF CallInv, WaitInv
    <3> QED
      BY <3>1, <3>2, <3>3 DEF CallInv
  <2>3. ASSUME NEW d \in Calls, d # c PROVE CallInv(d)'
    BY <1>4, <2>3, OtherCallsKeepInv DEF Kill, Killed, TypeOK
  <2> QED
    BY <2>1, <2>2, <2>3
<1>5. CASE GraceEnds(c)
  <2>1. TypeOK'
    BY <1>5 DEF GraceEnds, Killed, TypeOK, Executing, Errors, Failures
  <2>2. CallInv(c)'
    BY <1>5 DEF GraceEnds, Killed, TypeOK, CallInv, StageInv, KillInv, WaitInv
  <2>3. ASSUME NEW d \in Calls, d # c PROVE CallInv(d)'
    BY <1>5, <2>3, OtherCallsKeepInv DEF GraceEnds, Killed, TypeOK
  <2> QED
    BY <2>1, <2>2, <2>3
<1> QED
  BY <1>1, <1>2, <1>3, <1>4, <1>5

\* What a script does.
LEMMA ScriptKeepsCallInv ==
  ASSUME TypeOK, \A d \in Calls : CallInv(d), NEW c \in Calls, Script(c)
  PROVE  TypeOK' /\ \A d \in Calls : CallInv(d)'
<1>1. ASSUME NEW kind \in Kinds, Spawn(c, kind)
      PROVE  TypeOK' /\ \A d \in Calls : CallInv(d)'
  <2>1. TypeOK'
    BY <1>1 DEF Spawn, watchVars, TypeOK, Executing, Errors, Failures
  <2>2. CallInv(c)'
    BY <1>1 DEF Spawn, watchVars, TypeOK, CallInv, StageInv, KillInv, WaitInv
  <2>3. ASSUME NEW d \in Calls, d # c PROVE CallInv(d)'
    BY <1>1, <2>3, OtherCallsKeepInv DEF Spawn, watchVars, TypeOK
  <2> QED
    BY <2>1, <2>2, <2>3
<1>2. ASSUME NEW kind \in Kinds, KidEnds(c, kind)
      PROVE  TypeOK' /\ \A d \in Calls : CallInv(d)'
  <2>1. TypeOK'
    BY <1>2 DEF KidEnds, watchVars, TypeOK, Executing, Errors, Failures
  <2>2. CallInv(c)'
    BY <1>2 DEF KidEnds, watchVars, TypeOK, CallInv, StageInv, KillInv, WaitInv
  <2>3. ASSUME NEW d \in Calls, d # c PROVE CallInv(d)'
    BY <1>2, <2>3, OtherCallsKeepInv DEF KidEnds, watchVars, TypeOK
  <2> QED
    BY <2>1, <2>2, <2>3
<1>3. ASSUME NEW how \in {"zero", "nonzero"}, Exit(c, how)
      PROVE  TypeOK' /\ \A d \in Calls : CallInv(d)'
  <2>1. TypeOK'
    BY <1>3 DEF Exit, watchVars, TypeOK, Executing, Errors, Failures
  <2>2. CallInv(c)'
    BY <1>3 DEF Exit, watchVars, TypeOK, CallInv, StageInv, KillInv, WaitInv
  <2>3. ASSUME NEW d \in Calls, d # c PROVE CallInv(d)'
    BY <1>3, <2>3, OtherCallsKeepInv DEF Exit, watchVars, TypeOK
  <2> QED
    BY <2>1, <2>2, <2>3
<1> QED
  BY <1>1, <1>2, <1>3 DEF Script

\* A request arrives.
LEMMA RequestKeepsIInv ==
  ASSUME IInv, NEW c \in Calls, Request(c)
  PROVE  IInv'
<1>1. SlotInv'
  <2>1. CASE Acquire(c)
    BY <2>1, EnterKeepsSlotInv
  <2>2. CASE Reject(c) \/ AtCapacity(c)
    <3>1. pc[c] = "new" /\ pc' = [pc EXCEPT ![c] = "done"]
      BY <2>2 DEF Reject, AtCapacity, Finish
    <3>2. \A d \in Calls : pc'[d] \in Executing <=> pc[d] \in Executing
      BY <3>1 DEF Executing, IInv, TypeOK
    <3>3. InFlight' = InFlight
      BY <3>2 DEF InFlight
    <3> QED
      BY <2>2, <3>3, StayKeepsSlotInv DEF Reject, AtCapacity
  <2> QED
    BY <2>1, <2>2 DEF Request
<1> QED
  BY <1>1, RequestKeepsCallInv DEF IInv

\* A call leaves executeTool.
LEMMA LeaveKeepsIInv ==
  ASSUME IInv, NEW c \in Calls, RejectKey(c) \/ StartFails(c) \/ Return(c)
  PROVE  IInv'
<1>1. pc[c] \in Executing /\ release /\ pc' = [pc EXCEPT ![c] = "done"]
  BY DEF RejectKey, StartFails, Return, Finish, Executing
<1>2. SlotInv' /\ held' \in Nat
  BY <1>1, LeaveKeepsSlotInv
<1> QED
  BY <1>2, LeaveKeepsCallInv DEF IInv

\* A call goes on inside executeTool.
LEMMA WaitKeepsIInv ==
  ASSUME IInv, NEW c \in Calls,
         Start(c) \/ Reap(c) \/ Handoff(c) \/ Drain(c) \/ DrainEnds(c)
  PROVE  IInv'
<1>1. held' = held /\ pc[c] \in Executing
      /\ \E s \in Executing : pc' = [pc EXCEPT ![c] = s]
  BY DEF Start, Reap, Handoff, Drain, DrainEnds, Executing
<1>2. InFlight' = InFlight
  BY <1>1 DEF InFlight, IInv, TypeOK
<1>3. SlotInv'
  BY <1>1, <1>2, StayKeepsSlotInv
<1> QED
  BY <1>3, WaitKeepsCallInv DEF IInv

\* The surroundings move.
LEMMA EnvironmentKeepsIInv ==
  ASSUME IInv, NEW c \in Calls,
         \/ Script(c) \/ Die(c) \/ Deadline(c) \/ ClientCancels(c)
         \/ Kill(c) \/ GraceEnds(c)
  PROVE  IInv'
<1>1. pc' = pc /\ held' = held
  BY DEF Script, Spawn, KidEnds, Exit, Die, Deadline, ClientCancels, Kill, GraceEnds
<1>2. SlotInv'
  BY <1>1, StayKeepsSlotInv DEF InFlight
<1> QED
  BY <1>2, ScriptKeepsCallInv, KillKeepsCallInv DEF IInv

\* Every step keeps the invariant.
LEMMA NextKeepsIInv == IInv /\ [Next]_vars => IInv'
<1> SUFFICES ASSUME IInv, [Next]_vars PROVE IInv'
  OBVIOUS
<1>1. CASE UNCHANGED vars
  BY <1>1 DEF vars, procVars, watchVars, IInv, TypeOK, SlotInv, InFlight, limit,
              CallInv, StageInv, KillInv, WaitInv
<1>2. CASE Next
  BY <1>1, <1>2, RequestKeepsIInv, LeaveKeepsIInv, WaitKeepsIInv, EnvironmentKeepsIInv
     DEF Next, Handler, Done
<1> QED
  BY <1>1, <1>2

\* The invariant of the calls.
LEMMA IInvHolds == Spec => []IInv
BY InitIInv, NextKeepsIInv, PTL DEF Spec

-----------------------------------------------------------------------------
(* The properties. *)

\* Every variable keeps its type; the slot counter never goes below zero.
THEOREM TypeCorrect == Spec => []TypeOK
BY IInvHolds, PTL DEF IInv

\* No path through the handler leaks a slot or gives one back twice.
THEOREM SlotsAreConserved == Spec => []SlotConservation
<1>1. IInv => SlotConservation
  BY DEF IInv, SlotInv, SlotConservation
<1> QED
  BY <1>1, IInvHolds, PTL

\* Never more scripts than slots, for any number of calls.
THEOREM ScriptsAreBounded == Spec => []ScriptsBounded
<1>1. IInv => ScriptsBounded
  <2> SUFFICES ASSUME IInv PROVE ScriptsBounded
    OBVIOUS
  <2> DEFINE S == {c \in Calls : proc[c] \in {"running", "dying", "exited"}}
  <2>1. S \subseteq InFlight
    BY DEF IInv, TypeOK, CallInv, StageInv, InFlight, Executing
  <2>2. IsFiniteSet(InFlight) /\ Cardinality(InFlight) <= limit
    BY DEF IInv, SlotInv
  <2>3. Cardinality(S) <= Cardinality(InFlight)
    BY <2>1, <2>2, FS_Subset
  <2>4. Cardinality(S) \in Nat /\ Cardinality(InFlight) \in Nat
    BY <2>1, <2>2, FS_Subset, FS_CardinalityType
  <2> QED
    BY <2>2, <2>3, <2>4, LimitType DEF ScriptsBounded
<1> QED
  BY <1>1, IInvHolds, PTL

\* A call that returned has no script.
THEOREM ScriptsEndFirst == Spec => []NoScriptOutlivesCall
<1>1. IInv => NoScriptOutlivesCall
  BY DEF IInv, CallInv, StageInv, NoScriptOutlivesCall
<1> QED
  BY <1>1, IInvHolds, PTL

\* A success is exit status zero with the whole output.
THEOREM SuccessesAreComplete == Spec => []SuccessIsComplete
<1>1. IInv => SuccessIsComplete
  BY DEF IInv, CallInv, WaitInv, SuccessIsComplete
<1> QED
  BY <1>1, IInvHolds, PTL

\* A killed script takes its group with it.
THEOREM KillsAreComplete == Spec => []KillTakesGroup
<1>1. IInv => KillTakesGroup
  BY DEF IInv, CallInv, KillInv, KillTakesGroup
<1> QED
  BY <1>1, IInvHolds, PTL
==============================================================================
