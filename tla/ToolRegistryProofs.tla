------------------------- MODULE ToolRegistryProofs -------------------------
(***************************************************************************)
(* ToolRegistry for every set of writers and every set of tool lists.      *)
(***************************************************************************)
EXTENDS ToolRegistry, TLAPS

-----------------------------------------------------------------------------
(* What the operators compute. *)

\* A list serves each of its tools under the tool's own registration: names
\* are unique in a list, so the lookup finds that very tool.
LEMMA RegisteredLookup ==
  ASSUME NEW list \in ToolLists, NEW tool \in Elements(list)
  PROVE  /\ tool \in Tools
         /\ tool.name \in Names
         /\ tool.name \in ListNames(list)
         /\ Registered(list)[tool.name] = Registration(tool)
<1>1. tool \in Tools /\ tool.name \in Names /\ tool.name \in ListNames(list)
  BY DEF Tools, Names, ListNames
<1>2. \A other \in Elements(list) : other.name = tool.name => other = tool
  BY ToolListsAssumption DEF Elements
<1>3. (CHOOSE other \in Elements(list) : other.name = tool.name) = tool
  BY <1>2
<1> QED
  BY <1>1, <1>3 DEF Registered

\* The names of a list are names, and each belongs to one of its tools.
LEMMA ListNamesAreNames ==
  ASSUME NEW list \in ToolLists
  PROVE  /\ ListNames(list) \subseteq Names
         /\ \A n \in ListNames(list) : \E tool \in Elements(list) : tool.name = n
BY DEF ListNames, Names, Tools

\* The table a list asks for has the type of the SDK table, and a name has a
\* registration in it exactly when the list names it.
LEMMA RegisteredType ==
  ASSUME NEW list \in ToolLists
  PROVE  /\ Registered(list) \in
              [Names -> {Registration(tool) : tool \in Tools} \cup {NoTool}]
         /\ \A n \in Names : Registered(list)[n] # NoTool <=> n \in ListNames(list)
<1>1. ASSUME NEW n \in Names
      PROVE  /\ Registered(list)[n] \in
                   {Registration(tool) : tool \in Tools} \cup {NoTool}
             /\ Registered(list)[n] # NoTool <=> n \in ListNames(list)
  <2>1. CASE n \in ListNames(list)
    <3>1. PICK tool \in Elements(list) : tool.name = n
      BY <2>1, ListNamesAreNames
    <3>2. Registered(list)[n] = Registration(tool) /\ tool \in Tools
      BY <3>1, RegisteredLookup
    <3> QED
      BY <2>1, <3>2, MarksAssumption
  <2>2. CASE n \notin ListNames(list)
    BY <2>2 DEF Registered
  <2> QED
    BY <2>1, <2>2
<1> QED
  BY <1>1 DEF Registered

\* A tool the add loop skips has the same registration in the old list and in
\* the new one: toolEqual compares everything addToolLocked uses.
LEMMA KeptKeepsRegistration ==
  ASSUME NEW previous \in ToolLists, NEW tool \in Tools, Kept(previous, tool)
  PROVE  Registered(previous)[tool.name] = Registration(tool)
<1>1. PICK prev \in Elements(previous) : prev.name = tool.name /\ toolEqual(prev, tool)
  BY DEF Kept
<1>2. Registered(previous)[tool.name] = Registration(prev)
  BY <1>1, RegisteredLookup
<1>3. Registration(prev) = Registration(tool)
  BY <1>1 DEF Registration, registeredDescription, resolveToolTimeout, toolEqual
<1> QED
  BY <1>2, <1>3

\* Re-applying an equal list has nothing to remove and nothing to add.
LEMMA EqualListsKeepAll ==
  ASSUME NEW previous \in ToolLists, NEW tools \in ToolLists,
         toolsEqual(previous, tools)
  PROVE  /\ Removed(previous, tools) = {}
         /\ \A i \in DOMAIN tools : Kept(previous, tools[i])
<1>1. DOMAIN previous = DOMAIN tools
  BY ToolListsAssumption DEF toolsEqual
<1>2. ListNames(previous) = ListNames(tools)
  BY <1>1 DEF toolsEqual, ListNames, Elements
<1> QED
  BY <1>1, <1>2 DEF toolsEqual, Removed, Kept, Elements

-----------------------------------------------------------------------------
(* The inductive invariant. *)

\* The mutex is held exactly by the writer that is inside replaceLocked.
MutexInv == \A w \in Writers : mu = w <=> pc[w] \in {"remove", "add"}

\* The add loop has moved the names before its index, and the names that
\* left, to the new list; all the others are still as in the baseline.
LoopInv ==
  \A w \in Writers : pc[w] = "add" =>
    /\ next <= Len(want[w]) + 1
    /\ \A n \in Names :
         sdk[n] = IF \/ n \notin ListNames(want[w])
                     \/ \E i \in DOMAIN want[w] : i < next /\ want[w][i].name = n
                  THEN Registered(want[w])[n]
                  ELSE Registered(current)[n]

\* Until the first SDK call of a replacement the baseline is what is served.
BaselineInv ==
  (\A w \in Writers : pc[w] # "add") => sdk = Registered(current)

IInv == TypeOK /\ MutexInv /\ LoopInv /\ BaselineInv

\* The server starts with no tool and no writer inside.
LEMMA InitIInv == Init => IInv
<1> SUFFICES ASSUME Init PROVE IInv
  OBVIOUS
<1>1. TypeOK
  <2>1. current \in ToolLists /\ want \in [Writers -> ToolLists]
    BY MarksAssumption, Zenon DEF Init
  <2>2. /\ mu \in Writers \cup {NoWriter} /\ next \in Nat \ {0}
        /\ pc \in [Writers -> {"idle", "lock", "remove", "add"}]
    BY DEF Init
  <2>3. diffOnly \in [Writers -> BOOLEAN] /\ notified \in BOOLEAN
    BY Zenon DEF Init
  <2>4. sdk \in [Names -> {Registration(tool) : tool \in Tools} \cup {NoTool}]
    BY DEF Init
  <2> QED
    BY <2>1, <2>2, <2>3, <2>4 DEF TypeOK
<1>2. MutexInv /\ LoopInv
  BY MarksAssumption DEF Init, MutexInv, LoopInv
<1>3. ListNames(<<>>) = {}
  BY DEF ListNames, Elements
<1>4. BaselineInv
  BY <1>3 DEF Init, BaselineInv, Registered
<1> QED
  BY <1>1, <1>2, <1>4 DEF IInv

\* The first SDK call: the names that left go, the others stay as they were.
LEMMA RemoveToolsKeepsIInv ==
  ASSUME IInv, NEW w \in Writers, RemoveTools(w)
  PROVE  IInv'
<1> USE DEF IInv
<1>1. /\ mu = w /\ \A v \in Writers : pc[v] = "add" => v = w
      /\ pc[w] = "remove"
      /\ \A v \in Writers : pc[v] # "add"
  BY DEF MutexInv, RemoveTools
<1>2. sdk = Registered(current)
  BY <1>1 DEF BaselineInv
<1>3. want[w] \in ToolLists /\ current \in ToolLists /\ want[w] \in Seq(Tools)
  BY ToolListsAssumption DEF TypeOK
<1>4. ASSUME NEW n \in Names
      PROVE sdk'[n] = IF n \notin ListNames(want[w]) THEN Registered(want[w])[n]
                      ELSE Registered(current)[n]
  BY <1>2, <1>3 DEF RemoveTools, Removed, Registered
<1>5. TypeOK'
  <2>1. sdk' \in [Names -> {Registration(tool) : tool \in Tools} \cup {NoTool}]
    BY DEF TypeOK, RemoveTools
  <2> QED
    BY <2>1 DEF TypeOK, RemoveTools
<1>6. MutexInv'
  BY DEF MutexInv, RemoveTools, TypeOK
<1>7. /\ \A v \in Writers : pc'[v] = "add" => v = w
      /\ want' = want /\ current' = current /\ next' = 1 /\ pc'[w] = "add"
  BY <1>1 DEF RemoveTools, TypeOK
<1>8. LoopInv'
  <2>1. ~ \E i \in DOMAIN want[w] : i < 1
    BY <1>3
  <2>2. 1 <= Len(want[w]) + 1
    BY <1>3
  <2> QED
    BY <1>4, <1>7, <2>1, <2>2 DEF LoopInv
<1>9. BaselineInv'
  BY <1>7 DEF BaselineInv
<1> QED
  BY <1>5, <1>6, <1>8, <1>9

\* One iteration: the name at the index moves, or already agrees.
LEMMA AddToolKeepsIInv ==
  ASSUME IInv, NEW w \in Writers, AddTool(w)
  PROVE  IInv'
<1> DEFINE tool == want[w][next]
<1> USE DEF IInv
<1>1. /\ mu = w /\ pc[w] = "add" /\ \A v \in Writers : pc[v] = "add" => v = w
      /\ want' = want /\ current' = current /\ next' = next + 1 /\ pc' = pc
      /\ mu' = mu /\ diffOnly' = diffOnly /\ next <= Len(want[w])
  BY DEF MutexInv, AddTool
<1>2. /\ want[w] \in ToolLists /\ current \in ToolLists
      /\ want[w] \in Seq(Tools) /\ next \in Nat \ {0}
  BY ToolListsAssumption DEF TypeOK
<1>3. next \in DOMAIN want[w] /\ tool \in Elements(want[w])
  BY <1>1, <1>2 DEF Elements
<1>4. /\ tool \in Tools /\ tool.name \in Names
      /\ tool.name \in ListNames(want[w])
      /\ Registered(want[w])[tool.name] = Registration(tool)
  BY <1>2, <1>3, RegisteredLookup
<1>5. \A i \in DOMAIN want[w] : want[w][i].name = tool.name => i = next
  BY <1>2, <1>3, ToolListsAssumption
<1>6. sdk[tool.name] = Registered(current)[tool.name]
  <2>1. ~ \E i \in DOMAIN want[w] : i < next /\ want[w][i].name = tool.name
    BY <1>2, <1>5
  <2> HIDE DEF tool
  <2> QED
    BY <1>1, <1>4, <2>1 DEF LoopInv
<1>7. sdk' = [sdk EXCEPT ![tool.name] = Registration(tool)]
  <2>1. CASE Kept(current, tool)
    <3>1. sdk' = sdk
      BY <2>1 DEF AddTool
    <3>2. sdk[tool.name] = Registration(tool)
      BY <2>1, <1>2, <1>4, <1>6, KeptKeepsRegistration
    <3> HIDE DEF tool
    <3> QED
      BY <1>4, <3>1, <3>2 DEF TypeOK
  <2>2. CASE ~ Kept(current, tool)
    BY <2>2 DEF AddTool
  <2> QED
    BY <2>1, <2>2
<1>8. TypeOK'
  <2>1. notified' \in BOOLEAN
    BY DEF AddTool, TypeOK
  <2>2. sdk' \in [Names -> {Registration(t) : t \in Tools} \cup {NoTool}]
    <3> HIDE DEF tool
    <3> QED
      BY <1>4, <1>7 DEF TypeOK
  <2> QED
    BY <1>1, <1>2, <2>1, <2>2 DEF TypeOK
<1>9. MutexInv'
  BY <1>1 DEF MutexInv
<1>10. LoopInv'
  <2>1. ASSUME NEW n \in Names
        PROVE sdk'[n] = IF \/ n \notin ListNames(want[w])
                           \/ \E i \in DOMAIN want[w] :
                                i < next + 1 /\ want[w][i].name = n
                        THEN Registered(want[w])[n]
                        ELSE Registered(current)[n]
    <3>1. sdk[n] = IF \/ n \notin ListNames(want[w])
                      \/ \E i \in DOMAIN want[w] : i < next /\ want[w][i].name = n
                   THEN Registered(want[w])[n]
                   ELSE Registered(current)[n]
      BY <1>1 DEF LoopInv
    <3>2. CASE n = tool.name
      <4>1. \E i \in DOMAIN want[w] : i < next + 1 /\ want[w][i].name = n
        BY <1>2, <1>3, <3>2
      <4>2. sdk'[n] = Registration(tool)
        <5> HIDE DEF tool
        <5> QED
          BY <1>4, <1>7, <3>2 DEF TypeOK
      <4> QED
        BY <1>4, <3>2, <4>1, <4>2
    <3>3. CASE n # tool.name
      <4>1. sdk'[n] = sdk[n]
        <5> HIDE DEF tool
        <5> QED
          BY <1>4, <1>7, <3>3 DEF TypeOK
      <4>2. \A i \in DOMAIN want[w] :
              want[w][i].name = n => (i < next + 1 <=> i < next)
        BY <1>2, <3>3
      <4> QED
        BY <3>1, <4>1, <4>2
    <3> QED
      BY <3>2, <3>3
  <2>2. next + 1 <= Len(want[w]) + 1
    BY <1>1, <1>2
  <2> QED
    BY <1>1, <2>1, <2>2 DEF LoopInv
<1>11. BaselineInv'
  BY <1>1 DEF BaselineInv
<1> QED
  BY <1>8, <1>9, <1>10, <1>11

\* When the loop is over every name is at the new list, which becomes the
\* baseline.
LEMMA UnlockKeepsIInv ==
  ASSUME IInv, NEW w \in Writers, Unlock(w)
  PROVE  IInv'
<1> USE DEF IInv
<1>1. /\ mu = w /\ pc[w] = "add" /\ \A v \in Writers : pc[v] = "add" => v = w
      /\ next > Len(want[w])
      /\ current' = want[w] /\ mu' = NoWriter /\ sdk' = sdk
  BY DEF MutexInv, Unlock
<1>2. want[w] \in ToolLists /\ want[w] \in Seq(Tools) /\ next \in Nat \ {0}
  BY ToolListsAssumption DEF TypeOK
<1>3. sdk = Registered(want[w])
  <2>1. ASSUME NEW n \in Names
        PROVE sdk[n] = Registered(want[w])[n]
    <3>1. n \in ListNames(want[w]) =>
            \E i \in DOMAIN want[w] : i < next /\ want[w][i].name = n
      BY <1>1, <1>2 DEF ListNames, Elements
    <3> QED
      BY <1>1, <3>1 DEF LoopInv
  <2> QED
    BY <2>1 DEF TypeOK, Registered
<1>4. /\ \A v \in Writers : pc'[v] \notin {"remove", "add"}
      /\ \A v \in Writers : v # w => pc'[v] = pc[v]
  BY <1>1 DEF MutexInv, Unlock, Return, TypeOK
<1>5. TypeOK'
  BY <1>1, <1>2, MarksAssumption DEF TypeOK, Unlock, Return
<1>6. MutexInv'
  BY <1>1, <1>4, MarksAssumption DEF MutexInv
<1>7. LoopInv' /\ BaselineInv'
  BY <1>1, <1>3, <1>4 DEF LoopInv, BaselineInv
<1> QED
  BY <1>5, <1>6, <1>7

\* A call, a skipped call and the taking of the mutex touch no table.
LEMMA EntryKeepsIInv ==
  ASSUME IInv, NEW w \in Writers,
         \/ Skip(w) \/ Lock(w)
         \/ \E tools \in ToolLists, ifChanged \in BOOLEAN : Call(w, tools, ifChanged)
  PROVE  IInv'
<1> USE DEF IInv
<1>1. CASE \E tools \in ToolLists, ifChanged \in BOOLEAN : Call(w, tools, ifChanged)
  <2> PICK tools \in ToolLists, ifChanged \in BOOLEAN : Call(w, tools, ifChanged)
    BY <1>1
  <2>1. TypeOK' /\ MutexInv'
    BY DEF TypeOK, MutexInv, Call
  <2>2. /\ \A v \in Writers : pc'[v] = "add" <=> pc[v] = "add"
        /\ \A v \in Writers : pc[v] = "add" => want'[v] = want[v]
    BY DEF TypeOK, Call
  <2>3. LoopInv' /\ BaselineInv'
    BY <2>2 DEF LoopInv, BaselineInv, Call
  <2> QED
    BY <2>1, <2>3
<1>2. CASE Skip(w)
  <2>1. TypeOK' /\ MutexInv'
    BY <1>2, MarksAssumption DEF TypeOK, MutexInv, Skip, Return
  <2>2. /\ \A v \in Writers : pc'[v] = "add" <=> pc[v] = "add"
        /\ \A v \in Writers : pc[v] = "add" => want'[v] = want[v]
    BY <1>2 DEF TypeOK, Skip, Return
  <2>3. LoopInv' /\ BaselineInv'
    BY <1>2, <2>2 DEF LoopInv, BaselineInv, Skip
  <2> QED
    BY <2>1, <2>3
<1>3. CASE Lock(w)
  <2>1. TypeOK' /\ MutexInv'
    BY <1>3, MarksAssumption DEF TypeOK, MutexInv, Lock
  <2>2. \A v \in Writers : pc'[v] = "add" <=> pc[v] = "add"
    BY <1>3 DEF TypeOK, Lock
  <2>3. LoopInv' /\ BaselineInv'
    BY <1>3, <2>2 DEF LoopInv, BaselineInv, Lock
  <2> QED
    BY <2>1, <2>3
<1> QED
  BY <1>1, <1>2, <1>3

\* Every step keeps the invariant.
LEMMA NextKeepsIInv == IInv /\ [Next]_vars => IInv'
<1> SUFFICES ASSUME IInv, [Next]_vars PROVE IInv'
  OBVIOUS
<1>1. CASE Notify \/ UNCHANGED vars
  <2>1. /\ mu' = mu /\ current' = current /\ pc' = pc /\ want' = want
        /\ diffOnly' = diffOnly /\ next' = next /\ sdk' = sdk
        /\ notified' \in BOOLEAN
    BY <1>1 DEF Notify, vars, IInv, TypeOK
  <2>2. TypeOK' /\ MutexInv' /\ BaselineInv'
    BY <2>1 DEF IInv, TypeOK, MutexInv, BaselineInv
  <2>3. LoopInv'
    BY <2>1 DEF IInv, LoopInv
  <2> QED
    BY <2>2, <2>3 DEF IInv
<1>2. ASSUME NEW w \in Writers,
             \/ Step(w)
             \/ \E tools \in ToolLists, ifChanged \in BOOLEAN : Call(w, tools, ifChanged)
      PROVE IInv'
  BY <1>2, EntryKeepsIInv, RemoveToolsKeepsIInv, AddToolKeepsIInv, UnlockKeepsIInv
     DEF Step
<1> QED
  BY <1>1, <1>2 DEF Next

\* The invariant of the registry.
LEMMA IInvHolds == Spec => []IInv
BY InitIInv, NextKeepsIInv, PTL DEF Spec

-----------------------------------------------------------------------------
(* The properties. *)

\* Every variable keeps its type, whatever the lists and the writers.
THEOREM TypeCorrect == Spec => []TypeOK
BY IInvHolds, PTL DEF IInv

\* Whoever holds the mutex is the only writer between its first SDK call and
\* its last, so what the SDK serves follows from the baseline, the wanted list
\* and the loop index.
LEMMA ServedDuringReplace ==
  ASSUME IInv, NEW n \in Names
  PROVE  sdk[n] \in {Registered(current)[n], Registered(Goal)[n]}
<1>1. CASE \E w \in Writers : pc[w] = "add"
  <2> PICK w \in Writers : pc[w] = "add"
    BY <1>1
  <2>1. mu = w /\ Goal = want[w]
    BY MarksAssumption DEF IInv, MutexInv, Goal
  <2> QED
    BY <2>1 DEF IInv, LoopInv
<1>2. CASE \A w \in Writers : pc[w] # "add"
  BY <1>2 DEF IInv, BaselineInv
<1> QED
  BY <1>1, <1>2

\* The list being applied is one of the lists.
LEMMA GoalType == IInv => Goal \in ToolLists /\ current \in ToolLists
BY DEF IInv, TypeOK, Goal

\* A client sees of every name its old registration or its new one, for any
\* number of tools and writers.
THEOREM AlwaysOldOrNew == Spec => []OldOrNew
<1>1. IInv => OldOrNew
  BY ServedDuringReplace DEF OldOrNew
<1> QED
  BY <1>1, IInvHolds, PTL

\* A tool of the old set and of the new set never disappears on the way.
THEOREM NeverAGap == Spec => []NoGap
<1>1. IInv => NoGap
  <2> SUFFICES ASSUME IInv, NEW n \in ListNames(current) \cap ListNames(Goal)
               PROVE  sdk[n] # NoTool
    BY DEF NoGap
  <2>1. n \in Names
    BY GoalType, ListNamesAreNames
  <2>2. Registered(current)[n] # NoTool /\ Registered(Goal)[n] # NoTool
    BY <2>1, GoalType, RegisteredType
  <2> QED
    BY <2>1, <2>2, ServedDuringReplace
<1> QED
  BY <1>1, IInvHolds, PTL

\* With the mutex free the baseline is exactly what the SDK serves.
THEOREM BaselineIsServed == Spec => []BaselineServed
<1>1. IInv => BaselineServed
  BY MarksAssumption DEF IInv, MutexInv, BaselineInv, BaselineServed
<1> QED
  BY <1>1, IInvHolds, PTL

\* No notification for a set equal to the baseline.
THEOREM NeverChurns == Spec => NoChurn
<1>1. IInv /\ [Next]_vars => [~ notified /\ notified' => ~ toolsEqual(current, Goal)]_vars
  <2> SUFFICES ASSUME IInv, Next, ~ notified, notified', toolsEqual(current, Goal)
               PROVE  FALSE
    OBVIOUS
  <2>1. PICK w \in Writers : RemoveTools(w) \/ AddTool(w)
    BY DEF Next, Step, Skip, Lock, Unlock, Call, Notify
  <2>2. mu = w /\ Goal = want[w]
    BY <2>1, MarksAssumption DEF IInv, MutexInv, Goal, RemoveTools, AddTool
  <2>3. /\ Removed(current, want[w]) = {}
        /\ \A i \in DOMAIN want[w] : Kept(current, want[w][i])
    BY <2>2, GoalType, EqualListsKeepAll
  <2>4. CASE RemoveTools(w)
    BY <2>3, <2>4 DEF RemoveTools
  <2>5. CASE AddTool(w)
    <3>1. next \in DOMAIN want[w]
      BY <2>5, ToolListsAssumption DEF AddTool, IInv, TypeOK
    <3> QED
      BY <2>3, <2>5, <3>1 DEF AddTool
  <2> QED
    BY <2>1, <2>4, <2>5
<1> QED
  BY <1>1, IInvHolds, PTL DEF Spec, NoChurn

-----------------------------------------------------------------------------
(* The registry implements the catalogue. *)

\* The empty registry is the empty catalogue.
LEMMA InitRefines == Init => Promise!Init
<1> SUFFICES ASSUME Init PROVE Promise!Init
  OBVIOUS
<1>1. Goal = <<>> /\ ListNames(<<>>) = {}
  BY DEF Init, Goal, ListNames, Elements
<1> QED
  BY <1>1 DEF Init, Promise!Init, Registered

\* A change of some names to the wanted registration, the list being applied
\* unchanged, is a switch or a stuttering step of the catalogue.
LEMMA ChangeRefines ==
  ASSUME IInv, NEW S \in SUBSET Names, Goal' = Goal,
         sdk' = [n \in Names |-> IF n \in S THEN Registered(Goal)[n] ELSE sdk[n]]
  PROVE  [Promise!Next]_(Promise!vars)
<1> DEFINE T == {n \in S : sdk[n] # Registered(Goal)[n]}
<1>1. T \in SUBSET {n \in Names : sdk[n] # Registered(Goal)[n]}
  OBVIOUS
<1>2. sdk' = [n \in Names |-> IF n \in T THEN Registered(Goal)[n] ELSE sdk[n]]
  OBVIOUS
<1>3. Registered(Goal)' = Registered(Goal)
  BY DEF Registered
<1> HIDE DEF T
<1> QED
  BY <1>1, <1>2, <1>3 DEF Promise!Next, Promise!Switch

\* Every step of the registry is a step of the catalogue or leaves it alone.
LEMMA StepRefines == IInv /\ IInv' /\ [Next]_vars => [Promise!Next]_(Promise!vars)
<1> SUFFICES ASSUME IInv, IInv', [Next]_vars PROVE [Promise!Next]_(Promise!vars)
  OBVIOUS
<1>1. ASSUME Goal' = Goal, sdk' = sdk
      PROVE  [Promise!Next]_(Promise!vars)
  BY <1>1 DEF Promise!vars, Registered
<1>2. CASE Notify \/ UNCHANGED vars
  BY <1>1, <1>2 DEF Notify, vars, Goal
<1>3. ASSUME NEW w \in Writers, NEW tools \in ToolLists, NEW ifChanged \in BOOLEAN,
             Call(w, tools, ifChanged)
      PROVE  [Promise!Next]_(Promise!vars)
  <2>1. mu # NoWriter => mu # w /\ mu \in Writers
    BY <1>3 DEF IInv, TypeOK, MutexInv, Call
  <2>2. Goal' = Goal
    BY <1>3, <2>1 DEF Goal, Call, IInv, TypeOK
  <2> QED
    BY <1>1, <1>3, <2>2 DEF Call
<1>4. ASSUME NEW w \in Writers, Skip(w)
      PROVE  [Promise!Next]_(Promise!vars)
  BY <1>1, <1>4 DEF Skip, Goal
<1>5. ASSUME NEW w \in Writers, Lock(w)
      PROVE  [Promise!Next]_(Promise!vars)
  <2>1. sdk = Registered(Goal)
    BY <1>5, MarksAssumption DEF Lock, Goal, IInv, MutexInv, BaselineInv
  <2>2. Goal' \in ToolLists /\ sdk' = sdk
    BY <1>5, GoalType DEF Lock, IInv, TypeOK, Goal
  <2>3. Registered(Goal)' = Registered(Goal')
    BY DEF Registered
  <2> QED
    BY <2>1, <2>2, <2>3 DEF Promise!Next, Promise!Begin
<1>6. ASSUME NEW w \in Writers, RemoveTools(w)
      PROVE  [Promise!Next]_(Promise!vars)
  <2> DEFINE S == Removed(current, want[w])
  <2>1. Goal = want[w] /\ Goal' = Goal
    BY <1>6, MarksAssumption DEF RemoveTools, Goal, IInv, MutexInv
  <2>2. S \in SUBSET Names
    BY ListNamesAreNames, GoalType DEF Removed
  <2>3. \A n \in S : n \in Names /\ Registered(Goal)[n] = NoTool
    BY <2>1, <2>2 DEF Removed, Registered
  <2>4. sdk' = [n \in Names |-> IF n \in S THEN Registered(Goal)[n] ELSE sdk[n]]
    <3> HIDE DEF S
    <3>1. sdk' = [n \in Names |-> IF n \in S THEN NoTool ELSE sdk[n]]
      BY <1>6 DEF RemoveTools, S
    <3> QED
      BY <2>3, <3>1
  <2> HIDE DEF S
  <2> QED
    BY <2>1, <2>2, <2>4, ChangeRefines
<1>7. ASSUME NEW w \in Writers, AddTool(w)
      PROVE  [Promise!Next]_(Promise!vars)
  <2> DEFINE tool == want[w][next]
  <2>1. Goal = want[w] /\ Goal' = Goal
    BY <1>7, MarksAssumption DEF AddTool, Goal, IInv, MutexInv
  <2>2. tool \in Elements(want[w]) /\ want[w] \in ToolLists
    BY <1>7, ToolListsAssumption DEF AddTool, IInv, TypeOK, Elements
  <2>3. tool.name \in Names /\ Registered(Goal)[tool.name] = Registration(tool)
    BY <2>1, <2>2, RegisteredLookup
  <2>4. CASE Kept(current, tool)
    BY <1>1, <1>7, <2>1, <2>4 DEF AddTool
  <2>5. CASE ~ Kept(current, tool)
    <3>1. sdk' = [sdk EXCEPT ![tool.name] = Registration(tool)]
      BY <1>7, <2>5 DEF AddTool
    <3> HIDE DEF tool
    <3>2. sdk' = [n \in Names |-> IF n \in {tool.name} THEN Registered(Goal)[n]
                                                       ELSE sdk[n]]
      BY <2>3, <3>1 DEF IInv, TypeOK
    <3> QED
      BY <2>1, <2>3, <3>2, ChangeRefines
  <2> QED
    BY <2>4, <2>5
<1>8. ASSUME NEW w \in Writers, Unlock(w)
      PROVE  [Promise!Next]_(Promise!vars)
  <2>1. Goal = want[w] /\ Goal' = want[w] /\ sdk' = sdk
    BY <1>8, MarksAssumption DEF Unlock, Goal, IInv, MutexInv
  <2> QED
    BY <1>1, <2>1
<1> QED
  BY <1>2, <1>3, <1>4, <1>5, <1>6, <1>7, <1>8 DEF Next, Step

\* Every behaviour of the registry is a behaviour of the catalogue: names
\* switch in one step each, and a replacement ends before the next begins.
THEOREM RegistryImplementsCatalogue == Spec => ImplementsCatalogue
BY IInvHolds, InitRefines, StepRefines, PTL DEF Spec, ImplementsCatalogue, Promise!Spec
==============================================================================
