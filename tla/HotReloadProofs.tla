--------------------------- MODULE HotReloadProofs ---------------------------
(***************************************************************************)
(* HotReload for every directory and every queue length: whatever happens  *)
(* to the file system the debounce flag says whether the timer is set; no  *)
(* watch is lost while the queue holds and the parent stays; and no change *)
(* is lost if, besides, no mode changes.                                   *)
(***************************************************************************)
EXTENDS HotReload, TLAPS

\* Everything but the happenings the watcher has no answer to; everything but
\* those that take a watch away unseen.
Calm == Environment \subseteq {"replace"}
Attended == Environment \subseteq {"replace", "chmod"}

Events == {"child", "self", "inert", "overflow"}

-----------------------------------------------------------------------------
(* The queue. *)

\* An appended event is queued, and so is everything that was.
LEMMA QueuedAfterAppend ==
  ASSUME NEW q \in Seq(Events), NEW e
  PROVE  /\ \E i \in DOMAIN Append(q, e) : Append(q, e)[i] = e
         /\ \A x : (\E i \in DOMAIN q : q[i] = x)
                     => \E i \in DOMAIN Append(q, e) : Append(q, e)[i] = x
<1>1. Len(q) + 1 \in DOMAIN Append(q, e) /\ Append(q, e)[Len(q) + 1] = e
  OBVIOUS
<1>2. \A i \in DOMAIN q : i \in DOMAIN Append(q, e) /\ Append(q, e)[i] = q[i]
  OBVIOUS
<1> QED
  BY <1>1, <1>2

\* Receiving the head loses no other event.
LEMMA QueuedAfterTail ==
  ASSUME NEW q \in Seq(Events), q # <<>>, NEW x, x # Head(q),
         \E i \in DOMAIN q : q[i] = x
  PROVE  \E i \in DOMAIN Tail(q) : Tail(q)[i] = x
<1>1. PICK i \in DOMAIN q : q[i] = x
  OBVIOUS
<1>2. i \in 2..Len(q)
  BY <1>1
<1>3. i - 1 \in DOMAIN Tail(q) /\ Tail(q)[i - 1] = x
  BY <1>1, <1>2
<1> QED
  BY <1>3

\* What a change does to the queue when nothing overflows.
LEMMA ReportQueues ==
  ASSUME Attended, TypeOK, NEW watched \in BOOLEAN, NEW event \in Events,
         Report(watched, event)
  PROVE  /\ queue' \in Seq(Events)
         /\ \A x : Queued(x) => Queued(x)'
         /\ watched => Queued(event)'
<1>1. queue \in Seq(Events)
  BY DEF TypeOK, Events
<1>2. CASE ~ watched /\ UNCHANGED queue
  BY <1>1, <1>2 DEF Queued
<1>3. CASE watched /\ queue' = Append(queue, event)
  BY <1>1, <1>3, QueuedAfterAppend DEF Queued
<1> QED
  BY <1>2, <1>3 DEF Report, Attended

-----------------------------------------------------------------------------
(* The inductive invariant. *)

\* A rescan is on its way.
Due == timer # "off" \/ Queued("child") \/ Queued("self")

\* Where run's scan and the watcher can be, and that the timer's flag and the
\* timer agree.
ControlInv ==
  /\ startup => pc \notin {"loop", "stopped"}
  /\ ~ startup => pc \notin {"reassert", "adddir", "addparent"}
  /\ debounceActive <=> timer # "off"
  /\ pc = "read" => file \in Files /\ file \notin todo

\* The parent stays, is watched from the end of the setup on, and a directory
\* is watched only while it exists.
ParentInv ==
  /\ parent
  /\ watching => dir
  /\ ~ startup /\ pc \notin Ended => parentWatched

\* From the first Add on, a path without a watch has an event queued that
\* leads to the re-Add, or is waiting for the parent to report a directory.
WatchInv ==
  (pc = "addparent" \/ ~ startup) /\ pc \notin Ended /\ ~ watching
    => Queued("self") \/ (~ dir /\ parentWatched)

\* In the loop the registry, and in a rescan what it has found so far, differs
\* from the directory only when another rescan is due.
LoopInv == pc = "loop" /\ ~ Fresh => Due

ScanInv ==
  pc \in {"entries", "read"} /\ ~ startup /\ dir =>
    \A f \in Files \ todo :
      IF pc = "read" /\ f = file
      THEN isToolFile(content[f]) \/ Due
      ELSE found[f] = Image(f) \/ Due

\* The scan has found nothing yet under the names it has not reached.
TodoInv == pc \in {"entries", "read"} => \A f \in todo : found[f] = NoTool

IInv == TypeOK /\ ControlInv /\ ParentInv /\ WatchInv /\ LoopInv /\ ScanInv /\ TodoInv

\* The server starts in front of its first scan.
LEMMA InitIInv == Init => IInv
<1> SUFFICES ASSUME Init PROVE IInv
  OBVIOUS
<1>1. TypeOK
  <2>1. queue \in Seq({"child", "self", "inert", "overflow"})
    BY DEF Init
  <2>2. found \in [Files -> Entries] /\ registered \in [Files -> Entries]
    BY DEF Init, Nothing, Entries
  <2>3. /\ dir \in BOOLEAN /\ parent \in BOOLEAN /\ content \in [Files -> Contents]
        /\ watching \in BOOLEAN /\ parentWatched \in BOOLEAN /\ startup \in BOOLEAN
        /\ debounceActive \in BOOLEAN /\ canceled \in BOOLEAN
    BY Zenon DEF Init
  <2> QED
    BY <2>1, <2>2, <2>3 DEF TypeOK, Init
<1>2. ControlInv /\ ParentInv /\ WatchInv /\ LoopInv /\ ScanInv /\ TodoInv
  BY DEF Init, ControlInv, ParentInv, WatchInv, LoopInv, ScanInv, TodoInv
<1> QED
  BY <1>1, <1>2 DEF IInv

-----------------------------------------------------------------------------
(* Changes of the file system. *)

\* A change after which a rescan is due, or without a directory, leaves the
\* goroutine's part of the invariant alone.
LEMMA ChangeKeepsRescanInv ==
  ASSUME IInv, Change, canceled' = canceled, Due' \/ ~ dir' \/ startup
  PROVE  ControlInv' /\ LoopInv' /\ ScanInv' /\ TodoInv'
<1>1. /\ pc' = pc /\ startup' = startup /\ todo' = todo /\ file' = file
      /\ found' = found /\ timer' = timer /\ debounceActive' = debounceActive
      /\ registered' = registered
  BY DEF Change, scanVars, timerVars
<1>2. ControlInv' /\ TodoInv'
  BY <1>1 DEF IInv, ControlInv, TodoInv
<1>3. LoopInv' /\ ScanInv'
  <2>1. pc = "loop" => ~ startup
    BY DEF IInv, ControlInv
  <2>2. ~ dir' => Fresh'
    BY DEF Fresh
  <2> QED
    BY <1>1, <2>1, <2>2 DEF LoopInv, ScanInv
<1> QED
  BY <1>2, <1>3

\* The types of what a change leaves alone.
LEMMA ChangeKeepsTypeOK ==
  ASSUME TypeOK, Change, queue' \in Seq(Events), content' \in [Files -> Contents],
         dir' \in BOOLEAN, parent' \in BOOLEAN,
         watching' \in BOOLEAN, parentWatched' \in BOOLEAN
  PROVE  TypeOK'
BY DEF TypeOK, Change, scanVars, timerVars, Events

\* An edit is reported by the watch, or precedes the guaranteed rescan.
LEMMA EditKeepsIInv ==
  ASSUME Calm, IInv, NEW f \in Files, WriteFile(f) \/ DeleteFile(f)
  PROVE  IInv'
<1>1. /\ Change /\ Report(watching, "child") /\ dir' = dir /\ parent' = parent
      /\ watching' = watching /\ parentWatched' = parentWatched
  BY DEF WriteFile, DeleteFile, watchVars
<1>2. content' \in [Files -> Contents]
  <2>1. \E c \in Contents : content' = [content EXCEPT ![f] = c]
    BY DEF WriteFile, DeleteFile, Contents
  <2> QED
    BY <2>1 DEF IInv, TypeOK
<1>3. /\ queue' \in Seq(Events)
      /\ \A x : Queued(x) => Queued(x)'
      /\ watching => Queued("child")'
  BY <1>1, ReportQueues DEF IInv, TypeOK, Events, Calm, Attended
<1>4. TypeOK'
  BY <1>1, <1>2, <1>3, ChangeKeepsTypeOK DEF IInv, TypeOK
<1>5. ParentInv' /\ WatchInv'
  BY <1>1, <1>3 DEF IInv, ParentInv, WatchInv, Change, scanVars
<1>6. Due' \/ ~ dir' \/ startup
  BY <1>1, <1>3 DEF IInv, WatchInv, Due, Change
<1> QED
  BY <1>1, <1>4, <1>5, <1>6, ChangeKeepsRescanInv DEF IInv, Change

\* A directory that goes is reported by itself or by its parent.
LEMMA RemoveDirKeepsIInv ==
  ASSUME Calm, IInv, RemoveDir
  PROVE  IInv'
<1>1. /\ Change /\ Report(watching \/ parentWatched, "self")
      /\ dir' = FALSE /\ content' = [f \in Files |-> Absent] /\ parent' = parent
      /\ watching' = FALSE /\ parentWatched' = parentWatched
  BY DEF RemoveDir
<1>2. /\ queue' \in Seq(Events)
      /\ \A x : Queued(x) => Queued(x)'
      /\ watching \/ parentWatched => Queued("self")'
  BY <1>1, ReportQueues DEF IInv, TypeOK, Events, Calm, Attended
<1>3. TypeOK'
  <2>1. content' \in [Files -> Contents]
    BY <1>1 DEF Contents
  <2> QED
    BY <1>1, <1>2, <2>1, ChangeKeepsTypeOK DEF IInv, TypeOK
<1>4. ParentInv' /\ WatchInv'
  BY <1>1, <1>2 DEF IInv, ParentInv, WatchInv, Change, scanVars
<1> QED
  BY <1>1, <1>3, <1>4, ChangeKeepsRescanInv DEF IInv, Change

\* A directory that comes is reported by its parent.
LEMMA CreateDirKeepsIInv ==
  ASSUME Calm, IInv, CreateDir
  PROVE  IInv'
<1>1. /\ Change /\ Report(parentWatched, "self")
      /\ ~ dir /\ dir' = TRUE /\ content' \in [Files -> Contents] /\ parent' = parent
      /\ watching' = watching /\ parentWatched' = parentWatched
  BY DEF CreateDir, watchVars
<1>2. /\ queue' \in Seq(Events)
      /\ \A x : Queued(x) => Queued(x)'
      /\ parentWatched => Queued("self")'
  BY <1>1, ReportQueues DEF IInv, TypeOK, Events, Calm, Attended
<1>3. TypeOK'
  BY <1>1, <1>2, ChangeKeepsTypeOK DEF IInv, TypeOK
<1>4. ParentInv' /\ WatchInv'
  BY <1>1, <1>2 DEF IInv, ParentInv, WatchInv, Change, scanVars
<1>5. Due' \/ startup
  BY <1>1, <1>2 DEF IInv, ParentInv, Due, Change
<1> QED
  BY <1>1, <1>3, <1>4, <1>5, ChangeKeepsRescanInv DEF IInv, Change

-----------------------------------------------------------------------------
(* The scan. *)

\* What the steps that touch neither files, watches, queue nor timer keep.
LEMMA GoroutineFrame ==
  ASSUME IInv, UNCHANGED <<fsVars, watchVars, queue, timerVars>>
  PROVE  /\ \A f \in Files : Image(f)' = Image(f)
         /\ \A x : Queued(x)' <=> Queued(x)
         /\ Due' <=> Due
BY DEF fsVars, watchVars, timerVars, Image, isToolFile, Queued, Due

\* A scan starts from the names, or fails.
LEMMA ReadDirKeepsIInv ==
  ASSUME IInv, ReadDir
  PROVE  IInv'
<1>1. /\ UNCHANGED <<fsVars, watchVars, queue, timerVars>>
      /\ startup' = startup /\ registered' = registered /\ canceled' = canceled
      /\ file' = file /\ pc = "readdir"
  BY DEF ReadDir
<1>2. CASE dir /\ pc' = "entries"
  <2>1. todo' = {f \in Files : content[f] # Absent} /\ found' = Nothing
    BY <1>2 DEF ReadDir
  <2>2. TypeOK'
    BY <1>1, <1>2, <2>1
       DEF IInv, TypeOK, fsVars, watchVars, timerVars, Nothing, Entries
  <2>3. ControlInv' /\ ParentInv' /\ WatchInv' /\ LoopInv'
    BY <1>1, <1>2, GoroutineFrame
       DEF IInv, ControlInv, ParentInv, WatchInv, LoopInv, fsVars, watchVars, timerVars,
           Ended
  <2>4. ScanInv'
    <3>1. \A f \in Files \ todo' : Image(f) = NoTool
      BY <2>1, HotReloadAssumption DEF Image, isToolFile
    <3>2. \A f \in Files \ todo' : found'[f] = NoTool
      BY <2>1 DEF Nothing
    <3> QED
      BY <1>2, <3>1, <3>2, <1>1, GoroutineFrame DEF ScanInv
  <2>5. TodoInv'
    BY <2>1 DEF TodoInv, Nothing
  <2> QED
    BY <2>2, <2>3, <2>4, <2>5 DEF IInv
<1>3. CASE /\ ~ dir /\ pc' = (IF startup THEN "failed" ELSE "loop")
           /\ UNCHANGED <<todo, found>>
  <2>1. TypeOK'
    BY <1>1, <1>3 DEF IInv, TypeOK, fsVars, watchVars, timerVars, Ended
  <2>2. ControlInv' /\ ParentInv' /\ WatchInv'
    BY <1>1, <1>3, GoroutineFrame
       DEF IInv, ControlInv, ParentInv, WatchInv, fsVars, watchVars, timerVars, Ended
  <2>3. LoopInv' /\ ScanInv' /\ TodoInv'
    BY <1>1, <1>3 DEF LoopInv, Fresh, ScanInv, TodoInv, fsVars
  <2> QED
    BY <2>1, <2>2, <2>3 DEF IInv
<1> QED
  BY <1>1, <1>2, <1>3 DEF ReadDir

\* What the scan leaves out or goes on to read agrees with the file.
LEMMA StatEntryKeepsIInv ==
  ASSUME IInv, NEW f \in Files, StatEntry(f)
  PROVE  IInv'
<1>1. /\ UNCHANGED <<fsVars, watchVars, queue, timerVars>>
      /\ startup' = startup /\ registered' = registered /\ canceled' = canceled
      /\ found' = found /\ pc = "entries" /\ f \in todo /\ todo' = todo \ {f}
      /\ \/ isToolFile(content[f]) /\ file' = f /\ pc' = "read"
         \/ ~ isToolFile(content[f]) /\ file' = file /\ pc' = pc
  BY DEF StatEntry
<1>2. TypeOK'
  BY <1>1 DEF IInv, TypeOK, fsVars, watchVars, timerVars
<1>3. ControlInv' /\ ParentInv' /\ WatchInv' /\ LoopInv' /\ TodoInv'
  BY <1>1, GoroutineFrame
     DEF IInv, ControlInv, ParentInv, WatchInv, LoopInv, TodoInv, fsVars, watchVars,
         timerVars, Ended
<1>4. ScanInv'
  <2>1. found[f] = NoTool
    BY <1>1 DEF IInv, TodoInv
  <2>2. ~ startup /\ dir => \A g \in Files \ todo : found[g] = Image(g) \/ Due
    BY <1>1 DEF IInv, ScanInv
  <2>3. ~ isToolFile(content[f]) => Image(f) = NoTool
    BY DEF Image
  <2>4. startup' = startup /\ dir' = dir /\ content' = content
    BY <1>1 DEF fsVars
  <2>5. ASSUME ~ startup, dir, NEW g \in Files \ todo', ~ (pc' = "read" /\ g = file')
        PROVE  found'[g] = Image(g)' \/ Due'
    BY <1>1, <2>1, <2>2, <2>3, <2>5, GoroutineFrame
  <2>6. pc' = "read" => isToolFile(content[file'])
    BY <1>1
  <2> QED
    BY <2>4, <2>5, <2>6 DEF ScanInv, isToolFile
<1> QED
  BY <1>2, <1>3, <1>4 DEF IInv

\* What the scan reads agrees with the file.
LEMMA ReadEntryKeepsIInv ==
  ASSUME IInv, ReadEntry
  PROVE  IInv'
<1> DEFINE text == IF content[file] = Absent THEN NoText ELSE content[file].text
<1>1. /\ UNCHANGED <<fsVars, watchVars, queue, timerVars>>
      /\ startup' = startup /\ registered' = registered /\ canceled' = canceled
      /\ todo' = todo /\ pc = "read" /\ pc' = "entries" /\ file' = Absent
      /\ found' = [found EXCEPT ![file] = text]
  BY DEF ReadEntry
<1>2. file \in Files /\ file \notin todo /\ found \in [Files -> Entries]
  BY <1>1 DEF IInv, ControlInv, TypeOK
<1>3. text \in Entries
  BY <1>2 DEF IInv, TypeOK, Contents, Entries
<1>4. isToolFile(content[file]) => text = Image(file)
  BY HotReloadAssumption DEF isToolFile, Image
<1> HIDE DEF text
<1>5. TypeOK'
  BY <1>1, <1>2, <1>3 DEF IInv, TypeOK, fsVars, watchVars, timerVars
<1>6. ControlInv' /\ ParentInv' /\ WatchInv' /\ LoopInv'
  BY <1>1, GoroutineFrame
     DEF IInv, ControlInv, ParentInv, WatchInv, LoopInv, fsVars, watchVars, timerVars, Ended
<1>7. TodoInv'
  BY <1>1, <1>2 DEF IInv, TodoInv
<1>8. ScanInv'
  <2>1. startup' = startup /\ dir' = dir
    BY <1>1 DEF fsVars
  <2>2. ASSUME ~ startup, dir, NEW g \in Files \ todo
        PROVE  found'[g] = Image(g) \/ Due
    <3>1. CASE g = file
      BY <1>1, <1>2, <1>4, <2>2, <3>1 DEF IInv, ScanInv
    <3>2. CASE g # file
      BY <1>1, <1>2, <2>2, <3>2 DEF IInv, ScanInv
    <3> QED
      BY <3>1, <3>2
  <2> QED
    BY <1>1, <2>1, <2>2, GoroutineFrame DEF ScanInv
<1> QED
  BY <1>5, <1>6, <1>7, <1>8 DEF IInv

\* A finished scan is fresh, or a rescan is due.
LEMMA ApplyKeepsIInv ==
  ASSUME IInv, Apply
  PROVE  IInv'
<1>1. /\ UNCHANGED <<fsVars, watchVars, queue, timerVars>>
      /\ startup' = startup /\ canceled' = canceled /\ file' = file
      /\ pc = "entries" /\ todo = {} /\ todo' = todo /\ registered' = found
      /\ pc' = (IF startup THEN "reassert" ELSE "loop")
      /\ found' = (IF startup THEN found ELSE Nothing)
  BY DEF Apply
<1>2. TypeOK'
  BY <1>1 DEF IInv, TypeOK, fsVars, watchVars, timerVars, Nothing, Entries
<1>3. ControlInv' /\ ParentInv' /\ WatchInv'
  BY <1>1, GoroutineFrame
     DEF IInv, ControlInv, ParentInv, WatchInv, fsVars, watchVars, timerVars, Ended
<1>4. LoopInv'
  <2>1. ~ startup /\ dir => \A g \in Files : found[g] = Image(g) \/ Due
    BY <1>1 DEF IInv, ScanInv
  <2>2. dir' = dir
    BY <1>1 DEF fsVars
  <2> QED
    BY <1>1, <2>1, <2>2, GoroutineFrame DEF LoopInv, Fresh
<1>5. ScanInv' /\ TodoInv'
  BY <1>1 DEF ScanInv, TodoInv
<1> QED
  BY <1>2, <1>3, <1>4, <1>5 DEF IInv

-----------------------------------------------------------------------------
(* Setup and loop. *)

\* The watch is complete before the guaranteed rescan starts.
LEMMA SetupKeepsIInv ==
  ASSUME IInv, Setup
  PROVE  IInv'
<1>1. CASE Reassert
  <2>1. TypeOK'
    BY <1>1 DEF IInv, TypeOK, Reassert, fsVars, watchVars, timerVars, Nothing, Entries
  <2>2. startup
    BY <1>1 DEF IInv, ControlInv, Reassert
  <2> QED
    BY <1>1, <2>1, <2>2, GoroutineFrame
       DEF IInv, ControlInv, ParentInv, WatchInv, LoopInv, ScanInv, TodoInv, Reassert,
           fsVars, watchVars, timerVars, Ended
<1>2. CASE AddDir
  <2>1. TypeOK'
    BY <1>2 DEF IInv, TypeOK, AddDir, fsVars, scanVars, timerVars, Ended
  <2>2. startup
    BY <1>2 DEF IInv, ControlInv, AddDir
  <2> QED
    BY <1>2, <2>1, <2>2
       DEF IInv, ControlInv, ParentInv, WatchInv, LoopInv, ScanInv, TodoInv, AddDir,
           fsVars, scanVars, timerVars, Ended
<1>3. CASE AddParent
  <2>1. TypeOK'
    BY <1>3 DEF IInv, TypeOK, AddParent, fsVars, timerVars, Ended
  <2>2. parent
    BY DEF IInv, ParentInv
  <2>3. \A x : Queued(x)' <=> Queued(x)
    BY <1>3 DEF AddParent, Queued
  <2> QED
    BY <1>3, <2>1, <2>2, <2>3
       DEF IInv, ControlInv, ParentInv, WatchInv, LoopInv, ScanInv, TodoInv, AddParent,
           fsVars, timerVars, Ended
<1> QED
  BY <1>1, <1>2, <1>3 DEF Setup

\* An event received is a timer armed.
LEMMA HandleEventKeepsIInv ==
  ASSUME IInv, HandleEvent
  PROVE  IInv'
<1>1. /\ UNCHANGED <<fsVars, parentWatched, pc, scanVars, registered, canceled>>
      /\ pc = "loop" /\ queue # <<>> /\ queue' = Tail(queue)
  BY DEF HandleEvent
<1>2. queue \in Seq(Events) /\ ~ startup
  BY <1>1 DEF IInv, TypeOK, Events, ControlInv
<1>3. queue' \in Seq(Events)
  BY <1>1, <1>2
<1>4. \A x : Queued(x) /\ x # Head(queue) => Queued(x)'
  BY <1>1, <1>2, QueuedAfterTail DEF Queued
<1>5. /\ timer' \in {"off", "running", "fired"} /\ debounceActive' \in BOOLEAN
      /\ debounceActive' <=> timer' # "off"
  <2>1. \/ timer' = timer /\ debounceActive' = debounceActive
        \/ debounceActive' = TRUE /\ timer' = "running"
    BY DEF HandleEvent, Arm, timerVars
  <2>2. timer \in {"off", "running", "fired"} /\ debounceActive \in BOOLEAN
    BY DEF IInv, TypeOK
  <2>3. debounceActive <=> timer # "off"
    BY DEF IInv, ControlInv
  <2> QED
    BY <2>1, <2>2, <2>3
<1>6. \/ Head(queue) \in {"child", "self"} /\ timer' # "off"
      \/ Head(queue) = "inert" /\ timer' = timer
  BY DEF HandleEvent, Arm, timerVars, IInv, ControlInv
<1>7. \/ Head(queue) # "self" /\ watching' = watching
      \/ Head(queue) = "self" /\ watching' = dir
  BY DEF HandleEvent, reattach
<1>8. TypeOK'
  BY <1>1, <1>3, <1>5, <1>7 DEF IInv, TypeOK, fsVars, scanVars, Events
<1>9. Due => Due'
  BY <1>4, <1>6 DEF Due
<1>10. ControlInv' /\ ScanInv' /\ TodoInv'
  BY <1>1, <1>5 DEF IInv, ControlInv, ScanInv, TodoInv, scanVars
<1>11. ParentInv'
  BY <1>1, <1>7 DEF IInv, ParentInv, fsVars, scanVars
<1>12. WatchInv'
  BY <1>1, <1>2, <1>4, <1>7 DEF IInv, WatchInv, ParentInv, fsVars, scanVars, Ended
<1>13. LoopInv'
  <2>1. Fresh' <=> Fresh
    BY <1>1 DEF Fresh, Image, fsVars
  <2> QED
    BY <1>1, <1>9, <2>1 DEF IInv, LoopInv
<1> QED
  BY <1>8, <1>10, <1>11, <1>12, <1>13 DEF IInv

\* The other cases of the select, the clock and the shutdown.
LEMMA LoopStepKeepsIInv ==
  ASSUME IInv, HandleError \/ DebounceFire \/ StopLoop \/ Expire \/ Cancel \/ UNCHANGED vars
  PROVE  IInv'
<1>1. CASE HandleError
  <2>1. queue \in Seq(Events) /\ queue # <<>> /\ Head(queue) = "overflow"
    BY <1>1 DEF IInv, TypeOK, Events, HandleError
  <2>2. queue' = Tail(queue)
    BY <1>1 DEF HandleError
  <2>3. queue' \in Seq(Events)
    BY <2>1, <2>2
  <2>4. \A x : Queued(x) /\ x # "overflow" => Queued(x)'
    BY <2>1, <2>2, QueuedAfterTail DEF Queued
  <2>5. TypeOK'
    BY <1>1, <2>3
       DEF IInv, TypeOK, HandleError, fsVars, watchVars, scanVars, timerVars, Events
  <2>6. Fresh' <=> Fresh
    BY <1>1 DEF HandleError, Fresh, Image, fsVars
  <2> QED
    BY <1>1, <2>4, <2>5, <2>6
       DEF IInv, HandleError, ControlInv, ParentInv, WatchInv, LoopInv, ScanInv, TodoInv,
           Due, fsVars, watchVars, scanVars, timerVars
<1>2. CASE DebounceFire
  <2>1. TypeOK'
    BY <1>2 DEF IInv, TypeOK, DebounceFire, fsVars, watchVars, scanVars
  <2>2. \A x : Queued(x)' <=> Queued(x)
    BY <1>2 DEF DebounceFire, Queued
  <2> QED
    BY <1>2, <2>1, <2>2
       DEF IInv, DebounceFire, ControlInv, ParentInv, WatchInv, LoopInv, ScanInv, TodoInv,
           fsVars, watchVars, scanVars, Ended
<1>3. CASE StopLoop
  <2>1. TypeOK'
    BY <1>3 DEF IInv, TypeOK, StopLoop, fsVars, watchVars, scanVars, timerVars, Ended
  <2> QED
    BY <1>3, <2>1
       DEF IInv, StopLoop, ControlInv, ParentInv, WatchInv, LoopInv, ScanInv, TodoInv,
           fsVars, watchVars, scanVars, timerVars, Ended
<1>4. CASE Expire \/ Cancel \/ UNCHANGED vars
  <2>1. /\ UNCHANGED <<fsVars, watchVars, queue, pc, scanVars, debounceActive, registered>>
        /\ timer' \in {"off", "running", "fired"} /\ canceled' \in BOOLEAN
        /\ timer' = "off" <=> timer = "off"
    BY <1>4 DEF Expire, Cancel, vars, timerVars, IInv, TypeOK
  <2>2. TypeOK'
    BY <2>1 DEF IInv, TypeOK, fsVars, watchVars, scanVars
  <2>3. /\ Fresh' <=> Fresh
        /\ \A x : Queued(x)' <=> Queued(x)
        /\ \A f \in Files : Image(f)' = Image(f)
    BY <2>1 DEF Fresh, Image, Queued, fsVars, isToolFile
  <2>4. Due' <=> Due
    BY <2>1, <2>3 DEF Due
  <2>5. ControlInv' /\ ParentInv' /\ WatchInv' /\ LoopInv'
    BY <2>1, <2>3, <2>4
       DEF IInv, ControlInv, ParentInv, WatchInv, LoopInv, fsVars, watchVars, scanVars
  <2>6. ScanInv' /\ TodoInv'
    BY <2>1, <2>3, <2>4 DEF IInv, ScanInv, TodoInv, fsVars, scanVars
  <2> QED
    BY <2>2, <2>5, <2>6 DEF IInv
<1> QED
  BY <1>1, <1>2, <1>3, <1>4

\* Every step keeps the invariant.
LEMMA NextKeepsIInv == Calm /\ IInv /\ [Next]_vars => IInv'
<1> SUFFICES ASSUME Calm, IInv, [Next]_vars PROVE IInv'
  OBVIOUS
<1>1. CASE FsStep
  <2>1. \A f \in Files : ~ Chmod(f)
    BY DEF Calm, Chmod
  <2>2. ~ RemoveParent /\ ~ CreateParent
    BY DEF Calm, RemoveParent, CreateParent, IInv, ParentInv
  <2> QED
    BY <1>1, <2>1, <2>2, EditKeepsIInv, RemoveDirKeepsIInv, CreateDirKeepsIInv DEF FsStep
<1>2. CASE Scan
  BY <1>2, ReadDirKeepsIInv, StatEntryKeepsIInv, ReadEntryKeepsIInv, ApplyKeepsIInv DEF Scan
<1>3. CASE Setup
  BY <1>3, SetupKeepsIInv
<1>4. CASE HandleEvent
  BY <1>4, HandleEventKeepsIInv
<1>5. CASE \/ HandleError \/ DebounceFire \/ StopLoop \/ Expire \/ Cancel
           \/ Done \/ UNCHANGED vars
  BY <1>5, LoopStepKeepsIInv DEF Done
<1> QED
  BY <1>1, <1>2, <1>3, <1>4, <1>5 DEF Next

\* The invariant of the watch loop.
LEMMA IInvHolds == Calm /\ Spec => []IInv
<1> SUFFICES ASSUME Calm PROVE Spec => []IInv
  OBVIOUS
<1>1. IInv /\ [Next]_vars => IInv'
  BY NextKeepsIInv
<1> QED
  BY InitIInv, <1>1, PTL DEF Spec

-----------------------------------------------------------------------------
(* Every environment: overflows, modes and a lost parent included. *)

\* Whatever happens to the file system, the queue holds events.
LEMMA ReportTypes ==
  ASSUME TypeOK, NEW watched, NEW event \in Events, Report(watched, event)
  PROVE  queue' \in Seq(Events)
<1>1. queue \in Seq(Events) /\ "overflow" \in Events
  BY DEF TypeOK, Events
<1>2. queue' \in {queue, Append(queue, event), Append(queue, "overflow")}
  BY DEF Report
<1> QED
  BY <1>1, <1>2

\* A change of the file system, of any kind, keeps the types and the flag.
LEMMA FsStepKeepsControl ==
  ASSUME TypeOK, ControlInv, FsStep
  PROVE  TypeOK' /\ ControlInv'
<1>1. Change
  BY DEF FsStep, WriteFile, DeleteFile, Chmod, RemoveDir, CreateDir, RemoveParent, CreateParent
<1>2. ControlInv'
  BY <1>1 DEF Change, ControlInv, scanVars, timerVars
<1>3. queue' \in Seq(Events)
  <2>1. queue' = queue \/ \E w \in {TRUE, FALSE, watching, parentWatched, watching \/ parentWatched,
                                     watching \/ (parentWatched /\ dir)} :
                          \E e \in {"child", "self", "inert"} : Report(w, e)
    BY DEF FsStep, WriteFile, DeleteFile, Chmod, RemoveDir, CreateDir, RemoveParent, CreateParent
  <2>2. {"child", "self", "inert"} \subseteq Events
    BY DEF Events
  <2>3. queue \in Seq(Events)
    BY DEF TypeOK, Events
  <2> QED
    BY <2>1, <2>2, <2>3, ReportTypes
<1>4. content' \in [Files -> Contents]
  <2>1. CASE \E f \in Files : WriteFile(f) \/ DeleteFile(f)
    <3>1. \E f \in Files, c \in Contents : content' = [content EXCEPT ![f] = c]
      BY <2>1 DEF WriteFile, DeleteFile, Contents
    <3> QED
      BY <3>1 DEF TypeOK
  <2>2. CASE \E f \in Files : Chmod(f)
    <3>1. PICK f \in Files : Chmod(f)
      BY <2>2
    <3>2. content[f] \in [text : Texts, exec : BOOLEAN]
      BY <3>1 DEF Chmod, TypeOK, Contents
    <3>3. content' = [content EXCEPT ![f].exec = ~ content[f].exec]
      BY <3>1 DEF Chmod
    <3>4. [content[f] EXCEPT !.exec = ~ content[f].exec] \in Contents
      BY <3>2 DEF Contents
    <3> QED
      BY <3>3, <3>4 DEF TypeOK
  <2>3. CASE RemoveDir \/ CreateDir \/ RemoveParent \/ CreateParent
    BY <2>3 DEF RemoveDir, CreateDir, RemoveParent, CreateParent, TypeOK, Contents
  <2> QED
    BY <2>1, <2>2, <2>3 DEF FsStep
<1>5. /\ dir' \in BOOLEAN /\ parent' \in BOOLEAN
      /\ watching' \in BOOLEAN /\ parentWatched' \in BOOLEAN
  BY DEF FsStep, WriteFile, DeleteFile, Chmod, RemoveDir, CreateDir, RemoveParent, CreateParent,
         watchVars, TypeOK
<1>6. canceled' = canceled
  BY <1>1 DEF Change
<1>7. TypeOK'
  BY <1>1, <1>3, <1>4, <1>5, <1>6, ChangeKeepsTypeOK
<1> QED
  BY <1>2, <1>7

\* A step of the goroutine that scans or sets up the watch keeps them.
LEMMA ScanKeepsControl ==
  ASSUME TypeOK, ControlInv, Scan \/ Setup
  PROVE  TypeOK' /\ ControlInv'
<1> USE DEF fsVars, watchVars, timerVars, scanVars, Ended
<1>1. CASE ReadDir
  <2>1. TypeOK'
    BY <1>1 DEF TypeOK, ReadDir, Nothing, Entries
  <2>2. ControlInv'
    BY <1>1 DEF ControlInv, ReadDir
  <2> QED
    BY <2>1, <2>2
<1>2. ASSUME NEW f \in Files, StatEntry(f) PROVE TypeOK' /\ ControlInv'
  <2>1. TypeOK'
    BY <1>2 DEF TypeOK, StatEntry
  <2>2. ControlInv'
    BY <1>2 DEF ControlInv, StatEntry
  <2> QED
    BY <2>1, <2>2
<1>3. CASE ReadEntry
  <2> DEFINE said == IF content[file] = Absent THEN NoText ELSE content[file].text
  <2>1. file \in Files /\ found' = [found EXCEPT ![file] = said]
    BY <1>3 DEF ReadEntry, ControlInv
  <2>2. said \in Entries
    BY <2>1 DEF TypeOK, Contents, Entries
  <2> HIDE DEF said
  <2>3. TypeOK'
    BY <1>3, <2>1, <2>2 DEF TypeOK, ReadEntry
  <2>4. ControlInv'
    BY <1>3 DEF ControlInv, ReadEntry
  <2> QED
    BY <2>3, <2>4
<1>4. CASE Apply
  <2>1. TypeOK'
    BY <1>4 DEF TypeOK, Apply, Nothing, Entries
  <2>2. ControlInv'
    BY <1>4 DEF ControlInv, Apply
  <2> QED
    BY <2>1, <2>2
<1>5. CASE Reassert
  <2>1. TypeOK'
    BY <1>5 DEF TypeOK, Reassert, Nothing, Entries
  <2>2. ControlInv'
    BY <1>5 DEF ControlInv, Reassert
  <2> QED
    BY <2>1, <2>2
<1>6. CASE AddDir
  <2>1. TypeOK'
    BY <1>6 DEF TypeOK, AddDir
  <2>2. ControlInv'
    BY <1>6 DEF ControlInv, AddDir
  <2> QED
    BY <2>1, <2>2
<1>7. CASE AddParent
  <2>1. TypeOK'
    BY <1>7 DEF TypeOK, AddParent
  <2>2. ControlInv'
    BY <1>7 DEF ControlInv, AddParent
  <2> QED
    BY <2>1, <2>2
<1> QED
  BY <1>1, <1>2, <1>3, <1>4, <1>5, <1>6, <1>7 DEF Scan, Setup

\* The cases of the select, the clock and the shutdown keep them.
LEMMA LoopKeepsControl ==
  ASSUME TypeOK, ControlInv,
         \/ HandleEvent \/ HandleError \/ DebounceFire \/ StopLoop
         \/ Expire \/ Cancel \/ UNCHANGED vars
  PROVE  TypeOK' /\ ControlInv'
<1> USE DEF fsVars, watchVars, scanVars, Ended
<1>1. CASE HandleEvent
  <2>1. /\ UNCHANGED <<fsVars, parentWatched, pc, scanVars, registered, canceled>>
        /\ queue # <<>> /\ queue' = Tail(queue)
        /\ watching' \in {watching, dir}
        /\ \/ timer' = timer /\ debounceActive' = debounceActive
           \/ debounceActive' = TRUE /\ timer' = "running"
    BY <1>1 DEF HandleEvent, Arm, reattach, timerVars
  <2>2. queue' \in Seq(Events)
    BY <2>1 DEF TypeOK, Events
  <2>3. /\ watching' \in BOOLEAN /\ debounceActive' \in BOOLEAN
        /\ timer' \in {"off", "running", "fired"}
    BY <2>1 DEF TypeOK
  <2>4. TypeOK'
    BY <2>1, <2>2, <2>3 DEF TypeOK, Events
  <2>5. ControlInv'
    BY <2>1 DEF ControlInv
  <2> QED
    BY <2>4, <2>5
<1>2. CASE HandleError
  <2>1. queue # <<>> /\ queue' = Tail(queue)
    BY <1>2 DEF HandleError
  <2>2. queue' \in Seq(Events)
    BY <2>1 DEF TypeOK, Events
  <2>3. TypeOK'
    BY <1>2, <2>2 DEF TypeOK, Events, HandleError, timerVars
  <2>4. ControlInv'
    BY <1>2 DEF ControlInv, HandleError, timerVars
  <2> QED
    BY <2>3, <2>4
<1>3. CASE DebounceFire
  <2>1. TypeOK'
    BY <1>3 DEF TypeOK, DebounceFire
  <2>2. ControlInv'
    BY <1>3 DEF ControlInv, DebounceFire
  <2> QED
    BY <2>1, <2>2
<1>4. CASE StopLoop
  <2>1. TypeOK'
    BY <1>4 DEF TypeOK, StopLoop, timerVars
  <2>2. ControlInv'
    BY <1>4 DEF ControlInv, StopLoop, timerVars
  <2> QED
    BY <2>1, <2>2
<1>5. CASE Expire
  <2>1. TypeOK'
    BY <1>5 DEF TypeOK, Expire
  <2>2. ControlInv'
    BY <1>5 DEF ControlInv, Expire
  <2> QED
    BY <2>1, <2>2
<1>6. CASE Cancel \/ UNCHANGED vars
  <2>1. /\ UNCHANGED <<fsVars, watchVars, queue, pc, scanVars, timerVars, registered>>
        /\ canceled' \in {canceled, TRUE}
    BY <1>6 DEF Cancel, timerVars, vars
  <2>2. canceled' \in BOOLEAN
    BY <2>1 DEF TypeOK
  <2>3. TypeOK'
    BY <2>1, <2>2 DEF TypeOK, timerVars
  <2>4. ControlInv'
    BY <2>1 DEF ControlInv, timerVars
  <2> QED
    BY <2>3, <2>4
<1> QED
  BY <1>1, <1>2, <1>3, <1>4, <1>5, <1>6

\* The types and the flag, in every environment.
LEMMA ControlHolds == Spec => [](TypeOK /\ ControlInv)
<1>1. Init => TypeOK /\ ControlInv
  BY InitIInv DEF IInv
<1>2. TypeOK /\ ControlInv /\ [Next]_vars => TypeOK' /\ ControlInv'
  BY FsStepKeepsControl, ScanKeepsControl, LoopKeepsControl DEF Next, Done
<1> QED
  BY <1>1, <1>2, PTL DEF Spec

\* A change that takes no watch away unseen leaves the event behind that
\* leads to the re-Add.
LEMMA FsStepKeepsWatch ==
  ASSUME Attended, TypeOK, ParentInv, WatchInv, FsStep
  PROVE  ParentInv' /\ WatchInv'
<1>1. ~ RemoveParent /\ ~ CreateParent
  BY DEF Attended, RemoveParent, CreateParent, ParentInv
<1>2. ASSUME NEW f \in Files, WriteFile(f) \/ DeleteFile(f) \/ Chmod(f)
      PROVE  ParentInv' /\ WatchInv'
  <2>1. /\ Change /\ (Report(watching, "child") \/ Report(watching, "inert"))
        /\ dir' = dir /\ parent' = parent
        /\ watching' = watching /\ parentWatched' = parentWatched
    BY <1>2 DEF WriteFile, DeleteFile, Chmod, watchVars
  <2>2. \A x : Queued(x) => Queued(x)'
    BY <2>1, ReportQueues DEF TypeOK, Events
  <2> QED
    BY <2>1, <2>2 DEF ParentInv, WatchInv, Change, scanVars
<1>3. CASE RemoveDir
  <2>1. /\ Change /\ Report(watching \/ parentWatched, "self")
        /\ dir' = FALSE /\ parent' = parent /\ watching' = FALSE /\ parentWatched' = parentWatched
    BY <1>3 DEF RemoveDir
  <2>2. \A x : Queued(x) => Queued(x)'
    BY <2>1, ReportQueues DEF TypeOK, Events
  <2>3. watching \/ parentWatched => Queued("self")'
    BY <2>1, ReportQueues DEF TypeOK, Events
  <2> QED
    BY <2>1, <2>2, <2>3 DEF ParentInv, WatchInv, Change, scanVars
<1>4. CASE CreateDir
  <2>1. /\ Change /\ Report(parentWatched, "self") /\ ~ dir /\ dir' = TRUE /\ parent' = parent
        /\ watching' = watching /\ parentWatched' = parentWatched
    BY <1>4 DEF CreateDir, watchVars
  <2>2. \A x : Queued(x) => Queued(x)'
    BY <2>1, ReportQueues DEF TypeOK, Events
  <2>3. parentWatched => Queued("self")'
    BY <2>1, ReportQueues DEF TypeOK, Events
  <2> QED
    BY <2>1, <2>2, <2>3 DEF ParentInv, WatchInv, Change, scanVars
<1> QED
  BY <1>1, <1>2, <1>3, <1>4 DEF FsStep

\* So does every other step.
LEMMA StepKeepsWatch ==
  ASSUME TypeOK, ControlInv, ParentInv, WatchInv, [Next]_vars, ~ FsStep
  PROVE  ParentInv' /\ WatchInv'
<1> USE DEF fsVars, watchVars, scanVars, Ended
<1>1. CASE Scan \/ Reassert \/ DebounceFire \/ StopLoop \/ Expire \/ Cancel \/ Done \/ UNCHANGED vars
  <2>1. /\ UNCHANGED <<fsVars, watchVars, queue>> /\ startup' = startup
        /\ pc' = "addparent" => pc = "addparent"
        /\ pc' \notin Ended => pc \notin Ended
    BY <1>1 DEF Scan, ReadDir, StatEntry, ReadEntry, Apply, Reassert, DebounceFire, StopLoop, Expire,
                Cancel, Done, vars
  <2>2. Queued("self")' <=> Queued("self")
    BY <2>1 DEF Queued
  <2> QED
    BY <2>1, <2>2 DEF ParentInv, WatchInv
<1>2. CASE AddDir
  BY <1>2 DEF AddDir, ParentInv, WatchInv, ControlInv
<1>3. CASE AddParent
  <2>1. Queued("self")' <=> Queued("self")
    BY <1>3 DEF AddParent, Queued
  <2> QED
    BY <1>3, <2>1 DEF AddParent, ParentInv, WatchInv, ControlInv
<1>4. CASE HandleEvent \/ HandleError
  <2>1. /\ UNCHANGED <<fsVars, parentWatched, pc, scanVars>> /\ pc = "loop"
        /\ queue # <<>> /\ queue' = Tail(queue)
        /\ \/ Head(queue) # "self" /\ watching' = watching
           \/ watching' = dir
    BY <1>4 DEF HandleEvent, HandleError, reattach
  <2>2. queue \in Seq(Events)
    BY DEF TypeOK, Events
  <2>3. Queued("self") /\ Head(queue) # "self" => Queued("self")'
    BY <2>1, <2>2, QueuedAfterTail DEF Queued
  <2> QED
    BY <2>1, <2>3 DEF ParentInv, WatchInv, ControlInv
<1> QED
  BY <1>1, <1>2, <1>3, <1>4 DEF Next, Setup

\* The watch, in every environment that takes none away unseen.
LEMMA WatchHolds == Attended /\ Spec => [](ParentInv /\ WatchInv)
<1> SUFFICES ASSUME Attended PROVE Spec => [](ParentInv /\ WatchInv)
  OBVIOUS
<1>1. Init => ParentInv /\ WatchInv
  BY InitIInv DEF IInv
<1>2. /\ TypeOK /\ ControlInv /\ ParentInv /\ WatchInv /\ [Next]_vars
      => ParentInv' /\ WatchInv'
  BY FsStepKeepsWatch, StepKeepsWatch
<1> QED
  BY <1>1, <1>2, ControlHolds, PTL DEF Spec

-----------------------------------------------------------------------------
(* The properties. *)

\* The variables keep their types whatever happens to the file system.
THEOREM TypeCorrect == Spec => []TypeOK
BY ControlHolds, PTL

\* No edit of any script, made at any moment of startup, of a rescan or of a
\* replacement of the directory, is left without a rescan to come.
THEOREM NoChangeIsLost == Calm /\ Spec => []NoLostChange
<1>1. IInv => NoLostChange
  BY DEF IInv, LoopInv, NoLostChange, Due
<1> QED
  BY <1>1, IInvHolds, PTL

\* While the queue holds and the parent stays, a directory at the path is
\* watched, or will be when the queue is read.
THEOREM NoWatchIsLost == Attended /\ Spec => []NoLostWatch
<1>1. ParentInv /\ WatchInv => NoLostWatch
  BY DEF WatchInv, NoLostWatch
<1> QED
  BY <1>1, WatchHolds, PTL

\* The flag that keeps events from arming the timer is up only while the
\* timer has a tick to deliver, whatever happens to the file system.
THEOREM DebounceIsLive == Spec => []DebounceMatchesTimer
<1>1. ControlInv => DebounceMatchesTimer
  BY DEF ControlInv, DebounceMatchesTimer
<1> QED
  BY <1>1, ControlHolds, PTL
==============================================================================
