------------------------------ MODULE ToolOutput ------------------------------
(***************************************************************************)
(* execute.go: what becomes of the bytes a script writes.  Two copying     *)
(* goroutines feed one bounded writer each, in chunks that may end in the  *)
(* middle of a character; when both are through, combineToolOutput joins   *)
(* the captures between tags and cuts the result to the same limit.        *)
(*                                                                         *)
(* A byte is a newline, the start of a character of two to four bytes, or  *)
(* a continuation; the tags and any other character are of the first kind  *)
(* "t".  A script writes whole characters, however they are chunked.       *)
(***************************************************************************)
EXTENDS Integers, Sequences, FiniteSetsExt

CONSTANTS maxToolOutputBytes,  \* the capture limit and the result limit
          TagLength,           \* bytes of an opening tag: 9 in the source
          Texts                \* what a script may write to a stream

ASSUME SizesAssumption == /\ maxToolOutputBytes \in Nat \ {0}
                          /\ TagLength \in Nat \ {0}

Streams == {"stdout", "stderr"}

Bytes == {"n", "t", "2", "3", "4", "c"}

\* The bytes of a character by its first one.
Size(b) == CASE b = "2" -> 2 [] b = "3" -> 3 [] b = "4" -> 4 [] OTHER -> 1

\* utf8.RuneStart and utf8.Valid.
RuneStart(b) == b # "c"
Valid(s) == /\ \A i \in DOMAIN s : RuneStart(s[i]) =>
                 /\ i + Size(s[i]) - 1 <= Len(s)
                 /\ \A j \in (i + 1)..(i + Size(s[i]) - 1) : s[j] = "c"
            /\ \A i \in DOMAIN s : ~ RuneStart(s[i]) =>
                 \E j \in 1..(i - 1) : RuneStart(s[j]) /\ i - j < Size(s[j])

\* A script writes whole characters.
ASSUME TextsAssumption == \A t \in Texts : t \in Seq(Bytes) /\ Valid(t)

Prefix(s, n) == SubSeq(s, 1, Min({n, Len(s)}))

-----------------------------------------------------------------------------
Tag == [i \in 1..TagLength |-> "t"]

\* A stream between its tags, the closing one on a line of its own; nothing
\* for a stream without output.
Tagged(s) ==
  IF s = <<>> THEN <<>>
  ELSE Tag \o s \o (IF s[Len(s)] = "n" THEN <<>> ELSE <<"n">>) \o Tag

Joined(stdout, stderr) ==
  Tagged(stdout) \o (IF stdout # <<>> /\ stderr # <<>> THEN <<"n">> ELSE <<>>) \o Tagged(stderr)

\* Faulty variant: one step back is taken for enough.
BackOffOnce(s) == IF Valid(Prefix(s, maxToolOutputBytes)) THEN 0 ELSE 1

\* How many bytes the cut is moved back: until the rest is valid, at most three.
BackOff(s) ==
  Min({3, maxToolOutputBytes} \cup
      {i \in 0..3 : i <= maxToolOutputBytes /\ Valid(Prefix(s, maxToolOutputBytes - i))})

\* Faulty variant: what is compared with the limit is the captures, not the
\* result with its tags.
combineToolOutputLoose(stdout, stderr) ==
  LET combined == Joined(stdout, stderr)
  IN IF Len(stdout) + Len(stderr) <= maxToolOutputBytes
     THEN [text |-> combined, marked |-> FALSE]
     ELSE [text |-> Prefix(combined, maxToolOutputBytes - BackOff(combined)), marked |-> TRUE]

\* The result without its mark, and whether "[output truncated ...]" follows:
\* the mark is the program's own text, added on top of the limit.
combineToolOutput(stdout, stderr) ==
  LET combined == Joined(stdout, stderr)
  IN IF Len(combined) <= maxToolOutputBytes
     THEN [text |-> combined, marked |-> FALSE]
     ELSE [text |-> Prefix(combined, maxToolOutputBytes - BackOff(combined)), marked |-> TRUE]

\* U+2026, which ends a value that was cut.
Ellipsis == <<"3", "c", "c">>

\* The log's bound on a client's value: back to where a character starts (byte
\* s[cut] of the source is the one after the prefix), and the indicator.
boundLogValue(s, max) ==
  IF Len(s) <= max THEN s
  ELSE Prefix(s, Max({0} \cup {cut \in 0..max : RuneStart(s[cut + 1])})) \o Ellipsis

-----------------------------------------------------------------------------
VARIABLES text,       \* all that the script writes to each stream
          written,    \* the bytes of it that have reached the writer
          buf, remaining, truncated,  \* the boundedWriter of each stream
          result      \* what the client gets, or <<>> while the script runs

vars == <<text, written, buf, remaining, truncated, result>>

\* Every variable has its type; no capture is above the limit.
TypeOK ==
  /\ text \in [Streams -> Texts]
  /\ \A s \in Streams : written[s] \in 0..Len(text[s])
  /\ \A s \in Streams : buf[s] \in Seq(Bytes) /\ Len(buf[s]) <= maxToolOutputBytes
  /\ remaining \in [Streams -> 0..maxToolOutputBytes]
  /\ truncated \in [Streams -> BOOLEAN]
  /\ result = <<>> \/ (result.text \in Seq(Bytes) /\ result.marked \in BOOLEAN)

Init ==
  /\ text \in [Streams -> Texts]
  /\ written = [s \in Streams |-> 0]
  /\ buf = [s \in Streams |-> <<>>]
  /\ remaining = [s \in Streams |-> maxToolOutputBytes]
  /\ truncated = [s \in Streams |-> FALSE]
  /\ result = <<>>

\* The next bytes of a stream, as the copying goroutine reads them.
Chunk(s, n) == SubSeq(text[s], written[s] + 1, written[s] + n)

Copied(s, n) ==
  /\ result = <<>>
  /\ n \in 1..(Len(text[s]) - written[s])
  /\ written' = [written EXCEPT ![s] = @ + n]
  /\ UNCHANGED <<text, result>>

\* Write with nothing left: the chunk is consumed and dropped.
WriteNothing(s, n) ==
  /\ Copied(s, n)
  /\ remaining[s] <= 0
  /\ truncated' = [truncated EXCEPT ![s] = TRUE]
  /\ UNCHANGED <<buf, remaining>>

\* Write of a chunk of which only a part fits.
WriteSome(s, n) ==
  /\ Copied(s, n)
  /\ remaining[s] > 0 /\ n > remaining[s]
  /\ buf' = [buf EXCEPT ![s] = @ \o Prefix(Chunk(s, n), remaining[s])]
  /\ remaining' = [remaining EXCEPT ![s] = 0]
  /\ truncated' = [truncated EXCEPT ![s] = TRUE]

\* Faulty variant: landing on the limit counts as a loss.
WriteAllMarking(s, n) ==
  /\ Copied(s, n)
  /\ remaining[s] > 0 /\ n <= remaining[s]
  /\ buf' = [buf EXCEPT ![s] = @ \o Chunk(s, n)]
  /\ remaining' = [remaining EXCEPT ![s] = @ - n]
  /\ truncated' = [truncated EXCEPT ![s] = (n = remaining[s])]

\* Write of a chunk that fits.
WriteAll(s, n) ==
  /\ Copied(s, n)
  /\ remaining[s] > 0 /\ n <= remaining[s]
  /\ buf' = [buf EXCEPT ![s] = @ \o Chunk(s, n)]
  /\ remaining' = [remaining EXCEPT ![s] = @ - n]
  /\ UNCHANGED truncated

\* Both copies are through, and executeTool joins the captures.
Combine ==
  /\ result = <<>>
  /\ \A s \in Streams : written[s] = Len(text[s])
  /\ result' = combineToolOutput(buf["stdout"], buf["stderr"])
  /\ UNCHANGED <<text, written, buf, remaining, truncated>>

Combined == result # <<>> /\ UNCHANGED vars

Next == \/ \E s \in Streams : \E n \in 1..Len(text[s]) :
             WriteNothing(s, n) \/ WriteSome(s, n) \/ WriteAll(s, n)
        \/ Combine \/ Combined

Spec == Init /\ [][Next]_vars

-----------------------------------------------------------------------------
\* However the output is chunked, a capture is exactly the first bytes of the
\* stream, none missing in the middle and none twice, and the truncated flag of
\* the log record says exactly that bytes were dropped: output that ends on the
\* limit is complete.
CaptureIsExact ==
  \A s \in Streams :
    /\ buf[s] = Prefix(text[s], Min({written[s], maxToolOutputBytes}))
    /\ truncated[s] <=> written[s] > maxToolOutputBytes

\* A client that sees no truncation mark has both streams complete; what is
\* lost in the writers always shows in the result.
NoSilentLoss ==
  result # <<>> => (~ result.marked => result.text = Joined(text["stdout"], text["stderr"]))

\* Text stays text: two cuts in a row, at byte counts that know nothing of
\* characters, never leave a broken character in what a client gets, nor more
\* bytes of output than the limit (the mark comes on top); nor does the log's
\* bound on a value, whatever its size, with the indicator behind the cut.
TextStaysText ==
  /\ result # <<>> => Valid(result.text) /\ Len(result.text) <= maxToolOutputBytes
  /\ \A s \in Streams : \A max \in 0..Len(text[s]) : Valid(boundLogValue(text[s], max))
==============================================================================
