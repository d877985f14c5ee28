---------------------------- MODULE MCToolOutput ----------------------------
(***************************************************************************)
(* Scripts that write newlines and characters of two and four bytes.       *)
(***************************************************************************)
EXTENDS ToolOutput, SequencesExt

CONSTANT MaxCharacters    \* bound: characters a script writes to a stream

MCCharacter(b) == <<b>> \o [i \in 1..(Size(b) - 1) |-> "c"]

MCTexts == {FlattenSeq([i \in DOMAIN s |-> MCCharacter(s[i])]) :
              s \in BoundedSeq({"n", "2", "4"}, MaxCharacters)}
==============================================================================
