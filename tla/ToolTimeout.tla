----------------------------- MODULE ToolTimeout -----------------------------
(***************************************************************************)
(* timeout.go: how the text of a --timeout flag or of a Timeout: line      *)
(* becomes a duration, in the machine's signed integers.                   *)
(*                                                                         *)
(* A text is a sequence of lexemes: an amount (a maximal run of digits, as *)
(* its value), a unit letter, a blank (space or tab), other white space,   *)
(* the word NONE, or anything else (a sign, a point, another letter).      *)
(***************************************************************************)
EXTENDS Integers, Sequences

CONSTANTS Amounts,       \* the amounts a text can hold
          MaxLexemes,    \* bound: the length of a text
          timeoutUnits,  \* unit letter -> its length, a function
          maxDuration    \* math.MaxInt64

ASSUME TimeoutAssumption ==
  /\ Amounts \subseteq Nat
  /\ MaxLexemes \in Nat
  /\ maxDuration \in Nat \ {0}
  /\ DOMAIN timeoutUnits = {"s", "m", "h"}
  /\ \A u \in {"s", "m", "h"} : timeoutUnits[u] \in Nat \ {0}

Units == DOMAIN timeoutUnits

Lexemes == {[kind |-> "amount", value |-> n] : n \in Amounts}
           \cup {[kind |-> "unit", value |-> u] : u \in Units}
           \cup {[kind |-> k, value |-> k] : k \in {"blank", "break", "none", "other"}}

Kind(l) == l.kind

\* Digits that touch are one amount.
WellCut(t) == \A i \in 1..(Len(t) - 1) : ~ (Kind(t[i]) = "amount" /\ Kind(t[i + 1]) = "amount")
Texts == {t \in UNION {[1..n -> Lexemes] : n \in 0..MaxLexemes} : WellCut(t)}

\* Two's complement.
Wrap(x) == ((x + maxDuration + 1) % (2 * (maxDuration + 1))) - (maxDuration + 1)

VARIABLES raw,      \* the text
          rest,     \* what is left of it
          total, seen,
          outcome   \* "scanning", "ok" or "error"

vars == <<raw, rest, total, seen, outcome>>

\* Every variable has its type: no total is negative or beyond the integers.
TypeOK ==
  /\ raw \in Texts
  /\ rest \in Seq(Lexemes)
  /\ total \in 0..maxDuration
  /\ seen \in BOOLEAN
  /\ outcome \in {"scanning", "ok", "error"}

Init == /\ raw \in Texts
        /\ rest = raw
        /\ total = 0
        /\ seen = FALSE
        /\ outcome = "scanning"

\* The whole text is NONE, in any case and with white space around it.
IsNone(t) == \E i \in DOMAIN t : /\ Kind(t[i]) = "none"
                                 /\ \A j \in DOMAIN t \ {i} : Kind(t[j]) \in {"blank", "break"}

Scanning == outcome = "scanning" /\ ~ IsNone(raw)

ReadNone ==
  /\ outcome = "scanning" /\ IsNone(raw)
  /\ outcome' = "ok"
  /\ UNCHANGED <<raw, rest, total, seen>>

SkipBlank ==
  /\ Scanning
  /\ rest # <<>> /\ Kind(Head(rest)) = "blank"
  /\ rest' = Tail(rest)
  /\ UNCHANGED <<raw, total, seen, outcome>>

\* An amount with its unit comes next.
TermNext == Len(rest) >= 2 /\ Kind(rest[1]) = "amount" /\ Kind(rest[2]) = "unit"

\* Faulty variants: the sum is not guarded; the product is not guarded.
FitsWithoutSum(n, unit) == n <= maxDuration /\ n <= maxDuration \div unit
FitsWithoutProduct(n, unit) == n <= maxDuration /\ total <= maxDuration - Wrap(n * unit)

\* strconv.ParseUint refuses what does not fit; a product or a sum that would
\* not is refused before it is computed.
Fits(n, unit) ==
  /\ n <= maxDuration
  /\ n <= maxDuration \div unit
  /\ total <= maxDuration - Wrap(n * unit)

AddTerm ==
  LET unit == timeoutUnits[rest[2].value]
      n == rest[1].value
  IN /\ Scanning /\ TermNext
     /\ Fits(n, unit)
     /\ total' = Wrap(total + Wrap(n * unit))
     /\ rest' = SubSeq(rest, 3, Len(rest))
     /\ seen' = TRUE
     /\ UNCHANGED <<raw, outcome>>

Overflow ==
  /\ Scanning /\ TermNext
  /\ ~ Fits(rest[1].value, timeoutUnits[rest[2].value])
  /\ outcome' = "error"
  /\ UNCHANGED <<raw, rest, total, seen>>

\* No digits, or no unit behind them.
Malformed ==
  /\ Scanning
  /\ rest # <<>> /\ Kind(Head(rest)) # "blank" /\ ~ TermNext
  /\ outcome' = "error"
  /\ UNCHANGED <<raw, rest, total, seen>>

\* The text is used up; one without a term is refused.
Finish ==
  /\ Scanning
  /\ rest = <<>>
  /\ outcome' = IF seen THEN "ok" ELSE "error"
  /\ UNCHANGED <<raw, rest, total, seen>>

Parsed == outcome # "scanning" /\ UNCHANGED vars

Next == ReadNone \/ SkipBlank \/ AddTerm \/ Overflow \/ Malformed \/ Finish \/ Parsed

Spec == Init /\ [][Next]_vars

-----------------------------------------------------------------------------
(* The reference: the duration a text denotes, in unbounded integers. *)

\* An amount is worth as many of the unit behind it.
Worth(t, i) ==
  IF Kind(t[i]) = "amount" /\ i < Len(t) /\ Kind(t[i + 1]) = "unit"
  THEN t[i].value * timeoutUnits[t[i + 1].value]
  ELSE 0

\* What the first n lexemes are worth, for every n.
upTo(t) ==
  LET sum[n \in 0..Len(t)] == IF n = 0 THEN 0 ELSE sum[n - 1] + Worth(t, n)
  IN sum

Denoted(t) == upTo(t)[Len(t)]

\* Amounts and units in turn, at least one pair, with blanks around pairs.
Grammatical(t) ==
  /\ \A l \in {t[i] : i \in DOMAIN t} : Kind(l) \in {"amount", "unit", "blank"}
  /\ \E i \in DOMAIN t : Kind(t[i]) = "amount"
  /\ \A i \in DOMAIN t : Kind(t[i]) = "amount" => i < Len(t) /\ Kind(t[i + 1]) = "unit"
  /\ \A i \in DOMAIN t : Kind(t[i]) = "unit" => i > 1 /\ Kind(t[i - 1]) = "amount"

\* Parsing is exact: every text of the grammar whose duration fits is accepted,
\* nothing else is, and what is accepted is the duration that was written.  No
\* sum or product wraps around into another positive one, and only NONE and a
\* written zero mean no timeout.
ParsesExactly ==
  outcome # "scanning" =>
    /\ outcome = "ok" <=> IsNone(raw) \/ (Grammatical(raw) /\ Denoted(raw) <= maxDuration)
    /\ outcome = "ok" => total = IF IsNone(raw) THEN 0 ELSE Denoted(raw)
==============================================================================
