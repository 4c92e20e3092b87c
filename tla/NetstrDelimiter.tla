-------------------------- MODULE NetstrDelimiter --------------------------
(***************************************************************************)
(* The NetstrDelimiter of input/delimiter_netstrings.go: it takes a value  *)
(* out of "<length>:<value>;", byte by byte.  A byte is a one-character    *)
(* string.  bytes.Buffer never fails to take a byte (it panics when memory *)
(* runs out), so ignoreMode stays false and is left out.  The package's    *)
(* err variable is only read right after it is written; one goroutine      *)
(* uses delimiters.                                                        *)
(***************************************************************************)
EXTENDS Integers, Sequences

CONSTANT MaxInt     \* the largest int: Atoi fails above it

Digits == <<"0", "1", "2", "3", "4", "5", "6", "7", "8", "9">>

(* checkLenByte *)
IsDigit(b) == \E k \in 1..10 : Digits[k] = b
Digit(b) == (CHOOSE k \in 1..10 : Digits[k] = b) - 1

(* strconv.Atoi of a buffer of digits, and whether it succeeds. *)
Atoi(s) ==
  LET value[k \in 0..Len(s)] ==
        IF k = 0 THEN 0 ELSE 10 * value[k - 1] + Digit(s[k])
  IN  value[Len(s)]
AtoiOK(s) == s # << >> /\ Atoi(s) <= MaxInt

NewNetstrDelimiter ==
  [Result |-> << >>, lenBuff |-> << >>, valBuff |-> << >>, valBuffLen |-> 0,
   valBuffMode |-> FALSE, brokenMode |-> FALSE]

(* What Push returns: the new delimiter, whether there is a new result.    *)
(* The texts of the errors are left out.                                   *)
NoResult(d) == [delimiter |-> d, ok |-> FALSE]
Broken(d) == NoResult([d EXCEPT !.brokenMode = TRUE])

useLenBuff(d) ==
  [d EXCEPT !.Result = d.valBuff, !.valBuff = << >>, !.valBuffMode = FALSE]

useValBuff(d) ==
  IF AtoiOK(d.lenBuff)
  THEN NoResult([d EXCEPT !.valBuffLen = Atoi(d.lenBuff),
                          !.lenBuff = << >>,
                          !.valBuffMode = TRUE])
  ELSE Broken(d)

processLenByte(d, b) ==
  IF b = ":" THEN useValBuff(d)
  ELSE IF IsDigit(b) THEN NoResult([d EXCEPT !.lenBuff = Append(@, b)])
  ELSE Broken(d)

(* Deviation: the value ends at the first ";". *)
processValByteToSemicolon(d, b) ==
  IF b = ";" THEN [delimiter |-> useLenBuff(d), ok |-> TRUE]
  ELSE NoResult([d EXCEPT !.valBuff = Append(@, b)])

(* The byte after the value ends it, whatever it is. *)
processValByte(d, b) ==
  IF d.valBuffLen = 0
  THEN [delimiter |-> useLenBuff(d), ok |-> TRUE]
  ELSE NoResult([d EXCEPT !.valBuffLen = @ - 1, !.valBuff = Append(@, b)])

NetstrPush(d, b) ==
  IF d.brokenMode THEN NoResult(d)
  ELSE IF d.valBuffMode THEN processValByte(d, b)
  ELSE processLenByte(d, b)

NetstrReset(d) == useLenBuff(d)
=============================================================================
