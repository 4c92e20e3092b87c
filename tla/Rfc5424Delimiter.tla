-------------------------- MODULE Rfc5424Delimiter --------------------------
(***************************************************************************)
(* The Delimiter of rfc5424/delimiter.go: a state machine that reads bytes *)
(* and cuts them before every RFC5424 header, "<", digits, ">", a version  *)
(* digit and a space.  A byte is one of the classes the machine tells      *)
(* apart.                                                                  *)
(***************************************************************************)
EXTENDS Integers, Sequences

RfcByte == {"<", "digit", ">", " ", "text", "\n", "\r"}

States == {"newline", "priStart", "priEnd", "priVal0", "priVal1", "priVal2",
           "priVal3", "version", "postVersion"}

NewDelimiter == [buf |-> << >>, priLen |-> 0, state |-> "newline"]

(* Deviation: the third digit of a priority is not counted. *)
priLenUncounted(state, b, n) ==
  IF b = "digit" /\ state \in {"priVal0", "priVal1", "priVal3"}
  THEN CASE state = "priVal0" -> 1
         [] state = "priVal1" -> 2
         [] state = "priVal3" -> 4
  ELSE n

(* The number of digits read so far. *)
priLenAfter(state, b, n) ==
  IF b = "digit" /\ state \in {"priVal0", "priVal1", "priVal2", "priVal3"}
  THEN CASE state = "priVal0" -> 1
         [] state = "priVal1" -> 2
         [] state = "priVal2" -> 3
         [] state = "priVal3" -> 4
  ELSE n

(* The next state.  Within the digits a byte that is neither a digit nor   *)
(* ">" is passed over; elsewhere it starts the search for a header anew.   *)
stateAfter(state, b) ==
  CASE state = "newline"  -> IF b = "\n" THEN "priStart" ELSE "newline"
    [] state = "priStart" -> IF b = "<" THEN "priVal0" ELSE "priStart"
    [] state = "priVal0"  -> IF b = "digit" THEN "priVal1" ELSE "priStart"
    [] state \in {"priVal1", "priVal2", "priVal3"} ->
         CASE b = ">" -> "version"
           [] b = "digit" /\ state = "priVal1" -> "priVal2"
           [] b = "digit" /\ state = "priVal2" -> "priVal3"
           [] b = "digit" /\ state = "priVal3" -> "priEnd"
           [] OTHER -> state
    [] state = "priEnd"   -> IF b = ">" THEN "version" ELSE "priStart"
    [] state = "version"  -> IF b = "digit" THEN "postVersion" ELSE "priStart"
    [] state = "postVersion" -> "priStart"

(* strings.TrimRight(line, "\r\n") *)
TrimLine(s) ==
  LET kept == {k \in 1..Len(s) : s[k] \notin {"\r", "\n"}}
  IN  IF kept = {} THEN << >>
      ELSE SubSeq(s, 1, CHOOSE k \in kept : \A j \in kept : j <= k)

(* Deviation: the header is cut off with the line. *)
lineDropsHeader(d, stripDelim) ==
  LET n == IF stripDelim THEN Len(d.buf) - d.priLen - 4 ELSE Len(d.buf)
  IN  [delimiter |-> [buf |-> << >>, priLen |-> 0, state |-> "priStart"],
       line |-> TrimLine(SubSeq(d.buf, 1, n)),
       ok |-> TRUE]

(* line: what it returns, and the delimiter it leaves. *)
line(d, stripDelim) ==
  LET n == IF stripDelim THEN Len(d.buf) - d.priLen - 4 ELSE Len(d.buf)
  IN  [delimiter |-> [buf |-> SubSeq(d.buf, n + 1, Len(d.buf)),
                      priLen |-> 0,
                      state |-> "priStart"],
       line |-> TrimLine(SubSeq(d.buf, 1, n)),
       ok |-> TRUE]

(* One iteration of ReadLine's loop; ok when ReadLine returns. *)
ReadLineByte(d, b) ==
  LET read == [d EXCEPT !.buf = Append(@, b)]
  IN  IF d.state = "postVersion" /\ b = " " THEN line(read, TRUE)
      ELSE [delimiter |-> [read EXCEPT !.state = stateAfter(d.state, b),
                                       !.priLen = priLenAfter(d.state, b, @)],
            line |-> << >>,
            ok |-> FALSE]

(* ReadByte returned an error: what is left is returned with it. *)
ReadLineErr(d) == line(d, FALSE)
=============================================================================
