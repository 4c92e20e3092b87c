--------------------------- MODULE SyslogDelimiter ---------------------------
(***************************************************************************)
(* The SyslogDelimiter of input/delimiter_syslog.go, which cuts a stream   *)
(* of bytes into log lines, and the acceptance test of the RFC5424 parser. *)
(* A byte is one of the classes that the regular expressions tell apart;   *)
(* "head" stands for the fields between the priority and the message text. *)
(***************************************************************************)
EXTENDS Integers, Sequences, FiniteSets

Byte == {"<", "digit", ">", "head", "text", "\n", "\r"}

(* SYSLOG_DELIMITER: "<", one to three digits, ">", from position k on, and *)
(* the position of its ">".                                                *)
PriEnds(s, k) ==
  {e \in (k + 2)..(k + 4) :
     /\ e <= Len(s)
     /\ s[k] = "<" /\ s[e] = ">"
     /\ \A j \in (k + 1)..(e - 1) : s[j] = "digit"}

PriAt(s, k) == PriEnds(s, k) # {}

(* Matches of the three regular expressions, as start positions: anywhere, *)
(* at the end of the buffer, and after a newline.                          *)
SyslogMatches(s) == {k \in 1..Len(s) : PriAt(s, k)}
StartMatches(s) == {k \in 1..Len(s) : Len(s) \in PriEnds(s, k)}
RunMatches(s) == {k \in 1..(Len(s) - 1) : s[k] = "\n" /\ PriAt(s, k + 1)}

(* FindIndex returns the leftmost match. *)
Leftmost(ks) == CHOOSE k \in ks : \A j \in ks : k <= j

(* strings.TrimRight and strings.Trim. *)
Kept(s, cutset) == {k \in 1..Len(s) : s[k] \notin cutset}
TrimRight(s, cutset) ==
  IF Kept(s, cutset) = {} THEN << >>
  ELSE SubSeq(s, 1, CHOOSE k \in Kept(s, cutset) :
                      \A j \in Kept(s, cutset) : j <= k)
Trim(s, cutset) ==
  IF Kept(s, cutset) = {} THEN << >>
  ELSE SubSeq(TrimRight(s, cutset), Leftmost(Kept(s, cutset)),
              Len(TrimRight(s, cutset)))

-----------------------------------------------------------------------------
(* A delimiter is its buffer and its current expression, "start" or "run". *)
NewSyslogDelimiter == [buffer |-> << >>, regex |-> "start"]

(* Push and Vestige return the new delimiter, the line and the match flag. *)
NoLine(d) == [delimiter |-> d, log |-> << >>, match |-> FALSE]

(* Deviation: the newline stays at the head of the buffer. *)
PushKeepsNewline(d, b) ==
  LET buf == Append(d.buffer, b)
      starts == StartMatches(buf)
      runs == RunMatches(buf)
  IN  IF d.regex = "start"
      THEN IF starts = {} THEN NoLine([d EXCEPT !.buffer = buf])
           ELSE NoLine([buffer |-> SubSeq(buf, Leftmost(starts), Len(buf)),
                        regex |-> "run"])
      ELSE IF runs = {} THEN NoLine([d EXCEPT !.buffer = buf])
           ELSE LET k == Leftmost(runs)
                IN  [delimiter |->
                       [d EXCEPT !.buffer = SubSeq(buf, k, Len(buf))],
                     log |-> TrimRight(SubSeq(buf, 1, k - 1), {"\r"}),
                     match |-> TRUE]

Push(d, b) ==
  LET buf == Append(d.buffer, b)
      starts == StartMatches(buf)
      runs == RunMatches(buf)
  IN  IF d.regex = "start"
      THEN IF starts = {} THEN NoLine([d EXCEPT !.buffer = buf])
           ELSE NoLine([buffer |-> SubSeq(buf, Leftmost(starts), Len(buf)),
                        regex |-> "run"])
      ELSE IF runs = {} THEN NoLine([d EXCEPT !.buffer = buf])
           ELSE LET k == Leftmost(runs)
                IN  [delimiter |->
                       [d EXCEPT !.buffer = SubSeq(buf, k + 1, Len(buf))],
                     log |-> TrimRight(SubSeq(buf, 1, k - 1), {"\r"}),
                     match |-> TRUE]

(* Deviation: the line keeps its line end. *)
VestigeUntrimmed(d) ==
  IF SyslogMatches(d.buffer) = {} THEN NoLine([d EXCEPT !.buffer = << >>])
  ELSE [delimiter |-> [d EXCEPT !.buffer = << >>],
        log |-> d.buffer,
        match |-> TRUE]

(* The buffer is emptied, the current expression stays. *)
Vestige(d) ==
  IF SyslogMatches(d.buffer) = {} THEN NoLine([d EXCEPT !.buffer = << >>])
  ELSE [delimiter |-> [d EXCEPT !.buffer = << >>],
        log |-> TrimRight(d.buffer, {"\r", "\n"}),
        match |-> TRUE]

(* LogHandler.Parse with the RFC5424 expression: somewhere a priority, the *)
(* other fields, and at least one more byte of any kind.                   *)
Parses(log) ==
  \E k \in 1..Len(log) : \E e \in PriEnds(log, k) :
     e + 2 <= Len(log) /\ log[e + 1] = "head"
=============================================================================
