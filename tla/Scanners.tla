------------------------------ MODULE Scanners ------------------------------
(***************************************************************************)
(* The parts of the program that cut a stream into pieces and that nothing *)
(* uses yet: the NetstrDelimiter, the rfc5424.Delimiter and the lexer of   *)
(* queries, each fed with a stream that is chosen at the start.  What they *)
(* return step by step is compared with what the stream says when it is    *)
(* read as a whole.                                                        *)
(***************************************************************************)
EXTENDS NetstrDelimiter, Rfc5424Delimiter, QueryLexer

CONSTANTS NetstrMessages,   \* the sequences of values that are encoded
          NetstrStreams,    \* other streams for the NetstrDelimiter
          RfcStreams,       \* the streams for the rfc5424.Delimiter
          Texts,            \* the texts for the lexer
          MaxResets         \* bound: calls of NetstrDelimiter.Reset

ASSUME ScannersAssumption ==
  /\ MaxInt \in Nat
  /\ NetstrMessages \subseteq Seq(Seq(STRING))
  /\ \A m \in NetstrMessages : \A k \in DOMAIN m : Len(m[k]) <= MaxInt
  /\ NetstrStreams \subseteq Seq(STRING)
  /\ RfcStreams \subseteq Seq(RfcByte)
  /\ Texts \subseteq Seq(Piece)

VARIABLES
  kind,       \* what is under test: "netstr", "rfc5424" or "lexer"
  messages,   \* "netstr": the values the stream encodes, or NotEncoded
  stream,     \* its input
  pos,        \* bytes or pieces read
  d,          \* the delimiter
  results,    \* history: what it has returned
  bounds,     \* history: where in the stream each of the results ends
  resets,     \* history: calls of Reset
  cut,        \* history: was Reset called within a message, or when broken?
  eof         \* history: the end of the stream was read

vars == <<kind, messages, stream, pos, d, results, bounds, resets, cut, eof>>

NotEncoded == <<<<"not encoded">>>>

(* The decimal digits of a number. *)
Decimal[n \in Nat] ==
  IF n < 10 THEN <<Digits[n + 1]>> ELSE Append(Decimal[n \div 10], Digits[(n % 10) + 1])

(* "<length>:<value>;" for each of the first values. *)
Encode(values) ==
  LET enc[k \in 0..Len(values)] ==
        IF k = 0 THEN << >>
        ELSE enc[k - 1] \o Decimal[Len(values[k])] \o <<":">> \o values[k] \o <<";">>
  IN  enc

Init ==
  /\ \/ /\ kind = "netstr"
        /\ messages \in NetstrMessages
        /\ stream = Encode(messages)[Len(messages)]
     \/ /\ kind = "netstr"
        /\ messages = NotEncoded
        /\ stream \in NetstrStreams
     \/ /\ kind = "rfc5424"
        /\ messages = NotEncoded
        /\ stream \in RfcStreams
     \/ /\ kind = "lexer"
        /\ messages = NotEncoded
        /\ stream \in Texts
  /\ pos = 0
  /\ d = CASE kind = "netstr" -> NewNetstrDelimiter
           [] kind = "rfc5424" -> NewDelimiter
           [] kind = "lexer" -> << >>
  /\ results = << >>
  /\ bounds = << >>
  /\ resets = 0
  /\ cut = FALSE
  /\ eof = FALSE

(* NetstrDelimiter.Push of the next byte. *)
Push ==
  /\ kind = "netstr"
  /\ pos < Len(stream)
  /\ LET res == NetstrPush(d, stream[pos + 1])
     IN  /\ d' = res.delimiter
         /\ results' = IF res.ok THEN Append(results, res.delimiter.Result) ELSE results
         /\ bounds' = IF res.ok THEN Append(bounds, pos + 1) ELSE bounds
  /\ pos' = pos + 1
  /\ UNCHANGED <<kind, messages, stream, resets, cut, eof>>

(* NetstrDelimiter.Reset, at any time.  It keeps lenBuff and brokenMode.   *)
Reset ==
  /\ kind = "netstr"
  /\ resets < MaxResets
  /\ d' = NetstrReset(d)
  /\ resets' = resets + 1
  /\ cut' = (cut \/ d.valBuffMode \/ d.lenBuff # << >> \/ d.brokenMode)
  /\ UNCHANGED <<kind, messages, stream, pos, results, bounds, eof>>

(* Delimiter.ReadLine, byte by byte. *)
ReadLine ==
  /\ kind = "rfc5424"
  /\ pos < Len(stream)
  /\ LET res == ReadLineByte(d, stream[pos + 1])
     IN  /\ d' = res.delimiter
         /\ results' = IF res.ok THEN Append(results, res.line) ELSE results
         /\ bounds' = IF res.ok THEN Append(bounds, (pos + 1) - Len(res.delimiter.buf)) ELSE bounds
  /\ pos' = pos + 1
  /\ UNCHANGED <<kind, messages, stream, resets, cut, eof>>

ReadLineEOF ==
  /\ kind = "rfc5424"
  /\ pos = Len(stream)
  /\ ~eof
  /\ LET res == ReadLineErr(d)
     IN  /\ d' = res.delimiter
         /\ results' = Append(results, res.line)
         /\ bounds' = Append(bounds, pos - Len(res.delimiter.buf))
  /\ eof' = TRUE
  /\ UNCHANGED <<kind, messages, stream, pos, resets, cut>>

(* Lexer.Lex, once per token. *)
LexNext ==
  /\ kind = "lexer"
  /\ pos < Len(stream)
  /\ LET res == Lex(stream, pos + 1)
     IN  /\ results' = Append(results, res.tok)
         /\ bounds' = Append(bounds, res.next - 1)
         /\ pos' = res.next - 1
  /\ UNCHANGED <<kind, messages, stream, d, resets, cut, eof>>

(* The stream is at its end. *)
Done ==
  /\ kind \in {"netstr", "rfc5424", "lexer"}
  /\ pos = Len(stream)
  /\ kind = "rfc5424" => eof
  /\ UNCHANGED vars

Next == Push \/ Reset \/ ReadLine \/ ReadLineEOF \/ LexNext \/ Done

Spec == Init /\ [][Next]_vars

-----------------------------------------------------------------------------
(* Where the n-th result begins: behind this position. *)
Start(n) == IF n = 1 THEN 0 ELSE bounds[n - 1]

(* A netstring that begins behind a: c is the position of its colon, and   *)
(* its value ends at ValueEnd, before the closing byte.                    *)
Colon(s, a, c) ==
  /\ c \in (a + 2)..Len(s) /\ s[c] = ":"
  /\ \A j \in (a + 1)..(c - 1) : IsDigit(s[j])
  /\ AtoiOK(SubSeq(s, a + 1, c - 1))
ValueEnd(s, a, c) == c + Atoi(SubSeq(s, a + 1, c - 1))

(* The delimiter returns exactly the values of the bytes it was given, and *)
(* for a stream that encodes values all of those values and no other: also *)
(* when a value holds digits, colons or semicolons, is empty, when its     *)
(* closing byte is missing, when a length is malformed or no int, and when *)
(* Reset is called between two messages.  Nothing is said of a delimiter   *)
(* that was Reset within a message, or after a malformed length: against   *)
(* delimiter_netstrings.go 54, "Reset the NetstrDelimiter instance to its  *)
(* initial state", Reset keeps the bytes of a length it is in, and a       *)
(* broken delimiter stays broken.                                          *)
NetstrDecoded ==
  (kind = "netstr" /\ ~cut) =>
    /\ \A n \in 1..Len(results) : \E c \in 1..Len(stream) :
         /\ Colon(stream, Start(n), c)
         /\ bounds[n] = ValueEnd(stream, Start(n), c) + 1
         /\ bounds[n] <= pos
         /\ results[n] = SubSeq(stream, c + 1, bounds[n] - 1)
    /\ \A c \in 1..Len(stream) :
         LET a == Start(Len(results) + 1)
         IN  Colon(stream, a, c) => ValueEnd(stream, a, c) >= pos
    /\ (messages # NotEncoded /\ pos = Len(stream)) => results = messages

(* The headers of a stream, by the position of their "<": one to four      *)
(* digits in the priority, behind the first newline.                       *)
HeaderEnds(s, k) ==
  {e \in (k + 4)..(k + 7) :
     /\ e <= Len(s)
     /\ s[k] = "<" /\ s[e - 2] = ">" /\ s[e - 1] = "digit" /\ s[e] = " "
     /\ \A j \in (k + 1)..(e - 3) : s[j] = "digit"}
Headers(s) ==
  {k \in 1..Len(s) : HeaderEnds(s, k) # {} /\ \E j \in 1..(k - 1) : s[j] = "\n"}

(* Every "<" is the first byte of a header. *)
HeadersOnly(s) ==
  \A k \in 1..Len(s) : s[k] = "<" => HeaderEnds(s, k) # {}

(* The bounds of the results rise. *)
Rising == \A n \in 1..Len(bounds) : \A m \in 1..(n - 1) : bounds[m] < bounds[n]

(* ReadLine cuts the stream before each header, once, and nowhere else,    *)
(* whatever the length of the priorities and wherever the lines break, for *)
(* every stream in which "<" begins a header and nothing else.             *)
RfcLinesExact ==
  (eof /\ HeadersOnly(stream)) =>
    /\ Rising
    /\ Len(results) > 0 /\ bounds[Len(results)] = Len(stream)
    /\ {bounds[n] + 1 : n \in 1..(Len(results) - 1)} = Headers(stream)

(* What ReadLine returns are the parts of the stream between its cuts, but *)
(* for the line ends, and what it has not returned is in its buffer: no    *)
(* byte is lost between two lines, also when a header is malformed.        *)
RfcNoByteLost ==
  kind = "rfc5424" =>
    /\ \A n \in 1..Len(results) :
         /\ Start(n) <= bounds[n] /\ bounds[n] <= pos
         /\ results[n] = TrimLine(SubSeq(stream, Start(n) + 1, bounds[n]))
    /\ d.buf = SubSeq(stream, Start(Len(results) + 1) + 1, pos)

(* The lexer's tokens are those that the whole text shows, in its order:   *)
(* nothing is skipped or read twice where a token ends because the next    *)
(* one begins, or because of a NUL.                                        *)
LexedByRuns ==
  kind = "lexer" =>
    /\ Rising
    /\ {Start(n) + 1 : n \in 1..Len(results)} = {i \in TokenStarts(stream) : i <= pos}
    /\ \A n \in 1..Len(results) : results[n] = TokenAt(stream, Start(n) + 1)
=============================================================================
