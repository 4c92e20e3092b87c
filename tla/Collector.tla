------------------------------ MODULE Collector ------------------------------
(***************************************************************************)
(* The network collectors of input/collector.go: one goroutine per TCP     *)
(* connection that cuts its bytes into log lines, one goroutine that reads *)
(* UDP packets, and what they share: the sequence number and the channel   *)
(* of the batcher, on which they block while it is full.                   *)
(*                                                                         *)
(* A connection's peer sends a stream chosen at the start and may pause    *)
(* anywhere for longer than the read deadline, close, or break the         *)
(* connection.  Reading, delimiting, parsing and drawing the sequence      *)
(* number are one step (only the last touches shared state); the send is   *)
(* another.  Accepting connections, TLS, the statistics, the reception     *)
(* time and the source address are left out.                               *)
(***************************************************************************)
EXTENDS SyslogDelimiter

CONSTANTS Conns,          \* TCP connections
          Streams,        \* the byte streams a peer may send
          Packets,        \* the UDP packets, in order of arrival
          MsgBufSize,     \* msgBufSize: length of the UDP buffer
          MaxPending,     \* capacity of the batcher's channel
          MaxTimeouts     \* bound: pauses of a peer within its stream

UDP == "udp"    \* the collector of packets, beside the connections

ASSUME CollectorAssumption ==
  /\ UDP \notin Conns
  /\ Streams \subseteq Seq(Byte)
  /\ Packets \in Seq(Seq(Byte))
  /\ MsgBufSize \in Nat
  /\ MaxPending \in Nat \ {0}
  /\ MaxTimeouts \in Nat

VARIABLES
  stream,          \* what each peer sends
  pos,             \* bytes read from each connection
  delimiter,       \* each connection's delimiter
  pc,              \* each goroutine: "read", "send" or "done"
  event,           \* the event each goroutine is about to send
  eof,             \* err == io.EOF in the current iteration
  packet,          \* UDP packets read
  buf,             \* the buffer they are read into, one after the other
  sequenceNumber,  \* the shared counter
  queued,          \* events in the channel
  rx,              \* history: all events that were put into the channel
  pauses,          \* history: positions at which a read timed out
  broken           \* history: connections that met an unrecoverable error

tcpVars == <<pos, delimiter, eof, pauses, broken>>
vars == <<stream, tcpVars, pc, event, packet, buf, sequenceNumber, queued, rx>>

Readers == Conns \cup {UDP}
NoEvent == [source |-> UDP, text |-> << >>, seq |-> 0]

Init ==
  /\ stream \in [Conns -> Streams]
  /\ pos = [k \in Conns |-> 0]
  /\ delimiter = [k \in Conns |-> NewSyslogDelimiter]
  /\ pc = [r \in Readers |-> "read"]
  /\ event = [r \in Readers |-> NoEvent]
  /\ eof = [k \in Conns |-> FALSE]
  /\ packet = 0
  /\ buf = [i \in 1..MsgBufSize |-> "zero"]
  /\ sequenceNumber = 0
  /\ queued = 0
  /\ rx = << >>
  /\ pauses = [k \in Conns |-> {}]
  /\ broken = {}

(* Deviation: the number is drawn without the atomic increment. *)
EmitSameSequence(r, log, then) ==
  IF Parses(log)
  THEN /\ event' = [event EXCEPT ![r] = [source |-> r, text |-> log,
                                         seq |-> sequenceNumber]]
       /\ pc' = [pc EXCEPT ![r] = "send"]
       /\ UNCHANGED sequenceNumber
  ELSE /\ pc' = [pc EXCEPT ![r] = then]
       /\ UNCHANGED <<event, sequenceNumber>>

(* A log line that parses becomes an event, with the next sequence number. *)
Emit(r, log, then) ==
  IF Parses(log)
  THEN /\ sequenceNumber' = sequenceNumber + 1
       /\ event' = [event EXCEPT ![r] = [source |-> r, text |-> log,
                                         seq |-> sequenceNumber + 1]]
       /\ pc' = [pc EXCEPT ![r] = "send"]
  ELSE /\ pc' = [pc EXCEPT ![r] = then]
       /\ UNCHANGED <<event, sequenceNumber>>

(* The part of handleConnection's loop after the delimiter. *)
Dispatch(k, res, then) ==
  /\ delimiter' = [delimiter EXCEPT ![k] = res.delimiter]
  /\ IF res.match THEN Emit(k, res.log, then)
     ELSE /\ pc' = [pc EXCEPT ![k] = then]
          /\ UNCHANGED <<event, sequenceNumber>>

-----------------------------------------------------------------------------
ReadByte(k) ==
  /\ pc[k] = "read"
  /\ pos[k] < Len(stream[k])
  /\ pos' = [pos EXCEPT ![k] = @ + 1]
  /\ Dispatch(k, Push(delimiter[k], stream[k][pos[k] + 1]), "read")
  /\ UNCHANGED <<stream, eof, pauses, broken, packet, buf, queued, rx>>

(* Deviation: nothing is dispatched before the next byte arrives. *)
ReadTimeoutWaits(k) ==
  /\ pc[k] = "read"
  /\ UNCHANGED vars

(* No byte for newlineTimeout. *)
ReadTimeout(k) ==
  /\ pc[k] = "read"
  /\ pos[k] < Len(stream[k]) => Cardinality(pauses[k]) < MaxTimeouts
  /\ Dispatch(k, Vestige(delimiter[k]), "read")
  /\ pauses' = [pauses EXCEPT ![k] = @ \cup {pos[k]}]
  /\ UNCHANGED <<stream, pos, eof, broken, packet, buf, queued, rx>>

(* The peer has sent everything and closes. *)
ReadEOF(k) ==
  /\ pc[k] = "read"
  /\ pos[k] = Len(stream[k])
  /\ eof' = [eof EXCEPT ![k] = TRUE]
  /\ Dispatch(k, Vestige(delimiter[k]), "done")
  /\ UNCHANGED <<stream, pos, pauses, broken, packet, buf, queued, rx>>

(* Any other error: return, whatever the buffer holds. *)
ReadError(k) ==
  /\ pc[k] = "read"
  /\ pc' = [pc EXCEPT ![k] = "done"]
  /\ broken' = broken \cup {k}
  /\ UNCHANGED <<stream, pos, delimiter, eof, pauses, event, packet, buf,
                 sequenceNumber, queued, rx>>

(* The bytes of a packet that the buffer has room for. *)
Fitting(p) == SubSeq(p, 1, IF Len(p) < MsgBufSize THEN Len(p) ELSE MsgBufSize)

(* Deviation: the whole buffer is taken for the packet. *)
FilledBuf(n) == SelectSeq(buf', LAMBDA b : b # "zero")

(* buf[:n]. *)
FilledPart(n) == SubSeq(buf', 1, n)

(* One packet is read over what the buffer holds, then trimmed and parsed. *)
ReadFromUDP ==
  /\ pc[UDP] = "read"
  /\ packet < Len(Packets)
  /\ packet' = packet + 1
  /\ LET p == Fitting(Packets[packet + 1])
     IN  /\ buf' = p \o SubSeq(buf, Len(p) + 1, MsgBufSize)
         /\ Emit(UDP, Trim(FilledPart(Len(p)), {"\r", "\n"}), "read")
  /\ UNCHANGED <<stream, tcpVars, queued, rx>>

(* The send on the channel. *)
Send(r) ==
  /\ pc[r] = "send"
  /\ queued < MaxPending
  /\ queued' = queued + 1
  /\ rx' = Append(rx, event[r])
  /\ event' = [event EXCEPT ![r] = NoEvent]
  /\ pc' = [pc EXCEPT ![r] = IF r # UDP /\ eof[r] THEN "done" ELSE "read"]
  /\ UNCHANGED <<stream, tcpVars, packet, buf, sequenceNumber>>

(* The batcher receives an event (Batcher.tla). *)
BatcherReceive ==
  /\ queued > 0
  /\ queued' = queued - 1
  /\ UNCHANGED <<stream, tcpVars, pc, event, packet, buf, sequenceNumber, rx>>

(* The bounded run is over: all is read and received. *)
Quiet ==
  /\ \A k \in Conns : pc[k] = "done"
  /\ pc[UDP] = "read" /\ packet = Len(Packets)
  /\ queued = 0
  /\ UNCHANGED vars

Next ==
  \/ \E k \in Conns :
       ReadByte(k) \/ ReadTimeout(k) \/ ReadEOF(k) \/ ReadError(k)
  \/ ReadFromUDP
  \/ \E r \in Readers : Send(r)
  \/ BatcherReceive
  \/ Quiet

(* The batcher keeps receiving, a channel with room is sent to (a blocked  *)
(* sender is woken in turn), and a read that gets no byte times out.       *)
(* Nothing obliges a peer to send, close or break its connection.          *)
Fairness ==
  /\ WF_vars(BatcherReceive)
  /\ \A r \in Readers : SF_vars(Send(r))
  /\ \A k \in Conns : WF_vars(ReadTimeout(k))

Spec == Init /\ [][Next]_vars /\ Fairness

-----------------------------------------------------------------------------
(* What a stream says, read as a whole: its messages begin at the first    *)
(* priority and at every priority that follows a newline, and reach to the *)
(* next such place, line ends not included.  A message is named by the     *)
(* position at which it begins.                                            *)
Starts(s) ==
  {k \in SyslogMatches(s) : \/ k = Leftmost(SyslogMatches(s))
                            \/ k > 1 /\ s[k - 1] = "\n"
                                 /\ k > Leftmost(SyslogMatches(s))}
Later(s, a) == {b \in Starts(s) : a < b}
Message(s, a) ==
  IF Later(s, a) = {} THEN TrimRight(SubSeq(s, a, Len(s)), {"\r", "\n"})
  ELSE TrimRight(SubSeq(s, a, Leftmost(Later(s, a)) - 2), {"\r"})
Messages == [s \in Streams |-> [a \in Starts(s) |-> Message(s, a)]]
Parsed == [s \in Streams |-> {a \in Starts(s) : Parses(Messages[s][a])}]

(* The log of each UDP packet, and the packets up to n that parse. *)
Logs == [p \in 1..Len(Packets) |-> Trim(Fitting(Packets[p]), {"\r", "\n"})]
Arrived(n) == {p \in 1..n : Parses(Logs[p])}

(* The events of a source among the first n in the channel. *)
EventsOf(r, n) == {j \in 1..n : rx[j].source = r}

(* The n-th event of a source carries the n-th of the texts it should      *)
(* deliver: those of the positions in good, from lower to higher.          *)
InOrder(r, good, text) ==
  \A j \in EventsOf(r, Len(rx)) : \E a \in good :
    /\ rx[j].text = text[a]
    /\ Cardinality(EventsOf(r, j)) = Cardinality({b \in good : b <= a})

(* A peer that never pauses: cutting its stream byte by byte yields its    *)
(* messages (those that parse), whole, in order and once each, and all of  *)
(* them when it closes: also with leading garbage, CRLF line ends, lines   *)
(* that continue a message and priorities inside of one.                   *)
FramedExactly ==
  \A k \in Conns : pauses[k] = {} =>
    LET good == Parsed[stream[k]]
    IN  /\ InOrder(k, good, Messages[stream[k]])
        /\ (pc[k] = "done" /\ k \notin broken)
             => Cardinality(EventsOf(k, Len(rx))) = Cardinality(good)

(* A pause damages only the message it falls into, and the one before when *)
(* it falls into a priority: every other message of a peer that closes has *)
(* been delivered whole, or without the newlines that end its text.        *)
Interrupted(k, a) ==
  LET s == stream[k]
      next == Leftmost(Later(s, a))
  IN  \/ \E t \in pauses[k] : a <= t /\ t < a + Len(Messages[s][a]) - 1
      \/ /\ Later(s, a) # {}
         /\ \E t \in pauses[k], e \in PriEnds(s, next) : next <= t /\ t < e

Unended(text) == TrimRight(text, {"\r", "\n"})

WholeUnlessInterrupted ==
  \A k \in Conns : (pc[k] = "done" /\ k \notin broken) =>
    \A a \in Starts(stream[k]) :
      LET m == Messages[stream[k]][a]
      IN  (Parses(Unended(m)) /\ ~Interrupted(k, a)) =>
            \E j \in EventsOf(k, Len(rx)) : rx[j].text \in {m, Unended(m)}

(* Every packet that parses becomes one event, in the order of arrival and *)
(* whole as far as the buffer reaches, with nothing of an earlier, longer  *)
(* packet behind it; only the last one may still wait for the channel.     *)
PacketsWhole ==
  /\ InOrder(UDP, Arrived(packet), Logs)
  /\ Cardinality(EventsOf(UDP, Len(rx)))
       = Cardinality(Arrived(packet)) - (IF pc[UDP] = "send" THEN 1 ELSE 0)

(* Sequence numbers are unique over all collectors, and those of one       *)
(* source increase in the order of its events, although a goroutine may    *)
(* block on the channel between drawing a number and sending its event.    *)
SequencesOrdered ==
  \A i, j \in 1..Len(rx) : i < j =>
    /\ rx[i].seq # rx[j].seq
    /\ rx[i].source = rx[j].source => rx[i].seq < rx[j].seq

(* A message does not stay in the buffer because the peer says nothing     *)
(* more: once all of a stream is read, the delimiter gets empty.           *)
BufferFlushed ==
  \A k \in Conns :
    (pos[k] = Len(stream[k]))
      ~> (k \in broken \/ (delimiter[k].buffer = << >> /\ pc[k] # "send"))
=============================================================================
