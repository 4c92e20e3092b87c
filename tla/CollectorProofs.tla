-------------------------- MODULE CollectorProofs --------------------------
(***************************************************************************)
(* Proofs about the collectors: sequence numbers are ordered, packets are  *)
(* delivered whole, a stream that does not pause is cut into its messages, *)
(* and a pause harms only the message it falls into: for any number of     *)
(* connections, any streams and packets, and any sizes of the buffer and   *)
(* of the channel.                                                         *)
(***************************************************************************)
EXTENDS Collector, TLAPS, FiniteSetTheorems

(* The parts of the inductive invariant.  An event has a source, a text    *)
(* and a number; a delimiter has a buffer and an expression.               *)
Event == [source : Readers, text : Seq(Byte), seq : Nat]
Delimiter == [buffer : Seq(Byte), regex : {"start", "run"}]

Typed ==
  /\ stream \in [Conns -> Streams]
  /\ pos \in [Conns -> Nat]
  /\ delimiter \in [Conns -> Delimiter]
  /\ pc \in [Readers -> {"read", "send", "done"}]
  /\ event \in [Readers -> Event]
  /\ eof \in [Conns -> BOOLEAN]
  /\ packet \in 0..Len(Packets)
  /\ buf \in Seq(Byte \cup {"zero"})
  /\ Len(buf) = MsgBufSize
  /\ sequenceNumber \in Nat
  /\ rx \in Seq(Event)
  /\ pauses \in [Conns -> SUBSET Nat]

(* A goroutine that reads has not met the end of its stream, and one that  *)
(* has ended has, unless it met an error.                                  *)
Ended ==
  \A k \in Conns : /\ pc[k] = "read" => ~eof[k]
                   /\ (pc[k] = "done" /\ k \notin broken) => eof[k]

(* No event, sent or about to be sent, has a number beyond the counter; an *)
(* event about to be sent differs from all others in its number, and comes *)
(* after all of its source.                                                *)
Numbered ==
  /\ \A j \in 1..Len(rx) : rx[j].seq <= sequenceNumber
  /\ \A r \in Readers : pc[r] = "send" =>
       /\ event[r].source = r
       /\ event[r].seq <= sequenceNumber
       /\ \A j \in 1..Len(rx) : /\ rx[j].seq # event[r].seq
                                /\ rx[j].source = r => rx[j].seq < event[r].seq
       /\ \A q \in Readers : (q # r /\ pc[q] = "send") => event[q].seq # event[r].seq
  /\ SequencesOrdered

(* A source has put into the channel q the texts of the positions in cut,  *)
(* in their order; if it is sending, the last one, ev, still waits.        *)
Of(q, r, n) == {j \in 1..n : q[j].source = r}

InOrderIn(q, r, cut, text) ==
  \A j \in Of(q, r, Len(q)) : \E a \in cut :
    /\ q[j].text = text[a]
    /\ Cardinality(Of(q, r, j)) = Cardinality({b \in cut : b <= a})

Delivers(q, c, ev, r, cut, text) ==
  /\ InOrderIn(q, r, cut, text)
  /\ Cardinality(Of(q, r, Len(q))) = Cardinality(cut) - (IF c = "send" THEN 1 ELSE 0)
  /\ c = "send" => \E a \in cut : ev.text = text[a] /\ \A b \in cut : b <= a

(* The packets that parse, as far as they were read, have been delivered.  *)
PacketInv == Delivers(rx, pc[UDP], event[UDP], UDP, Arrived(packet), Logs)

(* A delimiter d has got the first p bytes of a stream s, with pauses at   *)
(* the positions ps.  Its buffer is a part of the stream.  It begins at    *)
(* the beginning of the stream, at a pause, or with a priority.  While the *)
(* first message is sought, every priority that has passed was hit by a    *)
(* pause; later, no priority in the buffer follows a newline but the       *)
(* first.                                                                  *)
First(p, d) == p - Len(d.buffer) + 1

Buffered(s, p, d) ==
  /\ p <= Len(s)
  /\ Len(d.buffer) <= p
  /\ d.buffer = SubSeq(s, First(p, d), p)

Begun(s, p, d, ps) ==
  \/ First(p, d) = 1
  \/ First(p, d) - 1 \in ps
  \/ \E e \in PriEnds(s, First(p, d)) : e <= p

Sought(s, p, d, ps) ==
  d.regex = "start" =>
    \A a \in 1..Len(s) : \A e \in PriEnds(s, a) :
      e <= p => \E t \in ps : a <= t /\ t < e

Found(s, p, d) ==
  d.regex = "run" =>
    /\ \E a \in 1..Len(s) : \E e \in PriEnds(s, a) : e <= p
    /\ \A b \in 1..Len(s) : \A e \in PriEnds(s, b) :
         (b > 1 /\ First(p, d) < b /\ s[b - 1] = "\n") => p < e

Framing(s, p, d, ps) ==
  Buffered(s, p, d) /\ Begun(s, p, d, ps) /\ Sought(s, p, d, ps) /\ Found(s, p, d)

(* Without a pause, a found message begins where the stream says, and all  *)
(* that parse before it have become events.                                *)
Cut(s, p, d) == {a \in Parsed[s] : a < First(p, d)}

Framed(s, p, d, q, c, ev, k) ==
  /\ d.regex = "run" => First(p, d) \in Starts(s)
  /\ Delivers(q, c, ev, k, Cut(s, p, d), Messages[s])

(* With pauses, a message that none interrupts is still to come, or is in  *)
(* the buffer, or has become an event.                                     *)
Hit(s, ps, a) ==
  \/ \E t \in ps : a <= t /\ t < a + Len(Messages[s][a]) - 1
  \/ /\ Later(s, a) # {}
     /\ \E t \in ps, e \in PriEnds(s, Leftmost(Later(s, a))) :
          Leftmost(Later(s, a)) <= t /\ t < e

Spared(s, ps) == {a \in Starts(s) : Parses(Unended(Messages[s][a])) /\ ~Hit(s, ps, a)}

Got(q, c, ev, k, m) ==
  \/ \E j \in Of(q, k, Len(q)) : q[j].text \in {m, Unended(m)}
  \/ c = "send" /\ ev.text \in {m, Unended(m)}

Coming(s, p, a) == \E e \in PriEnds(s, a) : p < e
Current(s, p, d, a) ==
  /\ d.regex = "run"
  /\ First(p, d) = a
  /\ \E e \in PriEnds(s, a) : e <= p

Uninterrupted(s, p, d, ps, q, c, ev, k) ==
  \A a \in Spared(s, ps) :
    Got(q, c, ev, k, Messages[s][a]) \/ Coming(s, p, a) \/ Current(s, p, d, a)

(* A connection before and after the end of its stream. *)
Open(s, p, d, ps, q, c, ev, k) ==
  /\ Framing(s, p, d, ps)
  /\ ps = {} => Framed(s, p, d, q, c, ev, k)
  /\ Uninterrupted(s, p, d, ps, q, c, ev, k)

Closed(s, ps, q, c, ev, k) ==
  /\ ps = {} => Delivers(q, c, ev, k, Parsed[s], Messages[s])
  /\ \A a \in Spared(s, ps) : Got(q, c, ev, k, Messages[s][a])

Conn(k) ==
  /\ ~eof[k] => Open(stream[k], pos[k], delimiter[k], pauses[k], rx, pc[k], event[k], k)
  /\ eof[k] => Closed(stream[k], pauses[k], rx, pc[k], event[k], k)

ConnInv == \A k \in Conns : Conn(k)

IInv == Typed /\ Ended /\ Numbered /\ PacketInv /\ ConnInv

USE CollectorAssumption

-----------------------------------------------------------------------------
(* About priorities and trimming.                                          *)

(* A priority begins with "<" and ends, within the text, with the only ">" *)
(* in it; nothing but digits is between (SYSLOG_DELIMITER).                *)
LEMMA PriShape ==
  ASSUME NEW s \in Seq(Byte), NEW k \in Nat \ {0}, NEW e \in PriEnds(s, k)
  PROVE  /\ e \in Nat /\ k + 2 <= e /\ e <= Len(s) /\ k \in 1..Len(s)
         /\ s[k] = "<" /\ s[e] = ">"
         /\ \A j \in (k + 1)..(e - 1) : s[j] = "digit"
  BY DEF PriEnds

(* Two priorities do not overlap: the one that begins first ends before    *)
(* the other begins.                                                       *)
LEMMA PriApart ==
  ASSUME NEW s \in Seq(Byte), NEW a \in Nat \ {0}, NEW b \in Nat \ {0},
         NEW e \in PriEnds(s, a), NEW f \in PriEnds(s, b), a < b
  PROVE  e < b /\ b < f
<1>1. e \in Nat /\ f \in Nat /\ a + 2 <= e /\ b + 2 <= f
  BY PriShape
<1>2. s[b] = "<" /\ s[e] = ">" /\ \A j \in (a + 1)..(e - 1) : s[j] = "digit"
  BY PriShape
<1>3. b # e
  BY <1>2
<1>4. ~(b < e)
  <2>1. SUFFICES ASSUME b < e PROVE FALSE
    OBVIOUS
  <2>2. b \in (a + 1)..(e - 1)
    BY <1>1, <2>1
  <2>3. s[b] = "digit"
    BY <1>2, <2>2
  <2>4. QED
    BY <1>2, <2>3
<1>5. QED
  BY <1>1, <1>3, <1>4

(* A priority has one end. *)
LEMMA PriOneEnd ==
  ASSUME NEW s \in Seq(Byte), NEW a \in Nat \ {0},
         NEW e \in PriEnds(s, a), NEW f \in PriEnds(s, a)
  PROVE  e = f
<1>1. e \in Nat /\ f \in Nat /\ a + 2 <= e /\ a + 2 <= f
  BY PriShape
<1>2. s[e] = ">" /\ \A j \in (a + 1)..(e - 1) : s[j] = "digit"
  BY PriShape
<1>3. s[f] = ">" /\ \A j \in (a + 1)..(f - 1) : s[j] = "digit"
  BY PriShape
<1>4. ~(e < f)
  <2>1. SUFFICES ASSUME e < f PROVE FALSE
    OBVIOUS
  <2>2. e \in (a + 1)..(f - 1)
    BY <1>1, <2>1
  <2>3. QED
    BY <1>2, <1>3, <2>2
<1>5. ~(f < e)
  <2>1. SUFFICES ASSUME f < e PROVE FALSE
    OBVIOUS
  <2>2. f \in (a + 1)..(e - 1)
    BY <1>1, <2>1
  <2>3. QED
    BY <1>2, <1>3, <2>2
<1>6. QED
  BY <1>1, <1>4, <1>5

(* A priority of a part of a text is one of the text, and one of the text  *)
(* that lies within the part is one of the part.                           *)
LEMMA PriInPart ==
  ASSUME NEW s \in Seq(Byte), NEW m \in Nat \ {0}, NEW n \in Nat, n <= Len(s), m <= n + 1,
         NEW k \in Nat \ {0}, NEW e \in Nat
  PROVE  e \in PriEnds(SubSeq(s, m, n), k)
           <=> (e + m - 1 \in PriEnds(s, k + m - 1) /\ e + m - 1 <= n)
<1> DEFINE t == SubSeq(s, m, n)
<1>1. t \in Seq(Byte) /\ Len(t) = n - m + 1
  OBVIOUS
<1>2. \A j \in 1..Len(t) : t[j] = s[j + m - 1]
  OBVIOUS
<1>3. Len(t) \in Nat /\ Len(s) \in Nat
  BY <1>1
<1> HIDE DEF t
<1>4. ASSUME e \in PriEnds(t, k)
      PROVE  e + m - 1 \in PriEnds(s, k + m - 1) /\ e + m - 1 <= n
  <2>1. e \in (k + 2)..(k + 4) /\ e <= Len(t) /\ t[k] = "<" /\ t[e] = ">"
        /\ \A j \in (k + 1)..(e - 1) : t[j] = "digit"
    BY <1>4 DEF PriEnds
  <2>2. k \in 1..Len(t) /\ e \in 1..Len(t)
    BY <1>3, <2>1
  <2>3. s[k + m - 1] = "<" /\ s[e + m - 1] = ">"
    BY <1>2, <2>1, <2>2
  <2>4. \A j \in (k + m - 1 + 1)..(e + m - 1 - 1) : s[j] = "digit"
    <3> SUFFICES ASSUME NEW j \in (k + m - 1 + 1)..(e + m - 1 - 1) PROVE s[j] = "digit"
      OBVIOUS
    <3>1. j - m + 1 \in (k + 1)..(e - 1) /\ j - m + 1 \in 1..Len(t) /\ j - m + 1 + m - 1 = j
      BY <1>3, <2>1
    <3>2. t[j - m + 1] = "digit"
      BY <2>1, <3>1
    <3>3. QED
      BY <1>2, <3>1, <3>2
  <2>5. e + m - 1 \in (k + m - 1 + 2)..(k + m - 1 + 4) /\ e + m - 1 <= Len(s) /\ e + m - 1 <= n
    BY <1>1, <1>3, <2>1
  <2>6. QED
    BY <2>3, <2>4, <2>5 DEF PriEnds
<1>5. ASSUME e + m - 1 \in PriEnds(s, k + m - 1), e + m - 1 <= n
      PROVE  e \in PriEnds(t, k)
  <2>1. e + m - 1 \in (k + m - 1 + 2)..(k + m - 1 + 4) /\ s[k + m - 1] = "<" /\ s[e + m - 1] = ">"
        /\ \A j \in (k + m - 1 + 1)..(e + m - 1 - 1) : s[j] = "digit"
    BY <1>5 DEF PriEnds
  <2>2. k \in 1..Len(t) /\ e \in 1..Len(t)
    BY <1>1, <1>3, <1>5, <2>1
  <2>3. t[k] = "<" /\ t[e] = ">"
    BY <1>2, <2>1, <2>2
  <2>4. \A j \in (k + 1)..(e - 1) : t[j] = "digit"
    <3> SUFFICES ASSUME NEW j \in (k + 1)..(e - 1) PROVE t[j] = "digit"
      OBVIOUS
    <3>1. j + m - 1 \in (k + m - 1 + 1)..(e + m - 1 - 1) /\ j \in 1..Len(t)
      BY <1>3, <2>2
    <3>2. s[j + m - 1] = "digit"
      BY <2>1, <3>1
    <3>3. QED
      BY <1>2, <3>1, <3>2
  <2>5. e \in (k + 2)..(k + 4) /\ e <= Len(t)
    BY <2>1, <2>2
  <2>6. QED
    BY <2>3, <2>4, <2>5 DEF PriEnds
<1>6. QED
  BY <1>4, <1>5 DEF t

(* A nonempty set of natural numbers has a least element. *)
LEMMA LeastPosition ==
  ASSUME NEW S \in SUBSET Nat, S # {}
  PROVE  \E n \in S : \A m \in S : n <= m
<1>1. PICK n \in S : \A m \in S : ~(<<m, n>> \in OpToRel(<, Nat))
  BY NatLessThanWellFounded, WFMin
<1>2. \A m \in S : <<m, n>> \in OpToRel(<, Nat) <=> m < n
  BY DEF OpToRel
<1>3. \A m \in S : ~(m < n)
  BY <1>1, <1>2, Zenon
<1> QED
  BY <1>3

(* Leftmost is the least of the matches (regexp.FindIndex). *)
LEMMA LeftmostIs ==
  ASSUME NEW S \in SUBSET Nat, S # {}
  PROVE  Leftmost(S) \in S /\ \A m \in S : Leftmost(S) <= m
  BY LeastPosition DEF Leftmost

(* It is the match that is not after any other. *)
LEMMA LeftmostEq ==
  ASSUME NEW S \in SUBSET Nat, NEW n \in S, \A m \in S : n <= m
  PROVE  Leftmost(S) = n
<1>1. Leftmost(S) \in S /\ \A m \in S : Leftmost(S) <= m
  BY LeftmostIs
<1>2. Leftmost(S) \in Nat /\ n \in Nat /\ Leftmost(S) <= n /\ n <= Leftmost(S)
  BY <1>1
<1> QED
  BY <1>2

(* A bounded nonempty set of natural numbers has a greatest element. *)
LEMMA GreatestPosition ==
  ASSUME NEW N \in Nat, NEW S \in SUBSET (0..N), S # {}
  PROVE  \E n \in S : \A m \in S : m <= n
<1> DEFINE D == {k \in Nat : \E m \in S : k = N - m}
<1>1. D \in SUBSET Nat /\ D # {}
  <2>1. PICK m \in S : TRUE
    OBVIOUS
  <2>2. N - m \in D
    BY <2>1
  <2> QED
    BY <2>2
<1>2. PICK k \in D : \A j \in D : k <= j
  <2> HIDE DEF D
  <2> QED
    BY <1>1, LeastPosition
<1>3. PICK n \in S : k = N - n
  BY <1>2
<1>4. \A m \in S : m <= n
  <2> SUFFICES ASSUME NEW m \in S PROVE m <= n
    OBVIOUS
  <2>1. N - m \in D
    OBVIOUS
  <2>2. k <= N - m /\ m \in Nat /\ n \in Nat
    BY <1>2, <2>1
  <2> QED
    BY <1>3, <2>2
<1> QED
  BY <1>4

(* What strings.TrimRight keeps: everything up to the last byte that is    *)
(* not in the cutset.                                                      *)
LEMMA TrimShape ==
  ASSUME NEW B, NEW s \in Seq(B), NEW C
  PROVE  \E n \in 0..Len(s) :
           /\ TrimRight(s, C) = SubSeq(s, 1, n)
           /\ \A j \in (n + 1)..Len(s) : s[j] \in C
           /\ n > 0 => s[n] \notin C
<1>0. Len(s) \in Nat
  OBVIOUS
<1>1. CASE Kept(s, C) = {}
  <2>1. \A j \in 1..Len(s) : s[j] \in C
    BY <1>1 DEF Kept
  <2>2. TrimRight(s, C) = SubSeq(s, 1, 0)
    BY <1>1 DEF TrimRight
  <2> QED
    BY <1>0, <2>1, <2>2
<1>2. CASE Kept(s, C) # {}
  <2>1. Kept(s, C) \in SUBSET (0..Len(s))
    BY DEF Kept
  <2>2. \E n \in Kept(s, C) : \A m \in Kept(s, C) : m <= n
    BY <1>0, <1>2, <2>1, GreatestPosition
  <2>3. PICK n \in Kept(s, C) : /\ \A m \in Kept(s, C) : m <= n
                                /\ TrimRight(s, C) = SubSeq(s, 1, n)
    <3> DEFINE n == CHOOSE n \in Kept(s, C) : \A m \in Kept(s, C) : m <= n
    <3>1. n \in Kept(s, C) /\ \A m \in Kept(s, C) : m <= n
      BY <2>2
    <3>2. TrimRight(s, C) = SubSeq(s, 1, n)
      BY <1>2 DEF TrimRight
    <3> HIDE DEF n
    <3> QED
      BY <3>1, <3>2
  <2>4. n \in 1..Len(s) /\ s[n] \notin C
    BY DEF Kept
  <2>5. \A j \in (n + 1)..Len(s) : s[j] \in C
    <3> SUFFICES ASSUME NEW j \in (n + 1)..Len(s), s[j] \notin C PROVE FALSE
      OBVIOUS
    <3>1. j \in Kept(s, C)
      BY <1>0, <2>4 DEF Kept
    <3> QED
      BY <1>0, <2>3, <2>4, <3>1
  <2> QED
    BY <1>0, <2>3, <2>4, <2>5
<1> QED
  BY <1>1, <1>2

(* That place is the only one of its kind. *)
LEMMA TrimAs ==
  ASSUME NEW B, NEW s \in Seq(B), NEW C, NEW n \in 0..Len(s),
         \A j \in (n + 1)..Len(s) : s[j] \in C,
         n > 0 => s[n] \notin C
  PROVE  TrimRight(s, C) = SubSeq(s, 1, n)
<1>0. Len(s) \in Nat
  OBVIOUS
<1>1. PICK m \in 0..Len(s) : /\ TrimRight(s, C) = SubSeq(s, 1, m)
                             /\ \A j \in (m + 1)..Len(s) : s[j] \in C
                             /\ m > 0 => s[m] \notin C
  BY TrimShape
<1>2. ~(m < n)
  <2> SUFFICES ASSUME m < n PROVE FALSE
    OBVIOUS
  <2>1. n \in (m + 1)..Len(s) /\ n > 0
    BY <1>0
  <2> QED
    BY <1>1, <2>1
<1>3. ~(n < m)
  <2> SUFFICES ASSUME n < m PROVE FALSE
    OBVIOUS
  <2>1. m \in (n + 1)..Len(s) /\ m > 0
    BY <1>0
  <2> QED
    BY <1>1, <2>1
<1>4. m = n
  BY <1>0, <1>2, <1>3
<1> QED
  BY <1>1, <1>4

(* Bytes of the cutset at the end make no difference. *)
LEMMA TrimExtra ==
  ASSUME NEW B, NEW s \in Seq(B), NEW C, NEW n \in 0..Len(s),
         \A j \in (n + 1)..Len(s) : s[j] \in C
  PROVE  TrimRight(s, C) = TrimRight(SubSeq(s, 1, n), C)
<1> DEFINE t == SubSeq(s, 1, n)
<1>0. Len(s) \in Nat
  OBVIOUS
<1>1. t \in Seq(B) /\ Len(t) = n /\ \A j \in 1..n : t[j] = s[j]
  BY <1>0
<1> HIDE DEF t
<1>2. PICK m \in 0..Len(t) : /\ TrimRight(t, C) = SubSeq(t, 1, m)
                             /\ \A j \in (m + 1)..Len(t) : t[j] \in C
                             /\ m > 0 => t[m] \notin C
  BY <1>1, TrimShape
<1>3. m \in 0..Len(s) /\ m <= n
  BY <1>0, <1>1
<1>4. \A j \in (m + 1)..Len(s) : s[j] \in C
  <2> SUFFICES ASSUME NEW j \in (m + 1)..Len(s) PROVE s[j] \in C
    OBVIOUS
  <2>1. CASE j <= n
    BY <1>0, <1>1, <1>2, <1>3, <2>1
  <2>2. CASE j > n
    <3>1. j \in (n + 1)..Len(s)
      BY <1>0, <2>2
    <3> QED
      BY <3>1
  <2> QED
    BY <1>0, <2>1, <2>2
<1>5. m > 0 => s[m] \notin C
  BY <1>0, <1>1, <1>2, <1>3
<1>6. TrimRight(s, C) = SubSeq(s, 1, m)
  BY <1>3, <1>4, <1>5, TrimAs
<1>7. SubSeq(t, 1, m) = SubSeq(s, 1, m)
  BY <1>0, <1>1, <1>3 DEF t
<1> QED
  BY <1>2, <1>6, <1>7 DEF t

(* A trimmed text is no other bytes than those of the text. *)
LEMMA TrimType ==
  ASSUME NEW B, NEW s \in Seq(B), NEW C
  PROVE  /\ TrimRight(s, C) \in Seq(B)
         /\ Len(TrimRight(s, C)) <= Len(s)
         /\ TrimRight(s, C) = SubSeq(s, 1, Len(TrimRight(s, C)))
<1>1. PICK n \in 0..Len(s) : TrimRight(s, C) = SubSeq(s, 1, n)
  BY TrimShape
<1>2. SubSeq(s, 1, n) \in Seq(B) /\ Len(SubSeq(s, 1, n)) = n
  OBVIOUS
<1> QED
  BY <1>1, <1>2

(* The same for strings.Trim. *)
LEMMA TrimBothType ==
  ASSUME NEW B, NEW s \in Seq(B), NEW C
  PROVE  Trim(s, C) \in Seq(B)
<1>1. CASE Kept(s, C) = {}
  BY <1>1 DEF Trim
<1>2. CASE Kept(s, C) # {}
  <2>1. Kept(s, C) \in SUBSET Nat /\ Kept(s, C) \in SUBSET (1..Len(s))
    BY DEF Kept
  <2>2. Leftmost(Kept(s, C)) \in Kept(s, C)
    BY <1>2, <2>1, LeftmostIs
  <2>3. Leftmost(Kept(s, C)) \in 1..Len(s)
    BY <2>1, <2>2
  <2>4. TrimRight(s, C) \in Seq(B)
    BY TrimType
  <2>5. SubSeq(TrimRight(s, C), Leftmost(Kept(s, C)), Len(TrimRight(s, C))) \in Seq(B)
    BY <2>3, <2>4
  <2> QED
    BY <1>2, <2>5 DEF Trim
<1> QED
  BY <1>1, <1>2

(* A text parses if the first part of it does. *)
LEMMA ParsesMore ==
  ASSUME NEW s \in Seq(Byte), NEW n \in 0..Len(s), Parses(SubSeq(s, 1, n))
  PROVE  Parses(s)
<1> DEFINE t == SubSeq(s, 1, n)
<1>0. Len(s) \in Nat
  OBVIOUS
<1>1. t \in Seq(Byte) /\ Len(t) = n /\ \A j \in 1..n : t[j] = s[j]
  BY <1>0
<1>2. PICK k \in 1..Len(t) : \E e \in PriEnds(t, k) : e + 2 <= Len(t) /\ t[e + 1] = "head"
  BY DEF Parses
<1>3. PICK e \in PriEnds(t, k) : e + 2 <= Len(t) /\ t[e + 1] = "head"
  BY <1>2
<1> HIDE DEF t
<1>4. k \in Nat \ {0} /\ e \in Nat
  BY <1>1, <1>3, PriShape
<1>5. e \in PriEnds(s, k)
  <2>1. e + 1 - 1 \in PriEnds(s, k + 1 - 1)
    BY <1>0, <1>3, <1>4, PriInPart DEF t
  <2> QED
    BY <1>4, <2>1
<1>6. k \in 1..Len(s) /\ e + 2 <= Len(s) /\ s[e + 1] = "head"
  BY <1>0, <1>1, <1>3, <1>4
<1> QED
  BY <1>5, <1>6 DEF Parses

-----------------------------------------------------------------------------
(* About the delimiter: a buffer that holds the bytes first to p of a      *)
(* stream s gets the byte p + 1, or is flushed.                            *)

(* A delimiter with another buffer. *)
LEMMA WithBuffer ==
  ASSUME NEW d \in Delimiter, NEW x
  PROVE  [d EXCEPT !.buffer = x] = [buffer |-> x, regex |-> d.regex]
<1>1. PICK b, r : d = [buffer |-> b, regex |-> r]
  BY DEF Delimiter
<1> QED
  BY <1>1

(* The byte is put behind the others. *)
LEMMA BufferGrows ==
  ASSUME NEW s \in Seq(Byte), NEW p \in Nat, p < Len(s), NEW first \in 1..(p + 1)
  PROVE  /\ Append(SubSeq(s, first, p), s[p + 1]) = SubSeq(s, first, p + 1)
         /\ SubSeq(s, first, p + 1) \in Seq(Byte)
         /\ Len(SubSeq(s, first, p + 1)) = p + 2 - first
<1>1. Len(s) \in Nat /\ p + 1 \in 1..Len(s) /\ s[p + 1] \in Byte
  OBVIOUS
<1>2. /\ SubSeq(s, first, p + 1) \in Seq(Byte)
      /\ Len(SubSeq(s, first, p + 1)) = p + 2 - first
      /\ SubSeq(s, first, p) \in Seq(Byte)
      /\ Len(SubSeq(s, first, p)) = p + 1 - first
  BY <1>1
<1>3. \A j \in 1..(p + 1 - first) : SubSeq(s, first, p)[j] = s[first + j - 1]
  BY <1>1
<1>4. \A j \in 1..(p + 2 - first) : SubSeq(s, first, p + 1)[j] = s[first + j - 1]
  BY <1>1
<1> DEFINE t == SubSeq(s, first, p)
           u == SubSeq(s, first, p + 1)
           a == Append(t, s[p + 1])
<1>5. a \in Seq(Byte) /\ Len(a) = p + 2 - first
  BY <1>1, <1>2
<1>6. \A j \in 1..(p + 2 - first) : a[j] = u[j]
  <2> SUFFICES ASSUME NEW j \in 1..(p + 2 - first) PROVE a[j] = u[j]
    OBVIOUS
  <2>1. CASE j \in 1..(p + 1 - first)
    BY <1>1, <1>2, <1>3, <1>4, <2>1
  <2>2. CASE j = p + 2 - first
    <3>1. a[j] = s[p + 1]
      BY <1>1, <1>2, <2>2
    <3>2. u[j] = s[first + j - 1] /\ first + j - 1 = p + 1
      BY <1>4, <2>2
    <3> QED
      BY <3>1, <3>2
  <2> QED
    BY <2>1, <2>2
<1>7. u \in Seq(Byte) /\ Len(u) = p + 2 - first
  BY <1>2
<1>8. a = u
  <2> HIDE DEF a, u
  <2> QED
    BY <1>5, <1>6, <1>7
<1> QED
  BY <1>2, <1>8

(* The priorities in the grown buffer. *)
LEMMA PriInGrown ==
  ASSUME NEW s \in Seq(Byte), NEW p \in Nat, p < Len(s), NEW first \in 1..(p + 1)
  PROVE  \A k \in Nat \ {0}, e \in Nat :
           e \in PriEnds(SubSeq(s, first, p + 1), k)
             <=> (e + first - 1 \in PriEnds(s, k + first - 1) /\ e + first - 1 <= p + 1)
<1> DEFINE n == p + 1
<1>1. n \in Nat /\ n <= Len(s) /\ first \in Nat \ {0} /\ first <= n + 1
  OBVIOUS
<1> HIDE DEF n
<1>2. \A k \in Nat \ {0}, e \in Nat :
        e \in PriEnds(SubSeq(s, first, n), k)
          <=> (e + first - 1 \in PriEnds(s, k + first - 1) /\ e + first - 1 <= n)
  BY <1>1, PriInPart
<1> QED
  BY <1>2 DEF n

(* A part of a part of a stream. *)
LEMMA PartOfPart ==
  ASSUME NEW s \in Seq(Byte), NEW f \in Nat \ {0}, NEW n \in Nat, n <= Len(s), f <= n + 1,
         NEW i \in Nat \ {0}, NEW j \in Nat, j <= n - f + 1, i <= j + 1
  PROVE  SubSeq(SubSeq(s, f, n), i, j) = SubSeq(s, f + i - 1, f + j - 1)
<1>1. Len(s) \in Nat /\ SubSeq(s, f, n) \in Seq(Byte) /\ Len(SubSeq(s, f, n)) = n - f + 1
  OBVIOUS
<1> DEFINE t == SubSeq(s, f, n)
           u == SubSeq(t, i, j)
           v == SubSeq(s, f + i - 1, f + j - 1)
<1>2. u \in Seq(Byte) /\ Len(u) = j - i + 1
  BY <1>1
<1>3. v \in Seq(Byte) /\ Len(v) = j - i + 1
  BY <1>1
<1>4. \A x \in 1..(j - i + 1) : u[x] = v[x]
  <2> SUFFICES ASSUME NEW x \in 1..(j - i + 1) PROVE u[x] = v[x]
    OBVIOUS
  <2>1. u[x] = t[i + x - 1]
    BY <1>1
  <2>2. i + x - 1 \in 1..(n - f + 1)
    OBVIOUS
  <2>3. t[i + x - 1] = s[f + (i + x - 1) - 1]
    BY <1>1, <2>2
  <2>4. v[x] = s[(f + i - 1) + x - 1]
    BY <1>1
  <2>5. f + (i + x - 1) - 1 = (f + i - 1) + x - 1
    OBVIOUS
  <2> QED
    BY <2>1, <2>3, <2>4, <2>5
<1> HIDE DEF u, v
<1>5. u = v
  BY <1>2, <1>3, <1>4
<1> QED
  BY <1>5 DEF u, v

(* Push while the first message is sought: nothing is returned, and the    *)
(* buffer is cut when a priority is complete.                              *)
LEMMA PushStart ==
  ASSUME NEW s \in Seq(Byte), NEW p \in Nat, p < Len(s), NEW first \in 1..(p + 1),
         NEW d \in Delimiter, d.buffer = SubSeq(s, first, p), d.regex = "start"
  PROVE  /\ ~Push(d, s[p + 1]).match
         /\ \/ /\ Push(d, s[p + 1]).delimiter
                    = [buffer |-> SubSeq(s, first, p + 1), regex |-> "start"]
               /\ \A a \in first..Len(s) : p + 1 \notin PriEnds(s, a)
            \/ \E a \in first..Len(s) :
                 /\ p + 1 \in PriEnds(s, a)
                 /\ Push(d, s[p + 1]).delimiter
                      = [buffer |-> SubSeq(s, a, p + 1), regex |-> "run"]
<1> DEFINE t == SubSeq(s, first, p + 1)
<1>1. Append(d.buffer, s[p + 1]) = t /\ t \in Seq(Byte) /\ Len(t) = p + 2 - first
  BY BufferGrows
<1>2. Len(s) \in Nat /\ p + 1 <= Len(s) /\ p + 1 \in Nat /\ first \in Nat \ {0} /\ first <= p + 2
  OBVIOUS
<1>0. \A k \in Nat \ {0}, e \in Nat :
        e \in PriEnds(t, k) <=> (e + first - 1 \in PriEnds(s, k + first - 1) /\ e + first - 1 <= p + 1)
  BY PriInGrown
<1> HIDE DEF t
<1>3. \A k \in 1..Len(t) : Len(t) \in PriEnds(t, k) <=> p + 1 \in PriEnds(s, k + first - 1)
  <2> SUFFICES ASSUME NEW k \in 1..Len(t)
               PROVE  Len(t) \in PriEnds(t, k) <=> p + 1 \in PriEnds(s, k + first - 1)
    OBVIOUS
  <2> DEFINE e == Len(t)
             x == e + first - 1
             y == k + first - 1
  <2>1. e \in Nat /\ k \in Nat \ {0} /\ x = p + 1 /\ x <= p + 1
    BY <1>1, <1>2
  <2>2. e \in PriEnds(t, k) <=> (x \in PriEnds(s, y) /\ x <= p + 1)
    BY <1>0, <2>1
  <2> HIDE DEF e, x, y
  <2>3. e \in PriEnds(t, k) <=> p + 1 \in PriEnds(s, y)
    BY <2>1, <2>2
  <2> QED
    BY <2>3 DEF e, y
<1>4. CASE StartMatches(t) = {}
  <2>1. Push(d, s[p + 1]) = NoLine([d EXCEPT !.buffer = t])
    BY <1>1, <1>4 DEF Push
  <2>2. [d EXCEPT !.buffer = t] = [buffer |-> t, regex |-> "start"]
    <3>1. d = [buffer |-> d.buffer, regex |-> "start"]
      BY DEF Delimiter
    <3> QED
      BY <3>1
  <2>3. \A a \in first..Len(s) : p + 1 \notin PriEnds(s, a)
    <3> SUFFICES ASSUME NEW a \in first..Len(s), p + 1 \in PriEnds(s, a) PROVE FALSE
      OBVIOUS
    <3>1. a + 2 <= p + 1
      BY <1>2, PriShape
    <3>2. a - first + 1 \in 1..Len(t) /\ (a - first + 1) + first - 1 = a
      BY <1>1, <1>2, <3>1
    <3>3. a - first + 1 \in StartMatches(t)
      BY <1>3, <3>2 DEF StartMatches
    <3> QED
      BY <1>4, <3>3
  <2> QED
    BY <2>1, <2>2, <2>3 DEF NoLine, t
<1>5. CASE StartMatches(t) # {}
  <2> DEFINE k == Leftmost(StartMatches(t))
  <2>1. StartMatches(t) \in SUBSET Nat /\ StartMatches(t) \in SUBSET (1..Len(t))
    BY <1>1 DEF StartMatches
  <2>2. k \in StartMatches(t)
    BY <1>5, <2>1, LeftmostIs
  <2>3. Push(d, s[p + 1]) = NoLine([buffer |-> SubSeq(t, k, Len(t)), regex |-> "run"])
    BY <1>1, <1>5 DEF Push
  <2> HIDE DEF k
  <2>4. k \in 1..Len(t) /\ p + 1 \in PriEnds(s, k + first - 1)
    BY <1>3, <2>1, <2>2 DEF StartMatches
  <2>5. k + first - 1 \in first..Len(s)
    BY <1>1, <1>2, <2>4
  <2>6. SubSeq(t, k, Len(t)) = SubSeq(s, k + first - 1, p + 1)
    <3>1. k \in Nat \ {0} /\ Len(t) \in Nat /\ Len(t) <= (p + 1) - first + 1 /\ k <= Len(t) + 1
      BY <1>1, <1>2, <2>4
    <3>2. SubSeq(t, k, Len(t)) = SubSeq(s, first + k - 1, first + Len(t) - 1)
      BY <1>2, <3>1, PartOfPart DEF t
    <3>3. first + Len(t) - 1 = p + 1 /\ first + k - 1 = k + first - 1
      BY <1>1, <1>2, <3>1
    <3> QED
      BY <3>2, <3>3
  <2> DEFINE a == k + first - 1
  <2>7. /\ Push(d, s[p + 1]).delimiter = [buffer |-> SubSeq(s, a, p + 1), regex |-> "run"]
        /\ ~Push(d, s[p + 1]).match
    BY <2>3, <2>6 DEF NoLine
  <2>8. a \in first..Len(s) /\ p + 1 \in PriEnds(s, a)
    BY <2>4, <2>5
  <2> HIDE DEF a
  <2> QED
    BY <2>7, <2>8
<1> QED
  BY <1>4, <1>5

(* Push once a message was found, in a buffer with no complete priority    *)
(* after a newline: it returns the bytes before the newline, the line end  *)
(* not included, when such a priority is complete, and keeps the others.   *)
LEMMA PushRun ==
  ASSUME NEW s \in Seq(Byte), NEW p \in Nat, p < Len(s), NEW first \in 1..(p + 1),
         NEW d \in Delimiter, d.buffer = SubSeq(s, first, p), d.regex = "run",
         \A b \in 1..Len(s) : \A e \in PriEnds(s, b) :
           (b > 1 /\ first < b /\ s[b - 1] = "\n") => p < e
  PROVE  \/ /\ ~Push(d, s[p + 1]).match
            /\ Push(d, s[p + 1]).delimiter
                 = [buffer |-> SubSeq(s, first, p + 1), regex |-> "run"]
            /\ \A b \in 1..Len(s) :
                 (b > 1 /\ first < b /\ s[b - 1] = "\n") => p + 1 \notin PriEnds(s, b)
         \/ \E b \in 1..Len(s) :
              /\ b > 1 /\ first < b /\ s[b - 1] = "\n" /\ p + 1 \in PriEnds(s, b)
              /\ Push(d, s[p + 1]).match
              /\ Push(d, s[p + 1]).log = TrimRight(SubSeq(s, first, b - 2), {"\r"})
              /\ Push(d, s[p + 1]).delimiter
                   = [buffer |-> SubSeq(s, b, p + 1), regex |-> "run"]
<1> DEFINE t == SubSeq(s, first, p + 1)
<1>1. Append(d.buffer, s[p + 1]) = t /\ t \in Seq(Byte) /\ Len(t) = p + 2 - first
  BY BufferGrows
<1>2. Len(s) \in Nat /\ p + 1 <= Len(s) /\ p + 1 \in Nat /\ first \in Nat \ {0} /\ first <= p + 2
  OBVIOUS
<1>0. \A k \in Nat \ {0}, e \in Nat :
        e \in PriEnds(t, k) <=> (e + first - 1 \in PriEnds(s, k + first - 1) /\ e + first - 1 <= p + 1)
  BY PriInGrown
<1>3. \A k \in 1..Len(t) : t[k] = s[first + k - 1]
  BY <1>1, <1>2
<1> HIDE DEF t
<1>4. \A k \in RunMatches(t) :
        /\ k \in 1..(Len(t) - 1) /\ first + k \in 1..Len(s)
        /\ first + k > 1 /\ first < first + k
        /\ s[first + k - 1] = "\n" /\ p + 1 \in PriEnds(s, first + k)
  <2> SUFFICES ASSUME NEW k \in RunMatches(t)
               PROVE  /\ k \in 1..(Len(t) - 1) /\ first + k \in 1..Len(s)
                      /\ first + k > 1 /\ first < first + k
                      /\ s[first + k - 1] = "\n" /\ p + 1 \in PriEnds(s, first + k)
    OBVIOUS
  <2>1. k \in 1..(Len(t) - 1) /\ t[k] = "\n" /\ PriEnds(t, k + 1) # {}
    BY DEF RunMatches, PriAt
  <2>2. PICK e : e \in PriEnds(t, k + 1)
    BY <2>1
  <2>3. k + 1 \in Nat \ {0} /\ k \in 1..Len(t)
    BY <1>1, <1>2, <2>1
  <2>4. e \in Nat
    BY <1>1, <2>2, <2>3, PriShape
  <2>5. e + first - 1 \in PriEnds(s, k + 1 + first - 1) /\ e + first - 1 <= p + 1
    BY <1>0, <2>2, <2>3, <2>4
  <2>6. s[first + k - 1] = "\n"
    BY <1>3, <2>1, <2>3
  <2> DEFINE b == first + k
             f == e + first - 1
  <2>7. k + 1 + first - 1 = b /\ b \in 1..Len(s) /\ b > 1 /\ first < b /\ b - 1 = first + k - 1
    BY <1>1, <1>2, <2>1, <2>3
  <2>8. f \in PriEnds(s, b) /\ f <= p + 1 /\ f \in Int
    BY <1>2, <2>4, <2>5, <2>7
  <2>9. s[b - 1] = "\n"
    BY <2>6, <2>7
  <2> HIDE DEF b, f
  <2>10. p < f
    BY <2>7, <2>8, <2>9
  <2>11. f = p + 1
    BY <2>8, <2>10
  <2>12. p + 1 \in PriEnds(s, b)
    BY <2>8, <2>11
  <2> QED
    BY <2>1, <2>6, <2>7, <2>12 DEF b
<1>5. CASE RunMatches(t) = {}
  <2>1. Push(d, s[p + 1]) = NoLine([d EXCEPT !.buffer = t])
    BY <1>1, <1>5 DEF Push
  <2>2. [d EXCEPT !.buffer = t] = [buffer |-> t, regex |-> "run"]
    <3>1. d = [buffer |-> d.buffer, regex |-> "run"]
      BY DEF Delimiter
    <3> QED
      BY <3>1
  <2>3. \A b \in 1..Len(s) :
          (b > 1 /\ first < b /\ s[b - 1] = "\n") => p + 1 \notin PriEnds(s, b)
    <3> SUFFICES ASSUME NEW b \in 1..Len(s), first < b, s[b - 1] = "\n",
                        p + 1 \in PriEnds(s, b)
                 PROVE  FALSE
      OBVIOUS
    <3>1. b + 2 <= p + 1
      BY <1>2, PriShape
    <3> DEFINE k == b - first
               e == p + 2 - first
    <3>2. k \in 1..(Len(t) - 1) /\ k \in 1..Len(t) /\ first + k - 1 = b - 1
      BY <1>1, <1>2, <3>1
    <3>3. t[k] = "\n"
      BY <1>3, <3>2
    <3>4. k + 1 \in Nat \ {0} /\ e \in Nat /\ e + first - 1 = p + 1 /\ k + 1 + first - 1 = b
      BY <1>2, <3>2
    <3>5. e + first - 1 \in PriEnds(s, k + 1 + first - 1) /\ e + first - 1 <= p + 1
      BY <1>2, <3>4
    <3> HIDE DEF k, e
    <3>6. e \in PriEnds(t, k + 1)
      BY <1>0, <3>4, <3>5
    <3>7. k \in RunMatches(t)
      BY <3>2, <3>3, <3>6 DEF RunMatches, PriAt
    <3> QED
      BY <1>5, <3>7
  <2> QED
    BY <2>1, <2>2, <2>3 DEF NoLine, t
<1>6. CASE RunMatches(t) # {}
  <2> DEFINE k == Leftmost(RunMatches(t))
  <2>1. RunMatches(t) \in SUBSET Nat
    BY <1>1 DEF RunMatches
  <2>2. k \in RunMatches(t)
    BY <1>6, <2>1, LeftmostIs
  <2>3. Push(d, s[p + 1]) = [delimiter |-> [d EXCEPT !.buffer = SubSeq(t, k + 1, Len(t))],
                             log |-> TrimRight(SubSeq(t, 1, k - 1), {"\r"}),
                             match |-> TRUE]
    BY <1>1, <1>6 DEF Push
  <2> HIDE DEF k
  <2> DEFINE b == first + k
  <2>4. /\ k \in 1..(Len(t) - 1) /\ b \in 1..Len(s)
        /\ b > 1 /\ first < b
        /\ s[b - 1] = "\n" /\ p + 1 \in PriEnds(s, b)
    BY <1>4, <2>2
  <2>5. SubSeq(t, k + 1, Len(t)) = SubSeq(s, b, p + 1)
    <3> DEFINE i == k + 1
               j == Len(t)
               n == p + 1
    <3>1. /\ i \in Nat \ {0} /\ j \in Nat /\ n \in Nat /\ n <= Len(s) /\ first <= n + 1
          /\ j <= n - first + 1 /\ i <= j + 1
      BY <1>1, <1>2, <2>4
    <3>2. first + j - 1 = n /\ first + i - 1 = b
      BY <1>1, <1>2, <2>4
    <3>3. t = SubSeq(s, first, n)
      BY DEF t
    <3> HIDE DEF i, j, n, b
    <3>4. SubSeq(SubSeq(s, first, n), i, j) = SubSeq(s, first + i - 1, first + j - 1)
      BY <1>2, <3>1, PartOfPart
    <3>5. SubSeq(t, i, j) = SubSeq(s, b, n)
      BY <3>2, <3>3, <3>4
    <3> QED
      BY <3>5 DEF i, j, n
  <2>6. SubSeq(t, 1, k - 1) = SubSeq(s, first, b - 2)
    <3>1. 1 \in Nat \ {0} /\ k - 1 \in Nat /\ k - 1 <= (p + 1) - first + 1 /\ 1 <= (k - 1) + 1
      BY <1>1, <1>2, <2>4
    <3>2. SubSeq(t, 1, k - 1) = SubSeq(s, first + 1 - 1, first + (k - 1) - 1)
      BY <1>2, <3>1, PartOfPart DEF t
    <3>3. first + 1 - 1 = first /\ first + (k - 1) - 1 = b - 2
      BY <1>2, <2>4
    <3> QED
      BY <3>2, <3>3
  <2>7. [d EXCEPT !.buffer = SubSeq(t, k + 1, Len(t))]
          = [buffer |-> SubSeq(s, b, p + 1), regex |-> "run"]
    BY <2>5, WithBuffer
  <2> HIDE DEF b
  <2>8. /\ Push(d, s[p + 1]).match
        /\ Push(d, s[p + 1]).log = TrimRight(SubSeq(s, first, b - 2), {"\r"})
        /\ Push(d, s[p + 1]).delimiter = [buffer |-> SubSeq(s, b, p + 1), regex |-> "run"]
    <3> DEFINE l == TrimRight(SubSeq(t, 1, k - 1), {"\r"})
               x == [d EXCEPT !.buffer = SubSeq(t, k + 1, Len(t))]
    <3>1. Push(d, s[p + 1]) = [delimiter |-> x, log |-> l, match |-> TRUE]
      BY <2>3
    <3>2. l = TrimRight(SubSeq(s, first, b - 2), {"\r"})
      BY <2>6
    <3>3. x = [buffer |-> SubSeq(s, b, p + 1), regex |-> "run"]
      BY <2>7
    <3> HIDE DEF l, x
    <3>4. /\ Push(d, s[p + 1]).match
          /\ Push(d, s[p + 1]).log = l
          /\ Push(d, s[p + 1]).delimiter = x
      BY <3>1
    <3> QED
      BY <3>2, <3>3, <3>4
  <2> QED
    BY <2>4, <2>8
<1> QED
  BY <1>5, <1>6

(* Vestige empties the buffer; it returns all of it, line ends at the end  *)
(* not included, if there is a priority in it.                             *)
LEMMA VestigeOf ==
  ASSUME NEW s \in Seq(Byte), NEW p \in Nat, p <= Len(s), NEW first \in 1..(p + 1),
         NEW d \in Delimiter, d.buffer = SubSeq(s, first, p)
  PROVE  /\ Vestige(d).delimiter = [buffer |-> << >>, regex |-> d.regex]
         /\ \/ /\ ~Vestige(d).match
               /\ \A a \in first..Len(s) : \A e \in PriEnds(s, a) : p < e
            \/ /\ Vestige(d).match
               /\ Vestige(d).log = TrimRight(SubSeq(s, first, p), {"\r", "\n"})
               /\ \E a \in first..Len(s) : \E e \in PriEnds(s, a) : e <= p
<1> DEFINE t == SubSeq(s, first, p)
<1>1. Len(s) \in Nat /\ first \in Nat \ {0} /\ first <= p + 1
  OBVIOUS
<1>2. t \in Seq(Byte) /\ Len(t) = p + 1 - first
  BY <1>1
<1>3. \A k \in Nat \ {0}, e \in Nat :
        e \in PriEnds(t, k) <=> (e + first - 1 \in PriEnds(s, k + first - 1) /\ e + first - 1 <= p)
  BY <1>1, PriInPart
<1>4. [d EXCEPT !.buffer = << >>] = [buffer |-> << >>, regex |-> d.regex]
  BY WithBuffer
<1> HIDE DEF t
<1>5. CASE SyslogMatches(t) = {}
  <2>1. Vestige(d) = NoLine([d EXCEPT !.buffer = << >>])
    BY <1>5 DEF Vestige, t
  <2>2. \A a \in first..Len(s) : \A e \in PriEnds(s, a) : p < e
    <3> SUFFICES ASSUME NEW a \in first..Len(s), NEW e \in PriEnds(s, a), ~(p < e) PROVE FALSE
      OBVIOUS
    <3>1. e \in Nat /\ a + 2 <= e /\ e <= p
      BY <1>1, PriShape
    <3> DEFINE k == a - first + 1
               f == e - first + 1
    <3>2. k \in Nat \ {0} /\ f \in Nat /\ k + first - 1 = a /\ f + first - 1 = e /\ k \in 1..Len(t)
      BY <1>1, <1>2, <3>1
    <3> HIDE DEF k, f
    <3>3. f \in PriEnds(t, k)
      BY <1>3, <3>1, <3>2
    <3>4. k \in SyslogMatches(t)
      BY <3>2, <3>3 DEF SyslogMatches, PriAt
    <3> QED
      BY <1>5, <3>4
  <2> QED
    BY <1>4, <2>1, <2>2 DEF NoLine
<1>6. CASE SyslogMatches(t) # {}
  <2>1. Vestige(d) = [delimiter |-> [d EXCEPT !.buffer = << >>],
                      log |-> TrimRight(t, {"\r", "\n"}), match |-> TRUE]
    BY <1>6 DEF Vestige, t
  <2>2. PICK k \in 1..Len(t) : PriEnds(t, k) # {}
    BY <1>6 DEF SyslogMatches, PriAt
  <2>3. PICK e : e \in PriEnds(t, k)
    BY <2>2
  <2>4. k \in Nat \ {0} /\ e \in Nat
    BY <1>2, <2>3, PriShape
  <2>5. e + first - 1 \in PriEnds(s, k + first - 1) /\ e + first - 1 <= p
    BY <1>3, <2>3, <2>4
  <2>6. k + first - 1 \in first..Len(s)
    BY <1>1, <1>2, <2>2
  <2>7. \E a \in first..Len(s) : \E f \in PriEnds(s, a) : f <= p
    BY <2>5, <2>6
  <2> QED
    BY <1>4, <2>1, <2>7 DEF t
<1> QED
  BY <1>5, <1>6

-----------------------------------------------------------------------------
(* About the messages of a stream.                                         *)

(* A message begins with a priority, which follows a newline if there is a *)
(* priority before it.                                                     *)
LEMMA StartIs ==
  ASSUME NEW s \in Seq(Byte), NEW a \in Starts(s)
  PROVE  /\ a \in 1..Len(s) /\ a \in Nat \ {0}
         /\ \E e \in PriEnds(s, a) : TRUE
         /\ \A c \in 1..Len(s) : (c < a /\ PriEnds(s, c) # {}) => (a > 1 /\ s[a - 1] = "\n")
<1>1. a \in SyslogMatches(s) /\ (a = Leftmost(SyslogMatches(s)) \/ (a > 1 /\ s[a - 1] = "\n"))
  BY DEF Starts
<1>2. a \in 1..Len(s) /\ PriEnds(s, a) # {}
  BY <1>1 DEF SyslogMatches, PriAt
<1>3. SyslogMatches(s) \in SUBSET Nat
  BY DEF SyslogMatches
<1>4. \A c \in SyslogMatches(s) : Leftmost(SyslogMatches(s)) <= c
  BY <1>1, <1>3, LeftmostIs
<1>5. ASSUME NEW c \in 1..Len(s), c < a, PriEnds(s, c) # {}
      PROVE  a > 1 /\ s[a - 1] = "\n"
  <2>1. c \in SyslogMatches(s)
    BY <1>5 DEF SyslogMatches, PriAt
  <2>2. a # Leftmost(SyslogMatches(s))
    BY <1>2, <1>4, <1>5, <2>1
  <2> QED
    BY <1>1, <2>2
<1> QED
  BY <1>2, <1>5

(* The first priority begins a message. *)
LEMMA FirstStarts ==
  ASSUME NEW s \in Seq(Byte), NEW a \in 1..Len(s), PriEnds(s, a) # {},
         \A c \in 1..Len(s) : PriEnds(s, c) # {} => a <= c
  PROVE  a \in Starts(s)
<1>1. SyslogMatches(s) \in SUBSET Nat /\ a \in SyslogMatches(s)
      /\ \A c \in SyslogMatches(s) : a <= c
  BY DEF SyslogMatches, PriAt
<1>2. Leftmost(SyslogMatches(s)) = a
  BY <1>1, LeftmostEq
<1> QED
  BY <1>1, <1>2 DEF Starts

(* And so does a later one after a newline. *)
LEMMA LaterStarts ==
  ASSUME NEW s \in Seq(Byte), NEW a \in 1..Len(s), PriEnds(s, a) # {},
         a > 1, s[a - 1] = "\n",
         NEW c \in 1..Len(s), c < a, PriEnds(s, c) # {}
  PROVE  a \in Starts(s)
<1>1. SyslogMatches(s) \in SUBSET Nat /\ a \in SyslogMatches(s) /\ c \in SyslogMatches(s)
  BY DEF SyslogMatches, PriAt
<1>2. Leftmost(SyslogMatches(s)) \in Nat /\ Leftmost(SyslogMatches(s)) <= c
  BY <1>1, LeftmostIs
<1>3. a > Leftmost(SyslogMatches(s))
  BY <1>2
<1> QED
  BY <1>1, <1>3 DEF Starts

(* A message reaches to the one that begins next. *)
LEMMA MessageCut ==
  ASSUME NEW s \in Seq(Byte), NEW a \in Starts(s), NEW b \in Starts(s), a < b,
         \A c \in Starts(s) : a < c => b <= c
  PROVE  /\ Later(s, a) # {} /\ Leftmost(Later(s, a)) = b
         /\ Message(s, a) = TrimRight(SubSeq(s, a, b - 2), {"\r"})
<1>1. Later(s, a) \in SUBSET Nat
  BY StartIs DEF Later
<1>2. b \in Later(s, a) /\ \A c \in Later(s, a) : b <= c
  BY DEF Later
<1>3. Leftmost(Later(s, a)) = b
  BY <1>1, <1>2, LeftmostEq
<1> QED
  BY <1>2, <1>3 DEF Message

(* Flushing a buffer that begins with a message and holds nothing behind   *)
(* it but line ends returns the message, without the newlines at its end.  *)
LEMMA FlushedText ==
  ASSUME NEW s \in Seq(Byte), NEW a \in Nat \ {0}, NEW z \in Nat, z <= Len(s), a <= z + 1,
         NEW C \in SUBSET {"\r", "\n"},
         NEW t \in Nat, t <= Len(s), a <= t + 1,
         a + Len(TrimRight(SubSeq(s, a, z), C)) - 1 <= t,
         \A j \in (z + 1)..t : s[j] \in {"\r", "\n"}
  PROVE  TrimRight(SubSeq(s, a, t), {"\r", "\n"})
           = Unended(TrimRight(SubSeq(s, a, z), C))
<1> DEFINE u == SubSeq(s, a, z)
           w == SubSeq(s, a, t)
           m == TrimRight(u, C)
<1>1. Len(s) \in Nat
  OBVIOUS
<1>2. u \in Seq(Byte) /\ Len(u) = z - a + 1 /\ w \in Seq(Byte) /\ Len(w) = t - a + 1
  BY <1>1
<1>3. /\ \A j \in 1..(z - a + 1) : u[j] = s[a + j - 1]
      /\ \A j \in 1..(t - a + 1) : w[j] = s[a + j - 1]
  BY <1>1
<1>4. PICK n \in 0..Len(u) : m = SubSeq(u, 1, n) /\ \A j \in (n + 1)..Len(u) : u[j] \in C
  <2> HIDE DEF u
  <2> QED
    BY <1>2, TrimShape
<1>5. Len(m) = n
  <2> HIDE DEF u, m
  <2>1. Len(SubSeq(u, 1, n)) = n
    BY <1>2
  <2> QED
    BY <1>4, <2>1
<1>6. a + Len(m) - 1 <= t
  OBVIOUS
<1>7. n \in 0..Len(w)
  <2> HIDE DEF u, w, m
  <2> QED
    BY <1>2, <1>4, <1>5, <1>6
<1>8. SubSeq(w, 1, n) = m
  <2>1. SubSeq(SubSeq(s, a, z), 1, n) = SubSeq(s, a + 1 - 1, a + n - 1)
    <3>1. n \in Nat /\ n <= z - a + 1 /\ 1 <= n + 1 /\ 1 \in Nat \ {0}
      BY <1>2, <1>4
    <3> QED
      BY <3>1, PartOfPart
  <2>2. SubSeq(SubSeq(s, a, t), 1, n) = SubSeq(s, a + 1 - 1, a + n - 1)
    <3>1. n \in Nat /\ n <= t - a + 1 /\ 1 <= n + 1 /\ 1 \in Nat \ {0}
      BY <1>2, <1>7
    <3> QED
      BY <3>1, PartOfPart
  <2> QED
    BY <1>4, <2>1, <2>2
<1>9. \A j \in (n + 1)..Len(w) : w[j] \in {"\r", "\n"}
  <2> HIDE DEF u, w, m
  <2> SUFFICES ASSUME NEW j \in (n + 1)..Len(w) PROVE w[j] \in {"\r", "\n"}
    OBVIOUS
  <2>0. n \in Nat /\ j \in Nat /\ j > 0
    BY <1>2, <1>4
  <2>1. w[j] = s[a + j - 1]
    BY <1>2, <1>3, <2>0
  <2>2. CASE j \in (n + 1)..Len(u)
    <3>1. j \in 1..(z - a + 1)
      BY <1>2, <2>0, <2>2
    <3>2. u[j] = s[a + j - 1]
      BY <1>3, <3>1
    <3>3. u[j] \in C
      BY <1>4, <2>2
    <3> QED
      BY <2>1, <3>2, <3>3
  <2>3. CASE j \notin (n + 1)..Len(u)
    <3>1. a + j - 1 \in (z + 1)..t
      BY <1>2, <2>0, <2>3
    <3> QED
      BY <2>1, <3>1
  <2> QED
    BY <2>2, <2>3
<1> HIDE DEF u, w, m
<1>10. TrimRight(w, {"\r", "\n"}) = TrimRight(SubSeq(w, 1, n), {"\r", "\n"})
  BY <1>2, <1>7, <1>9, TrimExtra
<1> QED
  BY <1>8, <1>10 DEF Unended, u, w, m

-----------------------------------------------------------------------------
(* About the events of a source: it takes up the next text, and its event  *)
(* or another one's is put into the channel.                               *)

(* There are finitely many. *)
LEMMA OfFinite ==
  ASSUME NEW q, NEW r \in Readers, NEW n \in Nat
  PROVE  IsFiniteSet(Of(q, r, n)) /\ Cardinality(Of(q, r, n)) \in Nat
<1>1. IsFiniteSet(1..n)
  BY FS_Interval
<1>2. Of(q, r, n) \in SUBSET (1..n)
  BY DEF Of
<1>3. IsFiniteSet(Of(q, r, n))
  BY <1>1, <1>2, FS_Subset
<1> QED
  BY <1>3, FS_CardinalityType

(* The next text comes after all others and waits. *)
LEMMA DeliversNext ==
  ASSUME NEW q, NEW c, NEW ev, NEW new, NEW r \in Readers, NEW text,
         NEW cut \in SUBSET Nat, IsFiniteSet(cut), NEW a \in Nat, \A b \in cut : b < a,
         c # "send", Delivers(q, c, ev, r, cut, text), new.text = text[a]
  PROVE  Delivers(q, "send", new, r, cut \cup {a}, text)
<1> DEFINE cut2 == cut \cup {a}
<1>1. a \notin cut
  OBVIOUS
<1>2. Cardinality(cut2) = Cardinality(cut) + 1 /\ Cardinality(cut) \in Nat
  BY <1>1, FS_AddElement, FS_CardinalityType
<1>3. Cardinality(Of(q, r, Len(q))) = Cardinality(cut)
  BY <1>2 DEF Delivers
<1>4. InOrderIn(q, r, cut2, text)
  <2> SUFFICES ASSUME NEW j \in Of(q, r, Len(q))
               PROVE  \E x \in cut2 : /\ q[j].text = text[x]
                                      /\ Cardinality(Of(q, r, j)) = Cardinality({b \in cut2 : b <= x})
    BY DEF InOrderIn
  <2>1. PICK x \in cut : /\ q[j].text = text[x]
                         /\ Cardinality(Of(q, r, j)) = Cardinality({b \in cut : b <= x})
    BY DEF Delivers, InOrderIn
  <2>2. {b \in cut2 : b <= x} = {b \in cut : b <= x}
    <3>1. x < a /\ x \in Nat
      OBVIOUS
    <3> QED
      BY <3>1
  <2>3. x \in cut2
    OBVIOUS
  <2> QED
    BY <2>1, <2>2, <2>3
<1>5. a \in cut2 /\ \A b \in cut2 : b <= a
  OBVIOUS
<1> HIDE DEF cut2
<1>6. Cardinality(Of(q, r, Len(q))) = Cardinality(cut2) - 1
  BY <1>2, <1>3
<1>7. \E x \in cut2 : new.text = text[x] /\ \A b \in cut2 : b <= x
  BY <1>5
<1>8. Delivers(q, "send", new, r, cut2, text)
  BY <1>4, <1>6, <1>7 DEF Delivers
<1> QED
  BY <1>8 DEF cut2

(* Appending an event leaves the others alone. *)
LEMMA Appended ==
  ASSUME NEW q \in Seq(Event), NEW ev \in Event
  PROVE  /\ Len(q) \in Nat
         /\ Append(q, ev) \in Seq(Event) /\ Len(Append(q, ev)) = Len(q) + 1
         /\ \A j \in 1..Len(q) : Append(q, ev)[j] = q[j]
         /\ Append(q, ev)[Len(q) + 1] = ev
  OBVIOUS

(* So the events before it are as before. *)
LEMMA OfBefore ==
  ASSUME NEW q \in Seq(Event), NEW ev \in Event, NEW r \in Readers, NEW n \in 0..Len(q)
  PROVE  Of(Append(q, ev), r, n) = Of(q, r, n)
<1>1. \A j \in 1..n : Append(q, ev)[j] = q[j]
  BY Appended
<1> QED
  BY <1>1 DEF Of

(* It is one more of its source. *)
LEMMA OfOwn ==
  ASSUME NEW q \in Seq(Event), NEW ev \in Event, NEW r \in Readers, ev.source = r
  PROVE  Of(Append(q, ev), r, Len(q) + 1) = Of(q, r, Len(q)) \cup {Len(q) + 1}
<1>1. \A j : j \in 1..(Len(q) + 1) <=> (j \in 1..Len(q) \/ j = Len(q) + 1)
  OBVIOUS
<1>2. Len(q) + 1 \notin 1..Len(q)
  OBVIOUS
<1>3. \A j : j \in Of(Append(q, ev), r, Len(q) + 1)
               <=> (j \in Of(q, r, Len(q)) \/ j = Len(q) + 1)
  BY <1>1, <1>2, Appended DEF Of
<1> QED
  BY <1>3

(* It makes no difference to another source. *)
LEMMA OfOther ==
  ASSUME NEW q \in Seq(Event), NEW ev \in Event, NEW r \in Readers, ev.source # r
  PROVE  Of(Append(q, ev), r, Len(q) + 1) = Of(q, r, Len(q))
<1>1. \A j : j \in 1..(Len(q) + 1) <=> (j \in 1..Len(q) \/ j = Len(q) + 1)
  OBVIOUS
<1>2. Len(q) + 1 \notin 1..Len(q)
  OBVIOUS
<1>3. \A j : j \in Of(Append(q, ev), r, Len(q) + 1) <=> j \in Of(q, r, Len(q))
  BY <1>1, <1>2, Appended DEF Of
<1> QED
  BY <1>3

(* The waiting event is put into the channel. *)
LEMMA DeliversSent ==
  ASSUME NEW q \in Seq(Event), NEW ev \in Event, NEW r \in Readers, NEW other, NEW c, c # "send", NEW text,
         NEW cut \in SUBSET Nat, IsFiniteSet(cut),
         ev.source = r, Delivers(q, "send", ev, r, cut, text)
  PROVE  Delivers(Append(q, ev), c, other, r, cut, text)
<1> DEFINE q2 == Append(q, ev)
           n == Len(q) + 1
<1>1. /\ Len(q) \in Nat /\ Len(q2) = n
      /\ \A j \in 1..Len(q) : q2[j] = q[j] /\ Of(q2, r, j) = Of(q, r, j)
      /\ q2[n] = ev
      /\ Of(q2, r, n) = Of(q, r, Len(q)) \cup {n}
  <2>1. Len(q) \in Nat /\ Len(q2) = n /\ (\A j \in 1..Len(q) : q2[j] = q[j]) /\ q2[n] = ev
    BY Appended
  <2>2. Of(q2, r, n) = Of(q, r, Len(q)) \cup {n}
    BY OfOwn
  <2>3. \A j \in 0..Len(q) : Of(q2, r, j) = Of(q, r, j)
    BY OfBefore
  <2> HIDE DEF q2
  <2> QED
    BY <2>1, <2>2, <2>3
<1> HIDE DEF q2
<1>2. n \notin Of(q, r, Len(q))
  BY <1>1 DEF Of
<1>3. IsFiniteSet(Of(q, r, Len(q))) /\ Cardinality(Of(q, r, Len(q))) \in Nat
  BY <1>1, OfFinite
<1>4. Cardinality(Of(q2, r, n)) = Cardinality(Of(q, r, Len(q))) + 1
  <2> DEFINE o == Of(q, r, Len(q))
  <2>1. IsFiniteSet(o) /\ n \notin o
    BY <1>2, <1>3
  <2>2. Of(q2, r, n) = o \cup {n}
    BY <1>1
  <2> HIDE DEF o, n
  <2>3. Cardinality(o \cup {n}) = Cardinality(o) + 1
    BY <2>1, FS_AddElement
  <2> QED
    BY <2>2, <2>3 DEF o
<1>5. Cardinality(cut) \in Nat
  BY FS_CardinalityType
<1>6. Cardinality(Of(q2, r, n)) = Cardinality(cut)
  <2>1. Cardinality(Of(q, r, Len(q))) = Cardinality(cut) - 1
    BY DEF Delivers
  <2> QED
    BY <1>3, <1>4, <1>5, <2>1
<1>7. InOrderIn(q2, r, cut, text)
  <2> SUFFICES ASSUME NEW j \in Of(q2, r, n)
               PROVE  \E x \in cut : /\ q2[j].text = text[x]
                                     /\ Cardinality(Of(q2, r, j)) = Cardinality({b \in cut : b <= x})
    BY <1>1 DEF InOrderIn
  <2>1. CASE j \in Of(q, r, Len(q))
    <3>1. PICK x \in cut : /\ q[j].text = text[x]
                           /\ Cardinality(Of(q, r, j)) = Cardinality({b \in cut : b <= x})
      BY <2>1 DEF Delivers, InOrderIn
    <3>2. j \in 1..Len(q)
      BY <2>1 DEF Of
    <3> QED
      BY <1>1, <3>1, <3>2
  <2>2. CASE j = n
    <3>1. PICK x \in cut : ev.text = text[x] /\ \A b \in cut : b <= x
      BY DEF Delivers
    <3>2. {b \in cut : b <= x} = cut
      BY <3>1
    <3> QED
      BY <1>1, <1>6, <2>2, <3>1, <3>2
  <2> QED
    BY <1>1, <2>1, <2>2
<1>8. Delivers(q2, c, other, r, cut, text)
  BY <1>1, <1>5, <1>6, <1>7 DEF Delivers
<1> QED
  BY <1>8 DEF q2

(* The event of another source is put into the channel. *)
LEMMA DeliversBeside ==
  ASSUME NEW q \in Seq(Event), NEW ev \in Event, NEW r \in Readers, NEW c, NEW mine,
         NEW text, NEW cut, ev.source # r, Delivers(q, c, mine, r, cut, text)
  PROVE  Delivers(Append(q, ev), c, mine, r, cut, text)
<1> DEFINE q2 == Append(q, ev)
           n == Len(q) + 1
<1>1. /\ Len(q) \in Nat /\ Len(q2) = n
      /\ \A j \in 1..Len(q) : q2[j] = q[j] /\ Of(q2, r, j) = Of(q, r, j)
      /\ Of(q2, r, n) = Of(q, r, Len(q))
  <2>1. Len(q) \in Nat /\ Len(q2) = n /\ (\A j \in 1..Len(q) : q2[j] = q[j])
    BY Appended
  <2>2. Of(q2, r, n) = Of(q, r, Len(q))
    BY OfOther
  <2>3. \A j \in 0..Len(q) : Of(q2, r, j) = Of(q, r, j)
    BY OfBefore
  <2> HIDE DEF q2
  <2> QED
    BY <2>1, <2>2, <2>3
<1> HIDE DEF q2
<1>2. InOrderIn(q2, r, cut, text)
  <2> SUFFICES ASSUME NEW j \in Of(q, r, Len(q))
               PROVE  \E x \in cut : /\ q2[j].text = text[x]
                                     /\ Cardinality(Of(q2, r, j)) = Cardinality({b \in cut : b <= x})
    BY <1>1 DEF InOrderIn
  <2>1. PICK x \in cut : /\ q[j].text = text[x]
                         /\ Cardinality(Of(q, r, j)) = Cardinality({b \in cut : b <= x})
    BY DEF Delivers, InOrderIn
  <2>2. j \in 1..Len(q)
    BY DEF Of
  <2> QED
    BY <1>1, <2>1, <2>2
<1>3. Delivers(q2, c, mine, r, cut, text)
  BY <1>1, <1>2 DEF Delivers
<1> QED
  BY <1>3 DEF q2

-----------------------------------------------------------------------------
(* About a connection: its delimiter gets a byte, or is flushed.           *)

(* Where the buffer begins. *)
LEMMA FirstIn ==
  ASSUME NEW s \in Seq(Byte), NEW p \in Nat, NEW d \in Delimiter, Buffered(s, p, d)
  PROVE  /\ First(p, d) \in 1..(p + 1) /\ First(p, d) \in Nat \ {0}
         /\ d.buffer = SubSeq(s, First(p, d), p) /\ p <= Len(s)
<1>1. d.buffer \in Seq(Byte)
  BY DEF Delimiter
<1>2. Len(d.buffer) \in Nat
  BY <1>1
<1>3. Len(d.buffer) <= p
  BY DEF Buffered
<1>4. First(p, d) \in 1..(p + 1) /\ First(p, d) \in Nat \ {0}
  <2> DEFINE l == Len(d.buffer)
  <2>1. l \in Nat /\ l <= p
    BY <1>2, <1>3
  <2>2. First(p, d) = p - l + 1
    BY DEF First
  <2> HIDE DEF l
  <2> QED
    BY <2>1, <2>2
<1>5. d.buffer = SubSeq(s, First(p, d), p) /\ p <= Len(s)
  BY DEF Buffered
<1> QED
  BY <1>4, <1>5

(* A delimiter whose buffer is a part of the stream. *)
LEMMA PartBuffered ==
  ASSUME NEW s \in Seq(Byte), NEW p \in Nat, p <= Len(s), NEW f \in 1..(p + 1),
         NEW x \in {"start", "run"}, NEW d, d = [buffer |-> SubSeq(s, f, p), regex |-> x]
  PROVE  d \in Delimiter /\ Buffered(s, p, d) /\ First(p, d) = f /\ d.regex = x
<1>1. SubSeq(s, f, p) \in Seq(Byte) /\ Len(SubSeq(s, f, p)) = p - f + 1
  OBVIOUS
<1>2. d.buffer = SubSeq(s, f, p) /\ d.regex = x
  OBVIOUS
<1>3. First(p, d) = f
  BY <1>1, <1>2 DEF First
<1>4. d \in Delimiter
  BY <1>1 DEF Delimiter
<1>5. Len(d.buffer) <= p
  BY <1>1, <1>2
<1>6. Buffered(s, p, d)
  BY <1>2, <1>3, <1>5 DEF Buffered
<1> QED
  BY <1>2, <1>3, <1>4, <1>6

(* What Push does, in terms of the position at which the buffer begins:    *)
(* it keeps the byte (Grows), finds the first message (Finds), or cuts the *)
(* buffer at the next message (Cuts).                                      *)
Grows(s, p, d, res) ==
  /\ ~res.match /\ res.delimiter.regex = d.regex
  /\ First(p + 1, res.delimiter) = First(p, d)
  /\ d.regex = "start" => \A a \in First(p, d)..Len(s) : p + 1 \notin PriEnds(s, a)
  /\ d.regex = "run" => \A b \in 1..Len(s) :
       (b > 1 /\ First(p, d) < b /\ s[b - 1] = "\n") => p + 1 \notin PriEnds(s, b)

Finds(s, p, d, res) ==
  /\ ~res.match /\ d.regex = "start" /\ res.delimiter.regex = "run"
  /\ First(p + 1, res.delimiter) \in First(p, d)..Len(s)
  /\ p + 1 \in PriEnds(s, First(p + 1, res.delimiter))

Cuts(s, p, d, res) ==
  LET g == First(p + 1, res.delimiter)
  IN  /\ d.regex = "run" /\ res.delimiter.regex = "run"
      /\ g \in 1..Len(s) /\ g > 1 /\ First(p, d) < g
      /\ s[g - 1] = "\n" /\ p + 1 \in PriEnds(s, g)
      /\ res.match /\ res.log = TrimRight(SubSeq(s, First(p, d), g - 2), {"\r"})

(* One of the three is what Push does. *)
LEMMA PushCases ==
  ASSUME NEW s \in Seq(Byte), NEW p \in Nat, p < Len(s), NEW d \in Delimiter,
         Buffered(s, p, d), Found(s, p, d), NEW res, res = Push(d, s[p + 1])
  PROVE  /\ res.delimiter \in Delimiter
         /\ Buffered(s, p + 1, res.delimiter)
         /\ Grows(s, p, d, res) \/ Finds(s, p, d, res) \/ Cuts(s, p, d, res)
<1> DEFINE f == First(p, d)
<1>1. f \in 1..(p + 1) /\ d.buffer = SubSeq(s, f, p)
  BY FirstIn
<1>2. Len(s) \in Nat /\ p + 1 \in Nat /\ p + 1 <= Len(s) /\ f \in 1..(p + 1 + 1) /\ f \in Nat
  BY <1>1
<1>3. d.regex = "start" \/ d.regex = "run"
  BY DEF Delimiter
<1> HIDE DEF f
<1>4. CASE d.regex = "start"
  <2>1. ~res.match
    BY <1>1, <1>4, PushStart
  <2>2. CASE /\ res.delimiter = [buffer |-> SubSeq(s, f, p + 1), regex |-> "start"]
             /\ \A a \in f..Len(s) : p + 1 \notin PriEnds(s, a)
    <3>1. /\ res.delimiter \in Delimiter /\ Buffered(s, p + 1, res.delimiter)
          /\ First(p + 1, res.delimiter) = f /\ res.delimiter.regex = "start"
      BY <1>2, <2>2, PartBuffered
    <3> QED
      BY <1>4, <2>1, <2>2, <3>1 DEF Grows, f
  <2>3. ASSUME NEW a \in f..Len(s), p + 1 \in PriEnds(s, a),
               res.delimiter = [buffer |-> SubSeq(s, a, p + 1), regex |-> "run"]
        PROVE  /\ res.delimiter \in Delimiter /\ Buffered(s, p + 1, res.delimiter)
               /\ Finds(s, p, d, res)
    <3>1. a \in Nat \ {0}
      BY <1>1, <1>2
    <3>2. a + 2 <= p + 1
      BY <2>3, <3>1, PriShape
    <3>3. a \in 1..(p + 1 + 1)
      BY <3>1, <3>2
    <3>4. /\ res.delimiter \in Delimiter /\ Buffered(s, p + 1, res.delimiter)
          /\ First(p + 1, res.delimiter) = a /\ res.delimiter.regex = "run"
      BY <1>2, <2>3, <3>3, PartBuffered
    <3> QED
      BY <1>4, <2>1, <2>3, <3>4 DEF Finds, f
  <2> QED
    BY <1>1, <1>4, <2>2, <2>3, PushStart
<1>5. CASE d.regex = "run"
  <2>0. \A b \in 1..Len(s) : \A e \in PriEnds(s, b) :
          (b > 1 /\ f < b /\ s[b - 1] = "\n") => p < e
    BY <1>5 DEF Found, f
  <2>1. CASE /\ ~res.match
             /\ res.delimiter = [buffer |-> SubSeq(s, f, p + 1), regex |-> "run"]
             /\ \A b \in 1..Len(s) :
                  (b > 1 /\ f < b /\ s[b - 1] = "\n") => p + 1 \notin PriEnds(s, b)
    <3>1. /\ res.delimiter \in Delimiter /\ Buffered(s, p + 1, res.delimiter)
          /\ First(p + 1, res.delimiter) = f /\ res.delimiter.regex = "run"
      BY <1>2, <2>1, PartBuffered
    <3> QED
      BY <1>5, <2>1, <3>1 DEF Grows, f
  <2>2. ASSUME NEW b \in 1..Len(s), b > 1, f < b, s[b - 1] = "\n", p + 1 \in PriEnds(s, b),
               res.match, res.log = TrimRight(SubSeq(s, f, b - 2), {"\r"}),
               res.delimiter = [buffer |-> SubSeq(s, b, p + 1), regex |-> "run"]
        PROVE  /\ res.delimiter \in Delimiter /\ Buffered(s, p + 1, res.delimiter)
               /\ Cuts(s, p, d, res)
    <3>0. b \in Nat \ {0}
      BY <1>2
    <3>1. b + 2 <= p + 1
      BY <2>2, <3>0, PriShape
    <3>2. b \in 1..(p + 1 + 1)
      BY <3>0, <3>1
    <3>3. /\ res.delimiter \in Delimiter /\ Buffered(s, p + 1, res.delimiter)
          /\ First(p + 1, res.delimiter) = b /\ res.delimiter.regex = "run"
      BY <1>2, <2>2, <3>2, PartBuffered
    <3> QED
      BY <1>5, <2>2, <3>3 DEF Cuts, f
  <2>3. \/ /\ ~res.match
           /\ res.delimiter = [buffer |-> SubSeq(s, f, p + 1), regex |-> "run"]
           /\ \A b \in 1..Len(s) :
                (b > 1 /\ f < b /\ s[b - 1] = "\n") => p + 1 \notin PriEnds(s, b)
        \/ \E b \in 1..Len(s) :
             /\ b > 1 /\ f < b /\ s[b - 1] = "\n" /\ p + 1 \in PriEnds(s, b)
             /\ res.match
             /\ res.log = TrimRight(SubSeq(s, f, b - 2), {"\r"})
             /\ res.delimiter = [buffer |-> SubSeq(s, b, p + 1), regex |-> "run"]
    <3> DEFINE r == Push(d, s[p + 1])
    <3>1. \/ /\ ~r.match
             /\ r.delimiter = [buffer |-> SubSeq(s, f, p + 1), regex |-> "run"]
             /\ \A b \in 1..Len(s) :
                  (b > 1 /\ f < b /\ s[b - 1] = "\n") => p + 1 \notin PriEnds(s, b)
          \/ \E b \in 1..Len(s) :
               /\ b > 1 /\ f < b /\ s[b - 1] = "\n" /\ p + 1 \in PriEnds(s, b)
               /\ r.match
               /\ r.log = TrimRight(SubSeq(s, f, b - 2), {"\r"})
               /\ r.delimiter = [buffer |-> SubSeq(s, b, p + 1), regex |-> "run"]
      BY <1>1, <1>5, <2>0, PushRun
    <3> HIDE DEF r
    <3>2. res = r
      BY DEF r
    <3> QED
      BY <3>1, <3>2
  <2> QED
    BY <2>1, <2>2, <2>3
<1> QED
  BY <1>3, <1>4, <1>5

(* A priority that began before the buffer does and is not complete yet    *)
(* was hit by a pause.                                                     *)
LEMMA Missed ==
  ASSUME NEW s \in Seq(Byte), NEW p \in Nat, NEW d \in Delimiter, NEW ps \in SUBSET Nat,
         Buffered(s, p, d), Begun(s, p, d, ps),
         NEW a \in Nat \ {0}, a < First(p, d), NEW e \in PriEnds(s, a), p < e
  PROVE  \E t \in ps : a <= t /\ t < e
<1> DEFINE f == First(p, d)
<1>1. f \in 1..(p + 1) /\ f \in Nat \ {0}
  BY FirstIn
<1>2. e \in Nat
  BY PriShape
<1>3. a < f /\ (f = 1 \/ f - 1 \in ps \/ \E x \in PriEnds(s, f) : x <= p)
  BY DEF Begun
<1> HIDE DEF f
<1>4. CASE f = 1
  BY <1>1, <1>3, <1>4
<1>5. CASE f - 1 \in ps
  <2>1. a <= f - 1 /\ f - 1 < e
    BY <1>1, <1>2, <1>3
  <2> QED
    BY <1>5, <2>1
<1>6. ASSUME NEW x \in PriEnds(s, f), x <= p PROVE FALSE
  <2>1. x \in Nat
    BY <1>1, PriShape
  <2>2. e < f /\ f < x
    BY <1>1, <1>3, PriApart
  <2> QED
    BY <1>1, <1>2, <1>6, <2>1, <2>2
<1> QED
  BY <1>3, <1>4, <1>5, <1>6

(* Push keeps the buffer in its relation to the stream. *)
LEMMA FramingPush ==
  ASSUME NEW s \in Seq(Byte), NEW p \in Nat, p < Len(s), NEW d \in Delimiter, NEW ps \in SUBSET Nat,
         Framing(s, p, d, ps), NEW res, res = Push(d, s[p + 1])
  PROVE  Framing(s, p + 1, res.delimiter, ps)
<1> DEFINE d2 == res.delimiter
           f == First(p, d)
           g == First(p + 1, d2)
<1>0. Buffered(s, p, d) /\ Begun(s, p, d, ps) /\ Sought(s, p, d, ps) /\ Found(s, p, d)
  BY DEF Framing
<1>1. /\ d2 \in Delimiter /\ Buffered(s, p + 1, d2)
      /\ Grows(s, p, d, res) \/ Finds(s, p, d, res) \/ Cuts(s, p, d, res)
  BY <1>0, PushCases
<1>2. f \in 1..(p + 1) /\ f \in Nat \ {0}
  BY <1>0, FirstIn
<1>3. p + 1 \in Nat
  OBVIOUS
<1>4. g \in 1..(p + 1 + 1) /\ g \in Nat \ {0}
  BY <1>1, <1>3, FirstIn
<1>5. d.regex = "start" \/ d.regex = "run"
  BY DEF Delimiter
<1>6. Len(s) \in Nat /\ \A a \in 1..Len(s) : \A e \in PriEnds(s, a) : e \in Nat /\ a \in Nat \ {0}
  BY PriShape
<1>7. CASE Grows(s, p, d, res)
  <2>1. g = f /\ d2.regex = d.regex
    BY <1>7 DEF Grows
  <2>2. Begun(s, p + 1, d2, ps)
    <3>1. f = 1 \/ f - 1 \in ps \/ \E e \in PriEnds(s, f) : e <= p
      BY <1>0 DEF Begun
    <3>2. ASSUME NEW e \in PriEnds(s, f), e <= p PROVE e <= p + 1
      <4>1. e \in Nat
        BY <1>2, PriShape
      <4> QED
        BY <3>2, <4>1
    <3>3. g = 1 \/ g - 1 \in ps \/ \E e \in PriEnds(s, g) : e <= p + 1
      BY <2>1, <3>1, <3>2
    <3> QED
      BY <3>3 DEF Begun
  <2>3. Sought(s, p + 1, d2, ps)
    <3> SUFFICES ASSUME d.regex = "start", NEW a \in 1..Len(s), NEW e \in PriEnds(s, a),
                        e <= p + 1
                 PROVE  \E t \in ps : a <= t /\ t < e
      BY <2>1 DEF Sought
    <3>1. e \in Nat /\ a \in Nat \ {0}
      BY <1>6
    <3>2. CASE e <= p
      BY <1>0, <3>2 DEF Sought
    <3>3. CASE e = p + 1
      <4>1. ~(f <= a)
        <5> SUFFICES ASSUME f <= a PROVE FALSE
          OBVIOUS
        <5>1. a \in f..Len(s)
          BY <1>2, <1>6
        <5> QED
          BY <1>7, <3>3, <5>1 DEF Grows
      <4>2. a < f /\ p < e
        BY <1>2, <3>1, <3>3, <4>1
      <4> QED
        BY <1>0, <3>1, <4>2, Missed
    <3> QED
      BY <3>1, <3>2, <3>3
  <2>4. Found(s, p + 1, d2)
    <3> SUFFICES ASSUME d.regex = "run"
                 PROVE  /\ \E a \in 1..Len(s) : \E e \in PriEnds(s, a) : e <= p + 1
                        /\ \A b \in 1..Len(s) : \A e \in PriEnds(s, b) :
                             (b > 1 /\ f < b /\ s[b - 1] = "\n") => p + 1 < e
      BY <2>1 DEF Found
    <3>1. PICK a \in 1..Len(s) : \E e \in PriEnds(s, a) : e <= p
      BY <1>0 DEF Found
    <3>2. PICK e \in PriEnds(s, a) : e <= p
      BY <3>1
    <3>3. e <= p + 1
      BY <1>6, <3>2
    <3>4. ASSUME NEW b \in 1..Len(s), NEW x \in PriEnds(s, b), b > 1, f < b, s[b - 1] = "\n"
          PROVE  p + 1 < x
      <4>1. x \in Nat
        BY <1>6
      <4>2. p < x
        BY <1>0, <3>4 DEF Found
      <4>3. x # p + 1
        BY <1>7, <3>4 DEF Grows
      <4> QED
        BY <4>1, <4>2, <4>3
    <3> QED
      BY <3>3, <3>4
  <2> QED
    BY <1>1, <2>2, <2>3, <2>4 DEF Framing
<1>8. ASSUME d2.regex = "run", g \in 1..Len(s), p + 1 \in PriEnds(s, g)
      PROVE  Framing(s, p + 1, d2, ps)
  <2>1. Begun(s, p + 1, d2, ps)
    <3>1. p + 1 <= p + 1
      OBVIOUS
    <3> QED
      BY <1>8, <3>1 DEF Begun
  <2>2. Sought(s, p + 1, d2, ps)
    BY <1>8 DEF Sought
  <2>3. \A b \in 1..Len(s) : \A e \in PriEnds(s, b) : g < b => p + 1 < e
    <3> SUFFICES ASSUME NEW b \in 1..Len(s), NEW e \in PriEnds(s, b), g < b PROVE p + 1 < e
      OBVIOUS
    <3>1. b \in Nat \ {0} /\ e \in Nat
      BY <1>6
    <3>2. p + 1 < b /\ b < e
      BY <1>4, <1>8, <3>1, PriApart
    <3> QED
      BY <3>1, <3>2
  <2>4. Found(s, p + 1, d2)
    <3>1. \E a \in 1..Len(s) : \E e \in PriEnds(s, a) : e <= p + 1
      BY <1>8
    <3> QED
      BY <2>3, <3>1 DEF Found
  <2> QED
    BY <1>1, <2>1, <2>2, <2>4 DEF Framing
<1>9. CASE Finds(s, p, d, res)
  <2>1. d2.regex = "run" /\ g \in f..Len(s) /\ p + 1 \in PriEnds(s, g)
    BY <1>9 DEF Finds
  <2>2. g \in 1..Len(s)
    BY <1>2, <1>6, <2>1
  <2> QED
    BY <1>8, <2>1, <2>2
<1>10. CASE Cuts(s, p, d, res)
  BY <1>8, <1>10 DEF Cuts
<1> QED
  BY <1>1, <1>7, <1>9, <1>10

(* And so does a flush, which empties the buffer at a pause. *)
LEMMA FramingFlush ==
  ASSUME NEW s \in Seq(Byte), NEW p \in Nat, NEW d \in Delimiter, NEW ps \in SUBSET Nat,
         Framing(s, p, d, ps), NEW d2, d2 = [buffer |-> << >>, regex |-> d.regex]
  PROVE  /\ d2 \in Delimiter
         /\ Framing(s, p, d2, ps \cup {p})
<1>0. /\ p <= Len(s) /\ Buffered(s, p, d) /\ Begun(s, p, d, ps)
      /\ Sought(s, p, d, ps) /\ Found(s, p, d)
  BY DEF Framing, Buffered
<1>1. SubSeq(s, p + 1, p) = << >> /\ Len(s) \in Nat
  OBVIOUS
<1>2. p + 1 \in 1..(p + 1) /\ d.regex \in {"start", "run"}
  BY DEF Delimiter
<1>3. d2 \in Delimiter /\ Buffered(s, p, d2) /\ First(p, d2) = p + 1 /\ d2.regex = d.regex
  <2> DEFINE x == d.regex
             f == p + 1
  <2>1. d2 = [buffer |-> SubSeq(s, f, p), regex |-> x] /\ f \in 1..(p + 1) /\ x \in {"start", "run"}
    BY <1>1, <1>2
  <2> HIDE DEF x, f
  <2>2. d2 \in Delimiter /\ Buffered(s, p, d2) /\ First(p, d2) = f /\ d2.regex = x
    BY <1>0, <2>1, PartBuffered
  <2> QED
    BY <2>2 DEF x, f
<1>4. Begun(s, p, d2, ps \cup {p})
  <2>1. First(p, d2) - 1 = p
    BY <1>3
  <2> QED
    BY <2>1 DEF Begun
<1>5. Sought(s, p, d2, ps \cup {p})
  BY <1>0, <1>3 DEF Sought
<1>6. Found(s, p, d2)
  <2> SUFFICES ASSUME d.regex = "run"
               PROVE  /\ \E a \in 1..Len(s) : \E e \in PriEnds(s, a) : e <= p
                      /\ \A b \in 1..Len(s) : \A e \in PriEnds(s, b) : p + 1 < b => p < e
    BY <1>3 DEF Found
  <2>1. \A b \in 1..Len(s) : \A e \in PriEnds(s, b) : p + 1 < b => p < e
    <3> SUFFICES ASSUME NEW b \in 1..Len(s), NEW e \in PriEnds(s, b), p + 1 < b PROVE p < e
      OBVIOUS
    <3>1. b \in Nat \ {0}
      BY <1>1
    <3>2. e \in Nat /\ b + 2 <= e
      BY <3>1, PriShape
    <3> QED
      BY <3>1, <3>2
  <2> QED
    BY <1>0, <2>1 DEF Found
<1> QED
  BY <1>3, <1>4, <1>5, <1>6 DEF Framing

(* The messages of a stream that a peer may send. *)
LEMMA MessagesOf ==
  ASSUME NEW s \in Streams
  PROVE  /\ s \in Seq(Byte)
         /\ \A a \in Starts(s) : Messages[s][a] = Message(s, a)
         /\ Parsed[s] = {a \in Starts(s) : Parses(Message(s, a))}
         /\ Parsed[s] \in SUBSET Nat /\ IsFiniteSet(Parsed[s])
<1>1. s \in Seq(Byte)
  OBVIOUS
<1>2. \A a \in Starts(s) : Messages[s][a] = Message(s, a)
  BY DEF Messages
<1>3. Parsed[s] = {a \in Starts(s) : Parses(Messages[s][a])}
  BY DEF Parsed
<1>4. Parsed[s] = {a \in Starts(s) : Parses(Message(s, a))}
  BY <1>2, <1>3
<1>5. Parsed[s] \in SUBSET (1..Len(s)) /\ Parsed[s] \in SUBSET Nat
  BY <1>1, <1>4, StartIs
<1>6. IsFiniteSet(1..Len(s))
  BY <1>1, FS_Interval
<1>7. IsFiniteSet(Parsed[s])
  BY <1>5, <1>6, FS_Subset
<1> QED
  BY <1>1, <1>2, <1>4, <1>5, <1>7

(* When the buffer is cut, the line is the message at its beginning, and   *)
(* what stays in it begins with the next message.                          *)
LEMMA CutMessage ==
  ASSUME NEW s \in Seq(Byte), NEW p \in Nat, p < Len(s), NEW d \in Delimiter,
         Buffered(s, p, d), Found(s, p, d), First(p, d) \in Starts(s),
         NEW res, Cuts(s, p, d, res)
  PROVE  /\ First(p + 1, res.delimiter) \in Starts(s)
         /\ First(p, d) < First(p + 1, res.delimiter)
         /\ \A c \in Starts(s) : First(p, d) < c => First(p + 1, res.delimiter) <= c
         /\ res.log = Message(s, First(p, d))
<1> DEFINE f == First(p, d)
           g == First(p + 1, res.delimiter)
<1>1. /\ d.regex = "run" /\ g \in 1..Len(s) /\ g > 1 /\ f < g /\ s[g - 1] = "\n"
      /\ p + 1 \in PriEnds(s, g) /\ res.log = TrimRight(SubSeq(s, f, g - 2), {"\r"})
  BY DEF Cuts
<1>2. f \in 1..Len(s) /\ f \in Nat \ {0} /\ PriEnds(s, f) # {}
  BY StartIs
<1>3. \A b \in 1..Len(s) : \A e \in PriEnds(s, b) :
        (b > 1 /\ f < b /\ s[b - 1] = "\n") => p < e
  BY <1>1 DEF Found
<1> HIDE DEF f, g
<1>4. Len(s) \in Nat /\ g \in Nat \ {0} /\ f \in Starts(s)
  BY <1>1 DEF f
<1>5. g \in Starts(s)
  <2>1. PriEnds(s, g) # {}
    BY <1>1
  <2> QED
    BY <1>1, <1>2, <2>1, LaterStarts
<1>6. \A c \in Starts(s) : f < c => g <= c
  <2> SUFFICES ASSUME NEW c \in Starts(s), f < c, ~(g <= c) PROVE FALSE
    OBVIOUS
  <2>1. /\ c \in 1..Len(s) /\ c \in Nat \ {0}
        /\ c > 1 /\ s[c - 1] = "\n"
    BY <1>2, StartIs
  <2>2. PICK e : e \in PriEnds(s, c)
    BY StartIs
  <2>3. e \in Nat /\ p < e
    BY <1>3, <2>1, <2>2, PriShape
  <2>4. c < g
    BY <1>4, <2>1
  <2>5. e < g /\ g < p + 1
    BY <1>1, <1>4, <2>1, <2>2, <2>4, PriApart
  <2> QED
    BY <1>4, <2>3, <2>5
<1>7. Message(s, f) = TrimRight(SubSeq(s, f, g - 2), {"\r"})
  BY <1>1, <1>4, <1>5, <1>6, MessageCut
<1> QED
  BY <1>1, <1>5, <1>6, <1>7 DEF f, g

(* What a goroutine does with the result of its delimiter: it goes on to   *)
(* send an event, or to c2.                                                *)
Emits(res, then, ev, c2, ev2) ==
  IF res.match /\ Parses(res.log) THEN c2 = "send" /\ ev2.text = res.log
  ELSE c2 = then /\ ev2 = ev

(* The messages that parse up to one that begins at f, which is not or is  *)
(* included.                                                               *)
Before(s, f) == {a \in Parsed[s] : a < f}
UpTo(s, f) == {a \in Parsed[s] : a <= f}

(* The message at the beginning of the buffer is taken up, if it parses.   *)
LEMMA TakesUp ==
  ASSUME NEW s \in Streams, NEW q, NEW c, c # "send", NEW ev, NEW k \in Readers,
         NEW f \in Starts(s), Delivers(q, c, ev, k, Before(s, f), Messages[s]),
         NEW res, res.match, res.log = Message(s, f),
         NEW then, then # "send", NEW c2, NEW ev2, Emits(res, then, ev, c2, ev2)
  PROVE  Delivers(q, c2, ev2, k, UpTo(s, f), Messages[s])
<1> DEFINE cut == Before(s, f)
           cut2 == UpTo(s, f)
<1>1. /\ s \in Seq(Byte) /\ Messages[s][f] = Message(s, f)
      /\ Parsed[s] = {a \in Starts(s) : Parses(Message(s, a))}
      /\ Parsed[s] \in SUBSET Nat /\ IsFiniteSet(Parsed[s])
  BY MessagesOf
<1>2. f \in Nat
  BY <1>1, StartIs
<1>3. cut \in SUBSET Nat /\ IsFiniteSet(cut) /\ \A b \in cut : b < f
  BY <1>1, FS_Subset DEF Before
<1>0. cut = {a \in Parsed[s] : a < f} /\ cut2 = {a \in Parsed[s] : a <= f}
  BY DEF Before, UpTo
<1> HIDE DEF cut, cut2
<1> SUFFICES Delivers(q, c2, ev2, k, cut2, Messages[s])
  BY DEF cut2
<1>6. Delivers(q, c, ev, k, cut, Messages[s])
  BY DEF cut
<1>4. CASE Parses(Message(s, f))
  <2>1. c2 = "send" /\ ev2.text = Messages[s][f]
    BY <1>1, <1>4 DEF Emits
  <2>2. cut2 = cut \cup {f}
    BY <1>0, <1>1, <1>2, <1>4
  <2>3. Delivers(q, "send", ev2, k, cut \cup {f}, Messages[s])
    BY <1>2, <1>3, <1>6, <2>1, DeliversNext
  <2> QED
    BY <2>1, <2>2, <2>3
<1>5. CASE ~Parses(Message(s, f))
  <2>1. c2 = then
    BY <1>5 DEF Emits
  <2>2. cut2 = cut
    BY <1>0, <1>1, <1>2, <1>5
  <2> QED
    BY <1>6, <2>1, <2>2 DEF Delivers
<1> QED
  BY <1>4, <1>5

(* Without a pause, a byte is pushed. *)
LEMMA FramedPush ==
  ASSUME NEW s \in Streams, NEW p \in Nat, p < Len(s), NEW d \in Delimiter,
         Framing(s, p, d, {}), NEW q, NEW c, c # "send", NEW ev, NEW k \in Readers,
         Framed(s, p, d, q, c, ev, k),
         NEW res, res = Push(d, s[p + 1]),
         NEW then, then # "send", NEW c2, NEW ev2, Emits(res, then, ev, c2, ev2)
  PROVE  Framed(s, p + 1, res.delimiter, q, c2, ev2, k)
<1> DEFINE d2 == res.delimiter
           f == First(p, d)
           g == First(p + 1, d2)
<1>0. Buffered(s, p, d) /\ Begun(s, p, d, {}) /\ Sought(s, p, d, {}) /\ Found(s, p, d)
  BY DEF Framing
<1>1. s \in Seq(Byte) /\ Parsed[s] = {a \in Starts(s) : Parses(Message(s, a))}
      /\ Parsed[s] \in SUBSET Nat
  BY MessagesOf
<1>2. /\ d2 \in Delimiter /\ Buffered(s, p + 1, d2)
      /\ Grows(s, p, d, res) \/ Finds(s, p, d, res) \/ Cuts(s, p, d, res)
  BY <1>0, <1>1, PushCases
<1>3. f \in 1..(p + 1) /\ f \in Nat \ {0} /\ Len(s) \in Nat
  BY <1>0, <1>1, FirstIn
<1>4. /\ d.regex = "run" => f \in Starts(s)
      /\ Delivers(q, c, ev, k, Cut(s, p, d), Messages[s])
  BY DEF Framed
<1>5. CASE Grows(s, p, d, res)
  <2>1. g = f /\ d2.regex = d.regex /\ ~res.match
    BY <1>5 DEF Grows
  <2>2. c2 # "send"
    BY <2>1 DEF Emits
  <2>3. Cut(s, p + 1, d2) = Cut(s, p, d)
    BY <2>1 DEF Cut
  <2>4. Delivers(q, c2, ev2, k, Cut(s, p + 1, d2), Messages[s])
    BY <1>4, <2>2, <2>3 DEF Delivers
  <2> QED
    BY <1>4, <2>1, <2>4 DEF Framed
<1>6. CASE Finds(s, p, d, res)
  <2>1. ~res.match /\ d.regex = "start" /\ g \in f..Len(s) /\ p + 1 \in PriEnds(s, g)
    BY <1>6 DEF Finds
  <2>2. g \in 1..Len(s) /\ g \in Nat \ {0}
    BY <1>3, <2>1
  <2>3. \A x \in 1..Len(s) : PriEnds(s, x) # {} => g <= x
    <3> SUFFICES ASSUME NEW x \in 1..Len(s), NEW e \in PriEnds(s, x), x < g PROVE FALSE
      BY <1>3, <2>2
    <3>1. x \in Nat \ {0} /\ e \in Nat
      BY <1>1, <1>3, PriShape
    <3>2. e < g /\ g < p + 1
      BY <1>1, <2>1, <2>2, <3>1, PriApart
    <3>3. e <= p
      BY <2>2, <3>1, <3>2
    <3> QED
      BY <1>0, <2>1, <3>3 DEF Sought
  <2>4. g \in Starts(s)
    BY <1>1, <2>1, <2>2, <2>3, FirstStarts
  <2>5. \A a \in Parsed[s] : ~(a < g) /\ ~(a < f)
    <3> SUFFICES ASSUME NEW a \in Parsed[s] PROVE ~(a < g) /\ ~(a < f)
      OBVIOUS
    <3>1. a \in 1..Len(s) /\ PriEnds(s, a) # {} /\ a \in Nat
      BY <1>1, StartIs
    <3>2. g <= a
      BY <2>3, <3>1
    <3> QED
      BY <1>3, <2>1, <2>2, <3>1, <3>2
  <2>6. Cut(s, p + 1, d2) = Cut(s, p, d)
    BY <2>5 DEF Cut
  <2>7. c2 # "send"
    BY <2>1 DEF Emits
  <2>8. Delivers(q, c2, ev2, k, Cut(s, p + 1, d2), Messages[s])
    BY <1>4, <2>6, <2>7 DEF Delivers
  <2> QED
    BY <2>4, <2>8 DEF Framed
<1>7. CASE Cuts(s, p, d, res)
  <2>1. f \in Starts(s) /\ res.match
    BY <1>4, <1>7 DEF Cuts
  <2>2. /\ g \in Starts(s) /\ f < g /\ \A x \in Starts(s) : f < x => g <= x
        /\ res.log = Message(s, f)
    BY <1>0, <1>1, <1>7, <2>1, CutMessage
  <2>3. g \in Nat
    BY <1>1, <2>2, StartIs
  <2>4. Cut(s, p, d) = {a \in Parsed[s] : a < f}
    BY DEF Cut
  <2>5. Cut(s, p + 1, d2) = {a \in Parsed[s] : a <= f}
    <3>1. \A a \in Parsed[s] : a < g <=> a <= f
      BY <1>1, <1>3, <2>2, <2>3
    <3> QED
      BY <3>1 DEF Cut
  <2> HIDE DEF f, d2, g
  <2>6. Delivers(q, c2, ev2, k, Cut(s, p + 1, d2), Messages[s])
    <3>1. Cut(s, p, d) = Before(s, f) /\ Cut(s, p + 1, d2) = UpTo(s, f)
      BY <2>4, <2>5 DEF Before, UpTo
    <3>2. Delivers(q, c, ev, k, Before(s, f), Messages[s])
      BY <1>4, <3>1
    <3>3. Delivers(q, c2, ev2, k, UpTo(s, f), Messages[s])
      BY <2>1, <2>2, <3>2, TakesUp
    <3> QED
      BY <3>1, <3>3
  <2> QED
    BY <2>2, <2>6 DEF Framed, g, d2
<1> QED
  BY <1>2, <1>5, <1>6, <1>7

(* What a message is made of: the bytes up to z, from which line ends of C *)
(* at the end are cut off, and behind which, up to the next message, there *)
(* is nothing but a newline.                                               *)
LEMMA MessageBytes ==
  ASSUME NEW s \in Seq(Byte), NEW a \in Starts(s)
  PROVE  \E z \in a..Len(s), C \in SUBSET {"\r", "\n"} :
           /\ Message(s, a) = TrimRight(SubSeq(s, a, z), C)
           /\ \A e \in PriEnds(s, a) : e <= z
           /\ Later(s, a) = {} => z = Len(s)
           /\ Later(s, a) # {} => /\ Leftmost(Later(s, a)) \in Starts(s)
                                  /\ a < Leftmost(Later(s, a))
                                  /\ z = Leftmost(Later(s, a)) - 2
                                  /\ s[z + 1] = "\n"
<1>1. a \in 1..Len(s) /\ a \in Nat \ {0} /\ PriEnds(s, a) # {} /\ Len(s) \in Nat
  BY StartIs
<1>2. CASE Later(s, a) = {}
  <2>1. Message(s, a) = TrimRight(SubSeq(s, a, Len(s)), {"\r", "\n"})
    BY <1>2 DEF Message
  <2>2. \A e \in PriEnds(s, a) : e <= Len(s)
    BY <1>1, PriShape
  <2>3. Len(s) \in a..Len(s)
    BY <1>1
  <2> QED
    BY <1>2, <2>1, <2>2, <2>3
<1>3. CASE Later(s, a) # {}
  <2> DEFINE b == Leftmost(Later(s, a))
             z == b - 2
  <2>1. Later(s, a) \in SUBSET Nat /\ Later(s, a) \in SUBSET Starts(s)
    BY StartIs DEF Later
  <2>2. b \in Later(s, a)
    BY <1>3, <2>1, LeftmostIs
  <2>3. b \in Starts(s) /\ a < b
    BY <2>2 DEF Later
  <2>4. Message(s, a) = TrimRight(SubSeq(s, a, b - 2), {"\r"})
    BY <1>3 DEF Message
  <2> HIDE DEF b
  <2>5. b \in 1..Len(s) /\ b \in Nat \ {0} /\ b > 1 /\ s[b - 1] = "\n"
    BY <1>1, <2>3, StartIs
  <2>6. PICK x : x \in PriEnds(s, b)
    BY <2>3, StartIs
  <2>7. \A e \in PriEnds(s, a) : e \in Nat /\ e <= z /\ a <= e
    <3> SUFFICES ASSUME NEW e \in PriEnds(s, a) PROVE e \in Nat /\ e <= z /\ a <= e
      OBVIOUS
    <3>1. e \in Nat /\ a + 2 <= e /\ s[e] = ">"
      BY <1>1, PriShape
    <3>2. e < b
      BY <1>1, <2>3, <2>5, <2>6, PriApart
    <3>3. e # b - 1
      BY <2>5, <3>1
    <3> QED
      BY <1>1, <2>5, <3>1, <3>2, <3>3
  <2>8. z \in a..Len(s) /\ z + 1 = b - 1
    <3>1. PICK e : e \in PriEnds(s, a)
      BY <1>1
    <3>2. e \in Nat /\ e <= z /\ a <= e
      BY <2>7, <3>1
    <3> QED
      BY <1>1, <2>5, <3>2
  <2>9. s[z + 1] = "\n"
    BY <2>5, <2>8
  <2> HIDE DEF z
  <2>10. /\ Message(s, a) = TrimRight(SubSeq(s, a, z), {"\r"}) /\ z = b - 2
         /\ {"\r"} \in SUBSET {"\r", "\n"}
    BY <2>4 DEF z
  <2> QED
    BY <1>3, <2>3, <2>7, <2>8, <2>9, <2>10 DEF b
<1> QED
  BY <1>2, <1>3

(* A message is a part of the stream, in which its priority lies. *)
LEMMA MessageHasPri ==
  ASSUME NEW s \in Seq(Byte), NEW a \in Starts(s)
  PROVE  /\ Message(s, a) \in Seq(Byte)
         /\ \A e \in PriEnds(s, a) : e <= a + Len(Message(s, a)) - 1
<1>0. a \in 1..Len(s) /\ a \in Nat \ {0} /\ Len(s) \in Nat
  BY StartIs
<1>1. PICK z \in a..Len(s), C \in SUBSET {"\r", "\n"} :
        /\ Message(s, a) = TrimRight(SubSeq(s, a, z), C)
        /\ \A e \in PriEnds(s, a) : e <= z
  BY MessageBytes
<1> DEFINE u == SubSeq(s, a, z)
<1>2. u \in Seq(Byte) /\ Len(u) = z - a + 1
  BY <1>0
<1>3. \A j \in 1..(z - a + 1) : u[j] = s[a + j - 1]
  BY <1>0
<1> HIDE DEF u
<1>4. PICK n \in 0..Len(u) : /\ TrimRight(u, C) = SubSeq(u, 1, n)
                             /\ \A j \in (n + 1)..Len(u) : u[j] \in C
  BY <1>2, TrimShape
<1>5. SubSeq(u, 1, n) \in Seq(Byte) /\ Len(SubSeq(u, 1, n)) = n
  BY <1>2
<1>6. Message(s, a) \in Seq(Byte) /\ Len(Message(s, a)) = n
  BY <1>1, <1>4, <1>5 DEF u
<1>7. ASSUME NEW e \in PriEnds(s, a) PROVE e <= a + n - 1
  <2>1. e \in Nat /\ a + 2 <= e /\ s[e] = ">" /\ e <= z
    BY <1>0, <1>1, PriShape
  <2> SUFFICES ASSUME ~(e <= a + n - 1) PROVE FALSE
    OBVIOUS
  <2> DEFINE j == e - a + 1
  <2>2. j \in (n + 1)..Len(u) /\ j \in 1..(z - a + 1) /\ a + j - 1 = e
    BY <1>0, <1>2, <1>4, <2>1
  <2> HIDE DEF j
  <2>3. u[j] \in C /\ u[j] = s[e]
    BY <1>3, <1>4, <2>2
  <2> QED
    BY <2>1, <2>3
<1> QED
  BY <1>6, <1>7

(* A message whose priority was hit by a pause is interrupted. *)
LEMMA PriHit ==
  ASSUME NEW s \in Streams, NEW ps \in SUBSET Nat, NEW a \in Starts(s),
         NEW e \in PriEnds(s, a), NEW t \in ps, a <= t, t < e
  PROVE  Hit(s, ps, a)
<1>1. s \in Seq(Byte) /\ Messages[s][a] = Message(s, a)
  BY MessagesOf
<1>2. a \in Nat \ {0}
  BY <1>1, StartIs
<1>3. e \in Nat
  BY <1>1, <1>2, PriShape
<1>4. Message(s, a) \in Seq(Byte) /\ e <= a + Len(Message(s, a)) - 1
  BY <1>1, MessageHasPri
<1>5. Len(Message(s, a)) \in Nat
  BY <1>4
<1>6. t < a + Len(Messages[s][a]) - 1
  BY <1>1, <1>2, <1>3, <1>4, <1>5
<1> QED
  BY <1>6 DEF Hit

(* A whole message parses if it does without the newlines at its end. *)
LEMMA ParsesWhole ==
  ASSUME NEW m \in Seq(Byte), Parses(Unended(m))
  PROVE  Parses(m)
<1> DEFINE n == Len(TrimRight(m, {"\r", "\n"}))
<1>1. /\ TrimRight(m, {"\r", "\n"}) \in Seq(Byte) /\ n <= Len(m)
      /\ TrimRight(m, {"\r", "\n"}) = SubSeq(m, 1, n)
  BY TrimType
<1>2. n \in 0..Len(m)
  BY <1>1
<1>3. Parses(SubSeq(m, 1, n))
  BY <1>1 DEF Unended
<1> HIDE DEF n
<1> QED
  BY <1>2, <1>3, ParsesMore

(* With pauses, a byte is pushed: a message that is complete as far as its *)
(* priority goes is at the beginning of the buffer, and one that the       *)
(* buffer is cut after has become an event.                                *)
LEMMA UninterruptedPush ==
  ASSUME NEW s \in Streams, NEW p \in Nat, p < Len(s), NEW d \in Delimiter, NEW ps \in SUBSET Nat,
         Framing(s, p, d, ps), NEW q, NEW c, c # "send", NEW ev, NEW k \in Readers,
         Uninterrupted(s, p, d, ps, q, c, ev, k),
         NEW res, res = Push(d, s[p + 1]),
         NEW then, NEW c2, NEW ev2, Emits(res, then, ev, c2, ev2)
  PROVE  Uninterrupted(s, p + 1, res.delimiter, ps, q, c2, ev2, k)
<1> DEFINE d2 == res.delimiter
           f == First(p, d)
           g == First(p + 1, d2)
<1>0. Buffered(s, p, d) /\ Begun(s, p, d, ps) /\ Sought(s, p, d, ps) /\ Found(s, p, d)
  BY DEF Framing
<1>1. s \in Seq(Byte) /\ Len(s) \in Nat
  BY MessagesOf
<1>2. /\ d2 \in Delimiter /\ Buffered(s, p + 1, d2)
      /\ Grows(s, p, d, res) \/ Finds(s, p, d, res) \/ Cuts(s, p, d, res)
  BY <1>0, <1>1, PushCases
<1>3. f \in 1..(p + 1) /\ f \in Nat \ {0}
  BY <1>0, <1>1, FirstIn
<1> SUFFICES ASSUME NEW a \in Spared(s, ps)
             PROVE  \/ Got(q, c2, ev2, k, Messages[s][a])
                    \/ Coming(s, p + 1, a)
                    \/ Current(s, p + 1, d2, a)
  BY DEF Uninterrupted
<1>4. a \in Starts(s) /\ Parses(Unended(Messages[s][a])) /\ ~Hit(s, ps, a)
  BY DEF Spared
<1>5. /\ a \in 1..Len(s) /\ a \in Nat \ {0} /\ Messages[s][a] = Message(s, a)
      /\ Message(s, a) \in Seq(Byte)
  BY <1>1, <1>4, StartIs, MessagesOf, MessageHasPri
<1>6. \A e \in PriEnds(s, a) : e \in Nat
  BY <1>1, <1>5, PriShape
<1>7. Got(q, c, ev, k, Messages[s][a]) \/ Coming(s, p, a) \/ Current(s, p, d, a)
  BY DEF Uninterrupted
<1>8. CASE Got(q, c, ev, k, Messages[s][a])
  BY <1>8 DEF Got
<1>9. CASE Coming(s, p, a)
  <2>1. PICK e \in PriEnds(s, a) : p < e
    BY <1>9 DEF Coming
  <2>2. CASE p + 1 < e
    BY <2>2 DEF Coming
  <2>3. CASE e = p + 1
    <3>1. ~(a < f)
      <4> SUFFICES ASSUME a < f PROVE FALSE
        OBVIOUS
      <4>0. a < f /\ p < e /\ a \in Nat \ {0}
        BY <1>5, <2>1
      <4>1. \E t \in ps : a <= t /\ t < e
        <5>1. s \in Seq(Byte) /\ Buffered(s, p, d) /\ Begun(s, p, d, ps)
          BY <1>0, <1>1
        <5>2. a < First(p, d) /\ p < e /\ a \in Nat \ {0} /\ e \in PriEnds(s, a)
          BY <4>0
        <5> QED
          BY ONLY <5>1, <5>2, Missed, p \in Nat, d \in Delimiter, ps \in SUBSET Nat
      <4> QED
        BY <1>4, <4>1, PriHit
    <3>2. CASE Grows(s, p, d, res)
      <4>1. g = f /\ d2.regex = d.regex
        BY <3>2 DEF Grows
      <4>2. CASE d.regex = "start"
        <5>1. a \in f..Len(s)
          BY <1>1, <1>3, <1>5, <3>1
        <5> QED
          BY <2>3, <3>2, <4>2, <5>1 DEF Grows
      <4>3. CASE d.regex = "run"
        <5>1. PICK x \in 1..Len(s) : \E y \in PriEnds(s, x) : y <= p
          BY <1>0, <4>3 DEF Found
        <5>2. PICK y \in PriEnds(s, x) : y <= p
          BY <5>1
        <5>3. x \in Nat \ {0} /\ y \in Nat
          BY <1>1, <5>2, PriShape
        <5>4. x # a
          <6> SUFFICES ASSUME x = a PROVE FALSE
            OBVIOUS
          <6>1. y = e
            BY <1>1, <1>5, <5>2, PriOneEnd
          <6> QED
            BY <2>1, <5>2, <5>3, <6>1
        <5>5. ~(a < x)
          <6> SUFFICES ASSUME a < x PROVE FALSE
            OBVIOUS
          <6>1. e < x /\ x < y
            BY <1>1, <1>5, <5>2, <5>3, PriApart
          <6> QED
            BY <1>6, <2>1, <5>2, <5>3, <6>1
        <5>6. x < a
          BY <1>5, <5>3, <5>4, <5>5
        <5>7. a > 1 /\ s[a - 1] = "\n"
          BY <1>1, <1>4, <5>2, <5>6, StartIs
        <5>8. ~(f < a)
          BY <1>5, <2>3, <3>2, <4>3, <5>7 DEF Grows
        <5>9. g = a
          BY <1>3, <1>5, <3>1, <4>1, <5>8
        <5>10. e <= p + 1
          BY <2>3
        <5> QED
          BY <4>1, <4>3, <5>9, <5>10 DEF Current
      <4> QED
        BY <4>2, <4>3 DEF Delimiter
    <3>3. ASSUME d2.regex = "run", g \in 1..Len(s), p + 1 \in PriEnds(s, g)
          PROVE  Current(s, p + 1, d2, a)
      <4>1. g \in Nat \ {0}
        BY <1>1, <3>3
      <4>2. ~(a < g)
        <5> SUFFICES ASSUME a < g PROVE FALSE
          OBVIOUS
        <5>1. e < g /\ g < p + 1
          BY <1>1, <1>5, <3>3, <4>1, PriApart
        <5> QED
          BY <1>6, <2>3, <4>1, <5>1
      <4>3. ~(g < a)
        <5> SUFFICES ASSUME g < a PROVE FALSE
          OBVIOUS
        <5>1. p + 1 < a /\ a < e
          BY <1>1, <1>5, <3>3, <4>1, PriApart
        <5> QED
          BY <1>5, <1>6, <2>3, <5>1
      <4>4. g = a /\ e <= p + 1
        BY <1>5, <2>3, <4>1, <4>2, <4>3
      <4> QED
        BY <3>3, <4>4 DEF Current
    <3>4. CASE Finds(s, p, d, res)
      <4>1. d2.regex = "run" /\ g \in f..Len(s) /\ p + 1 \in PriEnds(s, g)
        BY <3>4 DEF Finds
      <4>2. g \in 1..Len(s)
        BY <1>1, <1>3, <4>1
      <4> QED
        BY <3>3, <4>1, <4>2
    <3>5. CASE Cuts(s, p, d, res)
      BY <3>3, <3>5 DEF Cuts
    <3> QED
      BY <1>2, <3>2, <3>4, <3>5
  <2> QED
    BY <1>6, <2>1, <2>2, <2>3
<1>10. CASE Current(s, p, d, a)
  <2>1. d.regex = "run" /\ f = a /\ \E e \in PriEnds(s, a) : e <= p
    BY <1>10 DEF Current
  <2>2. CASE Grows(s, p, d, res)
    <3>1. g = a /\ d2.regex = "run"
      BY <2>1, <2>2 DEF Grows
    <3>2. \E e \in PriEnds(s, a) : e <= p + 1
      BY <1>6, <2>1
    <3> QED
      BY <3>1, <3>2 DEF Current
  <2>3. CASE Finds(s, p, d, res)
    BY <2>1, <2>3 DEF Finds
  <2>4. CASE Cuts(s, p, d, res)
    <3>1. f \in Starts(s)
      BY <1>4, <2>1
    <3>2. res.log = Message(s, a) /\ res.match
      BY <1>0, <1>1, <2>1, <2>4, <3>1, CutMessage DEF Cuts
    <3>3. Parses(res.log)
      BY <1>4, <1>5, <3>2, ParsesWhole
    <3>4. c2 = "send" /\ ev2.text = Messages[s][a]
      BY <1>5, <3>2, <3>3 DEF Emits
    <3> QED
      BY <3>4 DEF Got
  <2> QED
    BY <1>2, <2>2, <2>3, <2>4
<1> QED
  BY <1>7, <1>8, <1>9, <1>10

(* More pauses interrupt more messages. *)
LEMMA SparedFewer ==
  ASSUME NEW s, NEW ps, NEW x, NEW a \in Spared(s, ps \cup {x})
  PROVE  a \in Spared(s, ps)
  BY DEF Spared, Hit

(* A pause after the end of the message at the beginning of the buffer,    *)
(* and not in the priority of the next: the flush returns the message,     *)
(* without the newlines at its end.                                        *)
LEMMA FlushedMessage ==
  ASSUME NEW s \in Streams, NEW p \in Nat, NEW d \in Delimiter, NEW ps \in SUBSET Nat,
         Framing(s, p, d, ps), NEW a \in Spared(s, ps \cup {p}), Current(s, p, d, a)
  PROVE  /\ Vestige(d).match
         /\ Vestige(d).log = Unended(Messages[s][a])
<1>0. Buffered(s, p, d) /\ Found(s, p, d)
  BY DEF Framing
<1>1. s \in Seq(Byte) /\ Len(s) \in Nat
  BY MessagesOf
<1>2. First(p, d) \in 1..(p + 1) /\ d.buffer = SubSeq(s, First(p, d), p) /\ p <= Len(s)
  BY <1>0, <1>1, FirstIn
<1>3. a \in Starts(s) /\ ~Hit(s, ps \cup {p}, a)
  BY DEF Spared
<1>4. First(p, d) = a /\ d.regex = "run"
  BY DEF Current
<1>5. PICK e \in PriEnds(s, a) : e <= p
  BY DEF Current
<1>6. a \in 1..Len(s) /\ a \in Nat \ {0} /\ Messages[s][a] = Message(s, a)
  BY <1>1, <1>3, StartIs, MessagesOf
<1>7. e \in Nat /\ a + 2 <= e
  BY <1>1, <1>6, PriShape
<1>8. Vestige(d).match /\ Vestige(d).log = TrimRight(SubSeq(s, a, p), {"\r", "\n"})
  <2>1. \/ \A x \in a..Len(s) : \A y \in PriEnds(s, x) : p < y
        \/ Vestige(d).match /\ Vestige(d).log = TrimRight(SubSeq(s, a, p), {"\r", "\n"})
    BY <1>1, <1>2, <1>4, VestigeOf
  <2>2. a \in a..Len(s)
    BY <1>6
  <2> QED
    BY <1>5, <1>7, <2>1, <2>2
<1>9. PICK z \in a..Len(s), C \in SUBSET {"\r", "\n"} :
        /\ Message(s, a) = TrimRight(SubSeq(s, a, z), C)
        /\ Later(s, a) = {} => z = Len(s)
        /\ Later(s, a) # {} => /\ Leftmost(Later(s, a)) \in Starts(s)
                               /\ a < Leftmost(Later(s, a))
                               /\ z = Leftmost(Later(s, a)) - 2
                               /\ s[z + 1] = "\n"
  BY <1>1, <1>3, MessageBytes
<1>10. Message(s, a) \in Seq(Byte) /\ Len(Message(s, a)) \in Nat
  BY <1>1, <1>3, MessageHasPri
<1>11. a <= p
  BY <1>5, <1>6, <1>7
<1>12. a + Len(Message(s, a)) - 1 <= p
  <2>1. ~(p < a + Len(Messages[s][a]) - 1)
    BY <1>3, <1>11 DEF Hit
  <2> QED
    BY <1>6, <1>10, <2>1
<1>13. \A j \in (z + 1)..p : s[j] \in {"\r", "\n"}
  <2>1. CASE Later(s, a) = {}
    BY <1>1, <1>2, <1>9, <2>1
  <2>2. CASE Later(s, a) # {}
    <3> DEFINE b == Leftmost(Later(s, a))
    <3>1. b \in Starts(s) /\ a < b /\ z = b - 2 /\ s[z + 1] = "\n"
      BY <1>9, <2>2
    <3>2. b \in 1..Len(s) /\ b \in Nat \ {0} /\ b > 1 /\ s[b - 1] = "\n"
      BY <1>1, <1>5, <1>6, <3>1, StartIs
    <3>3. PICK x : x \in PriEnds(s, b)
      BY <1>1, <3>1, StartIs
    <3>4. p < x
      BY <1>0, <1>4, <3>1, <3>2, <3>3 DEF Found
    <3>5. ~(b <= p)
      BY <1>3, <2>2, <3>3, <3>4 DEF Hit
    <3> HIDE DEF b
    <3>6. \A j \in (z + 1)..p : j = z + 1
      BY <3>1, <3>2, <3>5
    <3> QED
      BY <3>1, <3>6
  <2> QED
    BY <2>1, <2>2
<1>14. TrimRight(SubSeq(s, a, p), {"\r", "\n"}) = Unended(TrimRight(SubSeq(s, a, z), C))
  <2>1. z \in Nat /\ z <= Len(s) /\ a <= z + 1 /\ p <= Len(s) /\ a <= p + 1
    BY <1>1, <1>2, <1>6, <1>11
  <2>2. a + Len(TrimRight(SubSeq(s, a, z), C)) - 1 <= p
    BY <1>9, <1>12
  <2> QED
    BY <1>1, <1>6, <1>13, <2>1, <2>2, FlushedText
<1> QED
  BY <1>6, <1>8, <1>9, <1>14

(* With pauses, a read times out. *)
LEMMA UninterruptedFlush ==
  ASSUME NEW s \in Streams, NEW p \in Nat, NEW d \in Delimiter, NEW ps \in SUBSET Nat,
         Framing(s, p, d, ps), NEW q, NEW c, c # "send", NEW ev, NEW k \in Readers,
         Uninterrupted(s, p, d, ps, q, c, ev, k),
         NEW res, res = Vestige(d),
         NEW then, NEW c2, NEW ev2, Emits(res, then, ev, c2, ev2)
  PROVE  Uninterrupted(s, p, res.delimiter, ps \cup {p}, q, c2, ev2, k)
<1> SUFFICES ASSUME NEW a \in Spared(s, ps \cup {p})
             PROVE  Got(q, c2, ev2, k, Messages[s][a]) \/ Coming(s, p, a)
  BY DEF Uninterrupted
<1>1. a \in Spared(s, ps)
  BY SparedFewer
<1>2. Got(q, c, ev, k, Messages[s][a]) \/ Coming(s, p, a) \/ Current(s, p, d, a)
  BY <1>1 DEF Uninterrupted
<1>3. CASE Got(q, c, ev, k, Messages[s][a])
  BY <1>3 DEF Got
<1>4. CASE Current(s, p, d, a)
  <2>1. res.match /\ res.log = Unended(Messages[s][a])
    BY <1>4, FlushedMessage
  <2>2. Parses(Unended(Messages[s][a]))
    BY DEF Spared
  <2>3. c2 = "send" /\ ev2.text = Unended(Messages[s][a])
    BY <2>1, <2>2 DEF Emits
  <2> QED
    BY <2>3 DEF Got
<1> QED
  BY <1>2, <1>3, <1>4

(* At the end of the stream, the message at the beginning of the buffer is *)
(* the last one, and the flush returns it.                                 *)
LEMMA LastMessage ==
  ASSUME NEW s \in Streams, NEW p \in Nat, p = Len(s), NEW d \in Delimiter, NEW ps \in SUBSET Nat,
         Framing(s, p, d, ps), d.regex = "run", First(p, d) \in Starts(s)
  PROVE  /\ \A b \in Starts(s) : b <= First(p, d)
         /\ Vestige(d).match
         /\ Vestige(d).log = Message(s, First(p, d))
<1> DEFINE f == First(p, d)
<1>0. Buffered(s, p, d) /\ Found(s, p, d)
  BY DEF Framing
<1>1. s \in Seq(Byte) /\ Len(s) \in Nat
  BY MessagesOf
<1>2. f \in 1..(p + 1) /\ d.buffer = SubSeq(s, f, p) /\ p <= Len(s)
  BY <1>0, <1>1, FirstIn
<1>3. f \in 1..Len(s) /\ f \in Nat \ {0} /\ PriEnds(s, f) # {}
  BY <1>1, StartIs
<1>4. \A b \in Starts(s) : ~(f < b)
  <2> SUFFICES ASSUME NEW b \in Starts(s), f < b PROVE FALSE
    OBVIOUS
  <2>1. b \in 1..Len(s) /\ b \in Nat \ {0} /\ b > 1 /\ s[b - 1] = "\n"
    BY <1>1, <1>3, StartIs
  <2>2. PICK x : x \in PriEnds(s, b)
    BY <1>1, StartIs
  <2>3. x \in Nat /\ x <= Len(s)
    BY <1>1, <2>1, <2>2, PriShape
  <2>4. p < x
    BY <1>0, <2>1, <2>2 DEF Found
  <2> QED
    BY <1>1, <2>3, <2>4
<1>5. \A b \in Starts(s) : b <= f
  <2>1. \A b \in Starts(s) : b \in Nat
    BY <1>1, StartIs
  <2> QED
    BY <1>3, <1>4, <2>1
<1>6. Message(s, f) = TrimRight(SubSeq(s, f, Len(s)), {"\r", "\n"})
  <2>1. Later(s, f) = {}
    BY <1>4 DEF Later
  <2> QED
    BY <2>1 DEF Message
<1>7. PICK e : e \in PriEnds(s, f)
  BY <1>3
<1>8. e \in Nat /\ e <= Len(s)
  BY <1>1, <1>3, <1>7, PriShape
<1>9. Vestige(d).match /\ Vestige(d).log = TrimRight(SubSeq(s, f, p), {"\r", "\n"})
  <2> HIDE DEF f
  <2>1. \/ \A x \in f..Len(s) : \A y \in PriEnds(s, x) : p < y
        \/ Vestige(d).match /\ Vestige(d).log = TrimRight(SubSeq(s, f, p), {"\r", "\n"})
    BY <1>1, <1>2, VestigeOf
  <2>2. f \in f..Len(s)
    BY <1>3
  <2> QED
    BY <1>1, <1>7, <1>8, <2>1, <2>2
<1> QED
  BY <1>5, <1>6, <1>9

(* The connection is open and gets a byte. *)
LEMMA OpenPush ==
  ASSUME NEW s \in Streams, NEW p \in Nat, p < Len(s), NEW d \in Delimiter, NEW ps \in SUBSET Nat,
         NEW q, NEW c, c # "send", NEW ev, NEW k \in Readers,
         Open(s, p, d, ps, q, c, ev, k),
         NEW res, res = Push(d, s[p + 1]),
         NEW then, then # "send", NEW c2, NEW ev2, Emits(res, then, ev, c2, ev2)
  PROVE  Open(s, p + 1, res.delimiter, ps, q, c2, ev2, k)
<1>1. /\ Framing(s, p, d, ps) /\ Uninterrupted(s, p, d, ps, q, c, ev, k)
      /\ ps = {} => Framed(s, p, d, q, c, ev, k)
  BY DEF Open
<1>2. s \in Seq(Byte)
  BY MessagesOf
<1>3. Framing(s, p + 1, res.delimiter, ps)
  BY <1>1, <1>2, FramingPush
<1>4. Uninterrupted(s, p + 1, res.delimiter, ps, q, c2, ev2, k)
  BY <1>1, UninterruptedPush
<1>5. ASSUME ps = {} PROVE Framed(s, p + 1, res.delimiter, q, c2, ev2, k)
  <2>1. Framing(s, p, d, {}) /\ Framed(s, p, d, q, c, ev, k)
    BY <1>1, <1>5
  <2> QED
    BY <2>1, FramedPush
<1> QED
  BY <1>3, <1>4, <1>5 DEF Open

(* The connection is open and a read times out. *)
LEMMA OpenFlush ==
  ASSUME NEW s \in Streams, NEW p \in Nat, NEW d \in Delimiter, NEW ps \in SUBSET Nat,
         NEW q, NEW c, c # "send", NEW ev, NEW k \in Readers,
         Open(s, p, d, ps, q, c, ev, k),
         NEW res, res = Vestige(d),
         NEW then, NEW c2, NEW ev2, Emits(res, then, ev, c2, ev2)
  PROVE  /\ res.delimiter \in Delimiter
         /\ Open(s, p, res.delimiter, ps \cup {p}, q, c2, ev2, k)
<1>1. Framing(s, p, d, ps) /\ Uninterrupted(s, p, d, ps, q, c, ev, k)
  BY DEF Open
<1>2. s \in Seq(Byte)
  BY MessagesOf
<1>3. First(p, d) \in 1..(p + 1) /\ d.buffer = SubSeq(s, First(p, d), p) /\ p <= Len(s)
  BY <1>1, <1>2, FirstIn DEF Framing
<1>4. res.delimiter = [buffer |-> << >>, regex |-> d.regex]
  BY <1>2, <1>3, VestigeOf
<1>5. res.delimiter \in Delimiter /\ Framing(s, p, res.delimiter, ps \cup {p})
  BY <1>1, <1>2, <1>4, FramingFlush
<1>6. Uninterrupted(s, p, res.delimiter, ps \cup {p}, q, c2, ev2, k)
  BY <1>1, UninterruptedFlush
<1> QED
  BY <1>5, <1>6 DEF Open

(* The connection is open and its stream ends. *)
LEMMA OpenEnds ==
  ASSUME NEW s \in Streams, NEW p \in Nat, p = Len(s), NEW d \in Delimiter, NEW ps \in SUBSET Nat,
         NEW q, NEW c, c # "send", NEW ev, NEW k \in Readers,
         Open(s, p, d, ps, q, c, ev, k),
         NEW res, res = Vestige(d),
         NEW then, then # "send", NEW c2, NEW ev2, Emits(res, then, ev, c2, ev2)
  PROVE  Closed(s, ps, q, c2, ev2, k)
<1> DEFINE f == First(p, d)
<1>1. /\ Framing(s, p, d, ps) /\ Uninterrupted(s, p, d, ps, q, c, ev, k)
      /\ ps = {} => Framed(s, p, d, q, c, ev, k)
  BY DEF Open
<1>2. s \in Seq(Byte) /\ Len(s) \in Nat
  BY MessagesOf
<1>3. f \in 1..(p + 1) /\ d.buffer = SubSeq(s, f, p) /\ p <= Len(s)
  BY <1>1, <1>2, FirstIn DEF Framing
<1>4. Parsed[s] = {a \in Starts(s) : Parses(Message(s, a))} /\ Parsed[s] \in SUBSET Nat
  BY MessagesOf
<1>5. d.regex = "start" \/ d.regex = "run"
  BY DEF Delimiter
<1>6. ASSUME ps = {} PROVE Delivers(q, c2, ev2, k, Parsed[s], Messages[s])
  <2>1. /\ d.regex = "run" => f \in Starts(s)
        /\ Delivers(q, c, ev, k, Cut(s, p, d), Messages[s])
    BY <1>1, <1>6 DEF Framed
  <2>2. CASE d.regex = "start"
    <3>1. \A x \in 1..Len(s) : \A e \in PriEnds(s, x) : ~(e <= p)
      BY <1>1, <1>6, <2>2 DEF Framing, Sought
    <3>2. \A x \in 1..Len(s) : PriEnds(s, x) = {}
      <4> SUFFICES ASSUME NEW x \in 1..Len(s), NEW e \in PriEnds(s, x) PROVE FALSE
        OBVIOUS
      <4>1. x \in Nat \ {0}
        BY <1>2
      <4>2. e \in Nat /\ e <= Len(s)
        BY <1>2, <4>1, PriShape
      <4> QED
        BY <3>1, <4>2
    <3>3. Starts(s) = {}
      BY <1>2, <3>2, StartIs
    <3>4. Parsed[s] = {} /\ Cut(s, p, d) = {}
      BY <1>4, <3>3 DEF Cut
    <3>5. ~res.match
      <4> HIDE DEF f
      <4>1. ~res.match \/ \E a \in f..Len(s) : \E e \in PriEnds(s, a) : e <= p
        BY <1>2, <1>3, VestigeOf
      <4> QED
        BY <1>2, <1>3, <3>2, <4>1
    <3>6. c2 # "send"
      BY <3>5 DEF Emits
    <3> QED
      BY <2>1, <3>4, <3>6 DEF Delivers
  <2>3. CASE d.regex = "run"
    <3>1. f \in Starts(s)
      BY <2>1, <2>3
    <3>2. (\A b \in Starts(s) : b <= f) /\ res.match /\ res.log = Message(s, f)
      BY <1>1, <2>3, <3>1, LastMessage
    <3>3. Cut(s, p, d) = Before(s, f)
      BY DEF Cut, Before
    <3>4. UpTo(s, f) = Parsed[s]
      BY <1>4, <3>2 DEF UpTo
    <3> HIDE DEF f
    <3>5. Delivers(q, c, ev, k, Before(s, f), Messages[s])
      BY <2>1, <3>3
    <3>6. Delivers(q, c2, ev2, k, UpTo(s, f), Messages[s])
      BY <3>1, <3>2, <3>5, TakesUp
    <3> QED
      BY <3>4, <3>6
  <2> QED
    BY <1>5, <2>2, <2>3
<1>7. ASSUME NEW a \in Spared(s, ps) PROVE Got(q, c2, ev2, k, Messages[s][a])
  <2>1. Got(q, c, ev, k, Messages[s][a]) \/ Coming(s, p, a) \/ Current(s, p, d, a)
    BY <1>1 DEF Uninterrupted
  <2>2. a \in Starts(s) /\ Parses(Unended(Messages[s][a]))
    BY DEF Spared
  <2>3. /\ a \in Nat \ {0} /\ Messages[s][a] = Message(s, a) /\ Message(s, a) \in Seq(Byte)
    BY <1>2, <2>2, StartIs, MessagesOf, MessageHasPri
  <2>4. CASE Got(q, c, ev, k, Messages[s][a])
    BY <2>4 DEF Got
  <2>5. CASE Coming(s, p, a)
    <3>1. PICK e \in PriEnds(s, a) : p < e
      BY <2>5 DEF Coming
    <3>2. e \in Nat /\ e <= Len(s)
      BY <1>2, <2>3, PriShape
    <3> QED
      BY <1>2, <3>1, <3>2
  <2>6. CASE Current(s, p, d, a)
    <3>1. d.regex = "run" /\ f = a
      BY <2>6 DEF Current
    <3>2. f \in Starts(s)
      BY <2>2, <3>1
    <3>3. res.match /\ res.log = Message(s, a)
      BY <1>1, <3>1, <3>2, LastMessage
    <3>4. Parses(res.log)
      BY <2>2, <2>3, <3>3, ParsesWhole
    <3>5. c2 = "send" /\ ev2.text = Messages[s][a]
      BY <2>3, <3>3, <3>4 DEF Emits
    <3> QED
      BY <3>5 DEF Got
  <2> QED
    BY <2>1, <2>4, <2>5, <2>6
<1> QED
  BY <1>6, <1>7 DEF Closed

(* A message that has become an event stays in the channel. *)
LEMMA GotSent ==
  ASSUME NEW q \in Seq(Event), NEW ev \in Event, NEW k \in Readers, ev.source = k,
         NEW m, Got(q, "send", ev, k, m), NEW c2, NEW other
  PROVE  Got(Append(q, ev), c2, other, k, m)
<1> DEFINE q2 == Append(q, ev)
           n == Len(q) + 1
<1>1. Len(q) \in Nat /\ Len(q2) = n /\ (\A j \in 1..Len(q) : q2[j] = q[j]) /\ q2[n] = ev
  BY Appended
<1>2. Of(q2, k, n) = Of(q, k, Len(q)) \cup {n}
  BY OfOwn
<1> HIDE DEF q2
<1>3. CASE ev.text \in {m, Unended(m)}
  <2>1. n \in Of(q2, k, Len(q2)) /\ q2[n].text \in {m, Unended(m)}
    BY <1>1, <1>2, <1>3
  <2> QED
    BY <2>1 DEF Got, q2
<1>4. CASE \E j \in Of(q, k, Len(q)) : q[j].text \in {m, Unended(m)}
  <2>1. PICK j \in Of(q, k, Len(q)) : q[j].text \in {m, Unended(m)}
    BY <1>4
  <2>2. j \in 1..Len(q)
    BY DEF Of
  <2>3. j \in Of(q2, k, Len(q2)) /\ q2[j].text \in {m, Unended(m)}
    BY <1>1, <1>2, <2>1, <2>2
  <2> QED
    BY <2>3 DEF Got, q2
<1> QED
  BY <1>3, <1>4 DEF Got

(* And so it does when another source sends. *)
LEMMA GotBeside ==
  ASSUME NEW q \in Seq(Event), NEW ev \in Event, NEW k \in Readers, ev.source # k,
         NEW m, NEW c, NEW mine, Got(q, c, mine, k, m)
  PROVE  Got(Append(q, ev), c, mine, k, m)
<1> DEFINE q2 == Append(q, ev)
           n == Len(q) + 1
<1>1. Len(q) \in Nat /\ Len(q2) = n /\ (\A j \in 1..Len(q) : q2[j] = q[j])
  BY Appended
<1>2. Of(q2, k, n) = Of(q, k, Len(q))
  BY OfOther
<1> HIDE DEF q2
<1>3. CASE c = "send" /\ mine.text \in {m, Unended(m)}
  BY <1>3 DEF Got
<1>4. CASE \E j \in Of(q, k, Len(q)) : q[j].text \in {m, Unended(m)}
  <2>1. PICK j \in Of(q, k, Len(q)) : q[j].text \in {m, Unended(m)}
    BY <1>4
  <2>2. j \in 1..Len(q)
    BY DEF Of
  <2>3. j \in Of(q2, k, Len(q2)) /\ q2[j].text \in {m, Unended(m)}
    BY <1>1, <1>2, <2>1, <2>2
  <2> QED
    BY <2>3 DEF Got, q2
<1> QED
  BY <1>3, <1>4 DEF Got

(* A connection puts its event into the channel. *)
LEMMA ConnSent ==
  ASSUME NEW s \in Streams, NEW p, NEW d, NEW ps, NEW q \in Seq(Event), NEW ev \in Event,
         NEW k \in Readers, ev.source = k, NEW c2, c2 # "send", NEW other
  PROVE  /\ Open(s, p, d, ps, q, "send", ev, k)
              => Open(s, p, d, ps, Append(q, ev), c2, other, k)
         /\ Closed(s, ps, q, "send", ev, k) => Closed(s, ps, Append(q, ev), c2, other, k)
<1> DEFINE q2 == Append(q, ev)
<1>1. Parsed[s] \in SUBSET Nat /\ IsFiniteSet(Parsed[s])
  BY MessagesOf
<1>2. Cut(s, p, d) \in SUBSET Nat /\ IsFiniteSet(Cut(s, p, d))
  BY <1>1, FS_Subset DEF Cut
<1>3. ASSUME NEW m, Got(q, "send", ev, k, m) PROVE Got(q2, c2, other, k, m)
  BY <1>3, GotSent
<1>4. ASSUME NEW cut \in SUBSET Nat, IsFiniteSet(cut), Delivers(q, "send", ev, k, cut, Messages[s])
      PROVE  Delivers(q2, c2, other, k, cut, Messages[s])
  BY <1>4, DeliversSent
<1> HIDE DEF q2
<1>5. ASSUME Open(s, p, d, ps, q, "send", ev, k) PROVE Open(s, p, d, ps, q2, c2, other, k)
  <2>1. /\ Framing(s, p, d, ps)
        /\ ps = {} => Framed(s, p, d, q, "send", ev, k)
        /\ Uninterrupted(s, p, d, ps, q, "send", ev, k)
    BY <1>5 DEF Open
  <2>2. ps = {} => Framed(s, p, d, q2, c2, other, k)
    BY <1>2, <1>4, <2>1 DEF Framed
  <2>3. Uninterrupted(s, p, d, ps, q2, c2, other, k)
    BY <1>3, <2>1 DEF Uninterrupted
  <2> QED
    BY <2>1, <2>2, <2>3 DEF Open
<1>6. ASSUME Closed(s, ps, q, "send", ev, k) PROVE Closed(s, ps, q2, c2, other, k)
  BY <1>1, <1>3, <1>4, <1>6 DEF Closed
<1> QED
  BY <1>5, <1>6 DEF q2

(* Another source does. *)
LEMMA ConnBeside ==
  ASSUME NEW s \in Streams, NEW p, NEW d, NEW ps, NEW q \in Seq(Event), NEW ev \in Event,
         NEW k \in Readers, ev.source # k, NEW c, NEW mine
  PROVE  /\ Open(s, p, d, ps, q, c, mine, k) => Open(s, p, d, ps, Append(q, ev), c, mine, k)
         /\ Closed(s, ps, q, c, mine, k) => Closed(s, ps, Append(q, ev), c, mine, k)
<1> DEFINE q2 == Append(q, ev)
<1>1. ASSUME NEW m, Got(q, c, mine, k, m) PROVE Got(q2, c, mine, k, m)
  BY <1>1, GotBeside
<1>2. ASSUME NEW cut, Delivers(q, c, mine, k, cut, Messages[s])
      PROVE  Delivers(q2, c, mine, k, cut, Messages[s])
  BY <1>2, DeliversBeside
<1> HIDE DEF q2
<1>3. ASSUME Open(s, p, d, ps, q, c, mine, k) PROVE Open(s, p, d, ps, q2, c, mine, k)
  <2>1. /\ Framing(s, p, d, ps)
        /\ ps = {} => Framed(s, p, d, q, c, mine, k)
        /\ Uninterrupted(s, p, d, ps, q, c, mine, k)
    BY <1>3 DEF Open
  <2>2. ps = {} => Framed(s, p, d, q2, c, mine, k)
    BY <1>2, <2>1 DEF Framed
  <2>3. Uninterrupted(s, p, d, ps, q2, c, mine, k)
    BY <1>1, <2>1 DEF Uninterrupted
  <2> QED
    BY <2>1, <2>2, <2>3 DEF Open
<1>4. ASSUME Closed(s, ps, q, c, mine, k) PROVE Closed(s, ps, q2, c, mine, k)
  BY <1>1, <1>2, <1>4 DEF Closed
<1> QED
  BY <1>3, <1>4 DEF q2

(* A connection that waits for nothing stops. *)
LEMMA OpenStops ==
  ASSUME NEW s, NEW p, NEW d, NEW ps, NEW q, NEW ev, NEW k,
         NEW c, c # "send", NEW c2, c2 # "send", Open(s, p, d, ps, q, c, ev, k)
  PROVE  Open(s, p, d, ps, q, c2, ev, k)
<1>1. ps = {} => Framed(s, p, d, q, c2, ev, k)
  BY DEF Open, Framed, Delivers
<1>2. Uninterrupted(s, p, d, ps, q, c2, ev, k)
  BY DEF Open, Uninterrupted, Got
<1> QED
  BY <1>1, <1>2 DEF Open

-----------------------------------------------------------------------------
(* The steps of the collectors.                                            *)

(* Push returns a delimiter and a line. *)
LEMMA PushType ==
  ASSUME NEW d \in Delimiter, NEW b \in Byte
  PROVE  Push(d, b).delimiter \in Delimiter /\ Push(d, b).log \in Seq(Byte)
<1> DEFINE t == Append(d.buffer, b)
<1>1. d.buffer \in Seq(Byte) /\ d.regex \in {"start", "run"}
  BY DEF Delimiter
<1>2. t \in Seq(Byte) /\ Len(t) \in Nat
  BY <1>1
<1>3. \A x \in Seq(Byte) : [d EXCEPT !.buffer = x] \in Delimiter
  BY <1>1, WithBuffer DEF Delimiter
<1>4. \A a \in Nat : SubSeq(t, a + 1, Len(t)) \in Seq(Byte)
  <2> SUFFICES ASSUME NEW a \in Nat PROVE SubSeq(t, a + 1, Len(t)) \in Seq(Byte)
    OBVIOUS
  <2> HIDE DEF t
  <2> QED
    BY <1>2
<1>5. ASSUME StartMatches(t) # {} PROVE SubSeq(t, Leftmost(StartMatches(t)), Len(t)) \in Seq(Byte)
  <2> HIDE DEF t
  <2>1. StartMatches(t) \in SUBSET Nat /\ StartMatches(t) \in SUBSET (1..Len(t))
    BY <1>2 DEF StartMatches
  <2>2. Leftmost(StartMatches(t)) \in 1..Len(t)
    BY <1>5, <2>1, LeftmostIs
  <2> QED
    BY <1>2, <2>2
<1>6. ASSUME RunMatches(t) # {}
      PROVE  /\ Leftmost(RunMatches(t)) \in Nat
             /\ TrimRight(SubSeq(t, 1, Leftmost(RunMatches(t)) - 1), {"\r"}) \in Seq(Byte)
  <2> HIDE DEF t
  <2>1. RunMatches(t) \in SUBSET Nat /\ RunMatches(t) \in SUBSET (1..(Len(t) - 1))
    BY <1>2 DEF RunMatches
  <2>2. Leftmost(RunMatches(t)) \in 1..(Len(t) - 1)
    BY <1>6, <2>1, LeftmostIs
  <2>3. SubSeq(t, 1, Leftmost(RunMatches(t)) - 1) \in Seq(Byte)
    BY <1>2, <2>2
  <2>4. Leftmost(RunMatches(t)) \in Nat
    BY <2>2
  <2>5. TrimRight(SubSeq(t, 1, Leftmost(RunMatches(t)) - 1), {"\r"}) \in Seq(Byte)
    BY <2>3, TrimType
  <2> QED
    BY <2>4, <2>5
<1> HIDE DEF t
<1>0. << >> \in Seq(Byte)
  OBVIOUS
<1>7. CASE d.regex = "start" /\ StartMatches(t) = {}
  <2>1. Push(d, b) = [delimiter |-> [d EXCEPT !.buffer = t], log |-> << >>, match |-> FALSE]
    BY <1>7 DEF Push, NoLine, t
  <2> QED
    BY <1>0, <1>2, <1>3, <2>1
<1>8. CASE d.regex = "start" /\ StartMatches(t) # {}
  <2> DEFINE u == SubSeq(t, Leftmost(StartMatches(t)), Len(t))
  <2>1. Push(d, b) = [delimiter |-> [buffer |-> u, regex |-> "run"], log |-> << >>, match |-> FALSE]
    BY <1>8 DEF Push, NoLine, t
  <2>2. u \in Seq(Byte)
    BY <1>5, <1>8
  <2> HIDE DEF u
  <2>3. [buffer |-> u, regex |-> "run"] \in Delimiter
    BY <2>2 DEF Delimiter
  <2> QED
    BY <1>0, <2>1, <2>3
<1>9. CASE d.regex # "start" /\ RunMatches(t) = {}
  <2>1. Push(d, b) = [delimiter |-> [d EXCEPT !.buffer = t], log |-> << >>, match |-> FALSE]
    BY <1>9 DEF Push, NoLine, t
  <2> QED
    BY <1>0, <1>2, <1>3, <2>1
<1>10. CASE d.regex # "start" /\ RunMatches(t) # {}
  BY <1>3, <1>4, <1>6, <1>10 DEF Push, t
<1> QED
  BY <1>7, <1>8, <1>9, <1>10

(* So does Vestige. *)
LEMMA VestigeType ==
  ASSUME NEW d \in Delimiter
  PROVE  Vestige(d).delimiter \in Delimiter /\ Vestige(d).log \in Seq(Byte)
<1>1. d.buffer \in Seq(Byte) /\ d.regex \in {"start", "run"}
  BY DEF Delimiter
<1>0. << >> \in Seq(Byte)
  OBVIOUS
<1>2. [d EXCEPT !.buffer = << >>] \in Delimiter
  <2>1. [d EXCEPT !.buffer = << >>] = [buffer |-> << >>, regex |-> d.regex]
    BY WithBuffer
  <2> QED
    BY <1>0, <1>1, <2>1 DEF Delimiter
<1>3. TrimRight(d.buffer, {"\r", "\n"}) \in Seq(Byte)
  BY <1>1, TrimType
<1> QED
  BY <1>2, <1>3 DEF Vestige, NoLine

(* A goroutine that reads takes the line of res, if there is one that      *)
(* parses, and else goes on to then.                                       *)
Takes(r, res, then) ==
  IF res.match /\ Parses(res.log)
  THEN /\ sequenceNumber' = sequenceNumber + 1
       /\ event' = [event EXCEPT ![r] = [source |-> r, text |-> res.log,
                                         seq |-> sequenceNumber + 1]]
       /\ pc' = [pc EXCEPT ![r] = "send"]
  ELSE pc' = [pc EXCEPT ![r] = then] /\ UNCHANGED <<event, sequenceNumber>>

(* That is what a connection does with the result of its delimiter.        *)
LEMMA TakesDispatch ==
  ASSUME NEW k, NEW res, NEW then, Dispatch(k, res, then)
  PROVE  Takes(k, res, then) /\ delimiter' = [delimiter EXCEPT ![k] = res.delimiter]
BY DEF Dispatch, Emit, Takes

(* And what the collector of packets does with a packet. *)
LEMMA TakesPacket ==
  ASSUME NEW log, Emit(UDP, log, "read")
  PROVE  Takes(UDP, [match |-> TRUE, log |-> log], "read")
BY DEF Emit, Takes

(* What it leaves behind for the goroutine and for the others. *)
LEMMA TakesTyped ==
  ASSUME Typed, NEW r \in Readers, NEW res, res.log \in Seq(Byte),
         NEW then \in {"read", "done"}, Takes(r, res, then)
  PROVE  /\ pc' \in [Readers -> {"read", "send", "done"}]
         /\ event' \in [Readers -> Event]
         /\ sequenceNumber' \in Nat
         /\ \A q \in Readers : q # r => pc'[q] = pc[q] /\ event'[q] = event[q]
         /\ Emits(res, then, event[r], pc'[r], event'[r])
<1>1. pc \in [Readers -> {"read", "send", "done"}] /\ event \in [Readers -> Event] /\ sequenceNumber \in Nat
  BY DEF Typed
<1>2. CASE res.match /\ Parses(res.log)
  <2> DEFINE new == [source |-> r, text |-> res.log, seq |-> sequenceNumber + 1]
  <2>1. new \in Event /\ new.text = res.log
    BY <1>1 DEF Event
  <2>2. /\ sequenceNumber' = sequenceNumber + 1 /\ event' = [event EXCEPT ![r] = new]
        /\ pc' = [pc EXCEPT ![r] = "send"]
    BY <1>2 DEF Takes
  <2> HIDE DEF new
  <2>3. Emits(res, then, event[r], pc'[r], event'[r])
    BY <1>1, <1>2, <2>1, <2>2 DEF Emits
  <2> QED
    BY <1>1, <2>1, <2>2, <2>3
<1>3. CASE ~(res.match /\ Parses(res.log))
  <2>1. pc' = [pc EXCEPT ![r] = then] /\ event' = event /\ sequenceNumber' = sequenceNumber
    BY <1>3 DEF Takes
  <2>2. Emits(res, then, event[r], pc'[r], event'[r])
    BY <1>1, <1>3, <2>1 DEF Emits
  <2> QED
    BY <1>1, <2>1, <2>2
<1> QED
  BY <1>2, <1>3

(* The number it draws is beyond all others. *)
LEMMA TakesNumbered ==
  ASSUME Typed, Numbered, NEW r \in Readers, NEW res, NEW then \in {"read", "done"},
         Takes(r, res, then), rx' = rx
  PROVE  Numbered'
<1>1. /\ pc \in [Readers -> {"read", "send", "done"}] /\ event \in [Readers -> Event]
      /\ sequenceNumber \in Nat /\ rx \in Seq(Event)
  BY DEF Typed
<1>2. \A j \in 1..Len(rx) : rx[j].seq \in Nat
  <2>1. \A j \in 1..Len(rx) : rx[j] \in Event
    BY <1>1
  <2> QED
    BY <2>1 DEF Event
<1>3. \A q \in Readers : event[q].seq \in Nat
  BY <1>1 DEF Event
<1>4. SequencesOrdered'
  BY DEF Numbered, SequencesOrdered
<1>5. CASE res.match /\ Parses(res.log)
  <2>1. /\ sequenceNumber' = sequenceNumber + 1 /\ pc' = [pc EXCEPT ![r] = "send"]
        /\ event' = [event EXCEPT ![r] = [source |-> r, text |-> res.log, seq |-> sequenceNumber + 1]]
    BY <1>5 DEF Takes
  <2>2. event'[r].source = r /\ event'[r].seq = sequenceNumber + 1
    BY <1>1, <2>1
  <2>3. \A q \in Readers : q # r => pc'[q] = pc[q] /\ event'[q] = event[q]
    BY <1>1, <2>1
  <2>4. \A j \in 1..Len(rx) : rx[j].seq <= sequenceNumber
    BY DEF Numbered
  <2>5. \A q \in Readers : pc[q] = "send" =>
          /\ event[q].source = q
          /\ event[q].seq <= sequenceNumber
          /\ \A j \in 1..Len(rx) : /\ rx[j].seq # event[q].seq
                                   /\ rx[j].source = q => rx[j].seq < event[q].seq
          /\ \A o \in Readers : (o # q /\ pc[o] = "send") => event[o].seq # event[q].seq
    BY DEF Numbered
  <2>6. \A j \in 1..Len(rx) : rx[j].seq < sequenceNumber + 1
    BY <1>1, <1>2, <2>4
  <2>7. ASSUME NEW q \in Readers, pc'[q] = "send"
        PROVE  /\ event'[q].source = q
               /\ event'[q].seq <= sequenceNumber'
               /\ \A j \in 1..Len(rx) : /\ rx[j].seq # event'[q].seq
                                        /\ rx[j].source = q => rx[j].seq < event'[q].seq
               /\ \A o \in Readers : (o # q /\ pc'[o] = "send") => event'[o].seq # event'[q].seq
    <3>1. CASE q = r
      <4>1. \A o \in Readers : (o # q /\ pc'[o] = "send") => event'[o].seq <= sequenceNumber
        BY <2>3, <2>5, <3>1
      <4>2. \A o \in Readers : (o # q /\ pc'[o] = "send") => event'[o].seq # sequenceNumber + 1
        BY <1>1, <1>3, <2>3, <3>1, <4>1
      <4> QED
        BY <1>1, <1>2, <2>1, <2>2, <2>6, <3>1, <4>2
    <3>2. CASE q # r
      <4>1. pc[q] = "send" /\ event'[q] = event[q] /\ event[q].seq <= sequenceNumber
        BY <2>3, <2>5, <2>7, <3>2
      <4>2. event[q].seq # sequenceNumber + 1 /\ event[q].seq <= sequenceNumber'
        BY <1>1, <1>3, <2>1, <4>1
      <4>3. \A o \in Readers : (o # q /\ pc'[o] = "send") => event'[o].seq # event[q].seq
        BY <2>2, <2>3, <2>5, <4>1, <4>2
      <4> QED
        BY <2>5, <4>1, <4>2, <4>3
    <3> QED
      BY <3>1, <3>2
  <2>8. \A j \in 1..Len(rx) : rx[j].seq <= sequenceNumber'
    BY <1>1, <1>2, <2>1, <2>4
  <2> QED
    BY <1>4, <2>7, <2>8 DEF Numbered
<1>6. CASE ~(res.match /\ Parses(res.log))
  <2>1. pc' = [pc EXCEPT ![r] = then] /\ event' = event /\ sequenceNumber' = sequenceNumber
    BY <1>6 DEF Takes
  <2>2. \A q \in Readers : pc'[q] = "send" => pc[q] = "send"
    BY <1>1, <2>1
  <2> QED
    BY <1>4, <2>1, <2>2 DEF Numbered
<1> QED
  BY <1>5, <1>6

(* A step of a connection: what it does beside its own framing. *)
LEMMA ConnStep ==
  ASSUME IInv, NEW k \in Conns, pc[k] = "read",
         NEW res, res.delimiter \in Delimiter, res.log \in Seq(Byte),
         NEW then \in {"read", "done"}, Dispatch(k, res, then),
         UNCHANGED <<stream, packet, buf, rx, broken>>,
         pos' \in [Conns -> Nat], eof' \in [Conns -> BOOLEAN], pauses' \in [Conns -> SUBSET Nat],
         \A o \in Conns : o # k => pos'[o] = pos[o] /\ eof'[o] = eof[o] /\ pauses'[o] = pauses[o],
         eof'[k] <=> then = "done"
  PROVE  /\ Typed' /\ Ended' /\ Numbered' /\ PacketInv'
         /\ \A o \in Conns : o # k => Conn(o)'
         /\ Emits(res, then, event[k], pc'[k], event'[k])
         /\ delimiter'[k] = res.delimiter
<1>1. Typed /\ Ended /\ Numbered /\ PacketInv /\ ConnInv
  BY DEF IInv
<1>2. k \in Readers /\ k # UDP /\ UDP \in Readers
  BY DEF Readers
<1>3. Takes(k, res, then) /\ delimiter' = [delimiter EXCEPT ![k] = res.delimiter]
  BY TakesDispatch
<1>4. /\ pc' \in [Readers -> {"read", "send", "done"}]
      /\ event' \in [Readers -> Event]
      /\ sequenceNumber' \in Nat
      /\ \A q \in Readers : q # k => pc'[q] = pc[q] /\ event'[q] = event[q]
      /\ Emits(res, then, event[k], pc'[k], event'[k])
  BY <1>1, <1>2, <1>3, TakesTyped
<1>5. /\ delimiter' \in [Conns -> Delimiter] /\ delimiter'[k] = res.delimiter
      /\ \A o \in Conns : o # k => delimiter'[o] = delimiter[o]
  BY <1>1, <1>3 DEF Typed
<1>6. Typed'
  BY <1>1, <1>4, <1>5 DEF Typed
<1>7. Ended'
  <2>1. pc'[k] = "send" \/ pc'[k] = then
    BY <1>4 DEF Emits
  <2>2. \A o \in Conns : o # k => pc'[o] = pc[o]
    BY <1>4 DEF Readers
  <2>3. (pc'[k] = "read" => ~eof'[k]) /\ (pc'[k] = "done" => eof'[k])
    BY <2>1
  <2>4. \A o \in Conns : /\ pc[o] = "read" => ~eof[o]
                         /\ (pc[o] = "done" /\ o \notin broken) => eof[o]
    BY <1>1 DEF Ended
  <2>5. \A o \in Conns : o # k => /\ pc'[o] = "read" => ~eof'[o]
                                  /\ (pc'[o] = "done" /\ o \notin broken') => eof'[o]
    BY <2>2, <2>4
  <2> QED
    BY <2>3, <2>5 DEF Ended
<1>8. Numbered'
  BY <1>1, <1>2, <1>3, TakesNumbered
<1>9. PacketInv'
  <2>1. pc'[UDP] = pc[UDP] /\ event'[UDP] = event[UDP] /\ packet' = packet /\ rx' = rx
    BY <1>2, <1>4
  <2> QED
    BY <1>1, <2>1 DEF PacketInv
<1>10. ASSUME NEW o \in Conns, o # k PROVE Conn(o)'
  <2>1. /\ pc'[o] = pc[o] /\ event'[o] = event[o] /\ delimiter'[o] = delimiter[o]
        /\ stream'[o] = stream[o] /\ pos'[o] = pos[o] /\ eof'[o] = eof[o] /\ pauses'[o] = pauses[o]
        /\ rx' = rx
    BY <1>4, <1>5, <1>10 DEF Readers
  <2>2. Conn(o)
    BY <1>1 DEF ConnInv
  <2> QED
    BY <2>1, <2>2 DEF Conn
<1> QED
  BY <1>4, <1>5, <1>6, <1>7, <1>8, <1>9, <1>10

(* The state of a connection that reads. *)
LEMMA Reading ==
  ASSUME IInv, NEW k \in Conns, pc[k] = "read"
  PROVE  /\ k \in Readers /\ stream[k] \in Streams /\ pos[k] \in Nat /\ delimiter[k] \in Delimiter
         /\ pauses[k] \in SUBSET Nat /\ ~eof[k]
         /\ Open(stream[k], pos[k], delimiter[k], pauses[k], rx, pc[k], event[k], k)
<1>1. Typed /\ Ended /\ ConnInv
  BY DEF IInv
<1>2. ~eof[k] /\ Conn(k)
  BY <1>1 DEF Ended, ConnInv
<1>3. /\ stream[k] \in Streams /\ pos[k] \in Nat /\ delimiter[k] \in Delimiter
      /\ pauses[k] \in SUBSET Nat
  BY <1>1 DEF Typed
<1> QED
  BY <1>2, <1>3 DEF Conn, Readers

(* A connection reads a byte. *)
LEMMA ReadByteKeeps ==
  ASSUME IInv, NEW k \in Conns, ReadByte(k)
  PROVE  IInv'
<1> DEFINE s == stream[k]
           p == pos[k]
           res == Push(delimiter[k], s[p + 1])
<1>1. /\ pc[k] = "read" /\ p < Len(s) /\ pos' = [pos EXCEPT ![k] = p + 1]
      /\ Dispatch(k, res, "read")
      /\ UNCHANGED <<stream, eof, pauses, broken, packet, buf, rx>>
  BY DEF ReadByte
<1>2. /\ k \in Readers /\ s \in Streams /\ p \in Nat /\ delimiter[k] \in Delimiter
      /\ pauses[k] \in SUBSET Nat /\ ~eof[k]
      /\ Open(s, p, delimiter[k], pauses[k], rx, pc[k], event[k], k)
  BY <1>1, Reading
<1>3. /\ pos \in [Conns -> Nat] /\ eof \in [Conns -> BOOLEAN] /\ pauses \in [Conns -> SUBSET Nat]
      /\ stream \in [Conns -> Streams]
  BY DEF IInv, Typed
<1>4. s[p + 1] \in Byte
  <2>1. s \in Seq(Byte)
    BY <1>2
  <2> HIDE DEF s, p
  <2> QED
    BY <1>1, <1>2, <2>1
<1>5. res.delimiter \in Delimiter /\ res.log \in Seq(Byte)
  BY <1>2, <1>4, PushType
<1>6. pos' \in [Conns -> Nat] /\ pos'[k] = p + 1 /\ \A o \in Conns : o # k => pos'[o] = pos[o]
  BY <1>1, <1>2, <1>3
<1>7. stream'[k] = s /\ pauses'[k] = pauses[k] /\ ~eof'[k] /\ rx' = rx
  BY <1>1, <1>2
<1>8. res = Push(delimiter[k], s[p + 1])
  OBVIOUS
<1> HIDE DEF s, p, res
<1>9. /\ Typed' /\ Ended' /\ Numbered' /\ PacketInv'
      /\ \A o \in Conns : o # k => Conn(o)'
      /\ Emits(res, "read", event[k], pc'[k], event'[k])
      /\ delimiter'[k] = res.delimiter
  <2>1. eof' \in [Conns -> BOOLEAN] /\ pauses' \in [Conns -> SUBSET Nat]
    BY <1>1, <1>3
  <2>2. \A o \in Conns : o # k => pos'[o] = pos[o] /\ eof'[o] = eof[o] /\ pauses'[o] = pauses[o]
    BY <1>1, <1>6
  <2>3. eof'[k] <=> "read" = "done"
    BY <1>7
  <2> QED
    BY <1>1, <1>5, <1>6, <2>1, <2>2, <2>3, ConnStep
<1>10. Open(s, p + 1, res.delimiter, pauses[k], rx, pc'[k], event'[k], k)
  BY <1>1, <1>2, <1>8, <1>9, OpenPush
<1>11. Conn(k)'
  BY <1>6, <1>7, <1>9, <1>10 DEF Conn
<1> QED
  BY <1>9, <1>11 DEF IInv, ConnInv

(* A read of a connection times out. *)
LEMMA ReadTimeoutKeeps ==
  ASSUME IInv, NEW k \in Conns, ReadTimeout(k)
  PROVE  IInv'
<1> DEFINE s == stream[k]
           p == pos[k]
           res == Vestige(delimiter[k])
<1>1. /\ pc[k] = "read" /\ pauses' = [pauses EXCEPT ![k] = pauses[k] \cup {p}]
      /\ Dispatch(k, res, "read")
      /\ UNCHANGED <<stream, pos, eof, broken, packet, buf, rx>>
  BY DEF ReadTimeout
<1>2. /\ k \in Readers /\ s \in Streams /\ p \in Nat /\ delimiter[k] \in Delimiter
      /\ pauses[k] \in SUBSET Nat /\ ~eof[k]
      /\ Open(s, p, delimiter[k], pauses[k], rx, pc[k], event[k], k)
  BY <1>1, Reading
<1>3. pos \in [Conns -> Nat] /\ eof \in [Conns -> BOOLEAN] /\ pauses \in [Conns -> SUBSET Nat]
  BY DEF IInv, Typed
<1>4. res.delimiter \in Delimiter /\ res.log \in Seq(Byte)
  BY <1>2, VestigeType
<1>5. /\ pauses' \in [Conns -> SUBSET Nat] /\ pauses'[k] = pauses[k] \cup {p}
      /\ \A o \in Conns : o # k => pauses'[o] = pauses[o]
  BY <1>1, <1>2, <1>3
<1>6. stream'[k] = s /\ pos'[k] = p /\ ~eof'[k] /\ rx' = rx
  BY <1>1, <1>2
<1>7. res = Vestige(delimiter[k])
  OBVIOUS
<1> HIDE DEF s, p, res
<1>8. /\ Typed' /\ Ended' /\ Numbered' /\ PacketInv'
      /\ \A o \in Conns : o # k => Conn(o)'
      /\ Emits(res, "read", event[k], pc'[k], event'[k])
      /\ delimiter'[k] = res.delimiter
  <2>1. eof' \in [Conns -> BOOLEAN] /\ pos' \in [Conns -> Nat]
    BY <1>1, <1>3
  <2>2. \A o \in Conns : o # k => pos'[o] = pos[o] /\ eof'[o] = eof[o] /\ pauses'[o] = pauses[o]
    BY <1>1, <1>5
  <2>3. eof'[k] <=> "read" = "done"
    BY <1>6
  <2> QED
    BY <1>1, <1>4, <1>5, <2>1, <2>2, <2>3, ConnStep
<1>9. Open(s, p, res.delimiter, pauses[k] \cup {p}, rx, pc'[k], event'[k], k)
  BY <1>1, <1>2, <1>7, <1>8, OpenFlush
<1>10. Conn(k)'
  BY <1>5, <1>6, <1>8, <1>9 DEF Conn
<1> QED
  BY <1>8, <1>10 DEF IInv, ConnInv

(* A connection meets the end of its stream. *)
LEMMA ReadEOFKeeps ==
  ASSUME IInv, NEW k \in Conns, ReadEOF(k)
  PROVE  IInv'
<1> DEFINE s == stream[k]
           p == pos[k]
           res == Vestige(delimiter[k])
<1>1. /\ pc[k] = "read" /\ p = Len(s) /\ eof' = [eof EXCEPT ![k] = TRUE]
      /\ Dispatch(k, res, "done")
      /\ UNCHANGED <<stream, pos, pauses, broken, packet, buf, rx>>
  BY DEF ReadEOF
<1>2. /\ k \in Readers /\ s \in Streams /\ p \in Nat /\ delimiter[k] \in Delimiter
      /\ pauses[k] \in SUBSET Nat
      /\ Open(s, p, delimiter[k], pauses[k], rx, pc[k], event[k], k)
  BY <1>1, Reading
<1>3. pos \in [Conns -> Nat] /\ eof \in [Conns -> BOOLEAN] /\ pauses \in [Conns -> SUBSET Nat]
  BY DEF IInv, Typed
<1>4. res.delimiter \in Delimiter /\ res.log \in Seq(Byte)
  BY <1>2, VestigeType
<1>5. /\ eof' \in [Conns -> BOOLEAN] /\ eof'[k]
      /\ \A o \in Conns : o # k => eof'[o] = eof[o]
  BY <1>1, <1>3
<1>6. stream'[k] = s /\ pauses'[k] = pauses[k] /\ rx' = rx
  BY <1>1
<1>7. res = Vestige(delimiter[k])
  OBVIOUS
<1> HIDE DEF s, p, res
<1>8. /\ Typed' /\ Ended' /\ Numbered' /\ PacketInv'
      /\ \A o \in Conns : o # k => Conn(o)'
      /\ Emits(res, "done", event[k], pc'[k], event'[k])
  <2>1. pauses' \in [Conns -> SUBSET Nat] /\ pos' \in [Conns -> Nat]
    BY <1>1, <1>3
  <2>2. \A o \in Conns : o # k => pos'[o] = pos[o] /\ eof'[o] = eof[o] /\ pauses'[o] = pauses[o]
    BY <1>1, <1>5
  <2>3. eof'[k] <=> "done" = "done"
    BY <1>5
  <2> QED
    BY <1>1, <1>4, <1>5, <2>1, <2>2, <2>3, ConnStep
<1>9. Closed(s, pauses[k], rx, pc'[k], event'[k], k)
  BY <1>1, <1>2, <1>7, <1>8, OpenEnds
<1>10. Conn(k)'
  BY <1>5, <1>6, <1>9 DEF Conn
<1> QED
  BY <1>8, <1>10 DEF IInv, ConnInv

(* A connection meets an error. *)
LEMMA ReadErrorKeeps ==
  ASSUME IInv, NEW k \in Conns, ReadError(k)
  PROVE  IInv'
<1>1. /\ pc[k] = "read" /\ pc' = [pc EXCEPT ![k] = "done"] /\ broken' = broken \cup {k}
      /\ UNCHANGED <<stream, pos, delimiter, eof, pauses, event, packet, buf, sequenceNumber, rx>>
  BY DEF ReadError
<1>2. Typed /\ Ended /\ Numbered /\ PacketInv /\ ConnInv
  BY DEF IInv
<1>3. k \in Readers /\ k # UDP /\ UDP \in Readers /\ Conns \in SUBSET Readers
  BY DEF Readers
<1>4. pc \in [Readers -> {"read", "send", "done"}]
  BY <1>2 DEF Typed
<1>5. /\ pc' \in [Readers -> {"read", "send", "done"}] /\ pc'[k] = "done"
      /\ \A q \in Readers : q # k => pc'[q] = pc[q]
  BY <1>1, <1>3, <1>4
<1>6. Typed'
  BY <1>1, <1>2, <1>5 DEF Typed
<1>7. Ended'
  BY <1>1, <1>2, <1>3, <1>5 DEF Ended
<1>8. Numbered'
  <2>1. \A q \in Readers : pc'[q] = "send" => pc[q] = "send"
    BY <1>5
  <2>2. SequencesOrdered'
    BY <1>1, <1>2 DEF Numbered, SequencesOrdered
  <2> QED
    BY <1>1, <1>2, <2>1, <2>2 DEF Numbered
<1>9. PacketInv'
  <2>1. pc'[UDP] = pc[UDP] /\ event' = event /\ packet' = packet /\ rx' = rx
    BY <1>1, <1>3, <1>5
  <2> QED
    BY <1>2, <2>1 DEF PacketInv
<1>10. ASSUME NEW o \in Conns PROVE Conn(o)'
  <2>1. Conn(o)
    BY <1>2 DEF ConnInv
  <2>2. CASE o = k
    <3>1. /\ Open(stream[k], pos[k], delimiter[k], pauses[k], rx, pc[k], event[k], k)
          /\ ~eof[k]
      BY <1>1, Reading
    <3>2. Open(stream[k], pos[k], delimiter[k], pauses[k], rx, pc'[k], event[k], k)
      BY <1>1, <1>5, <3>1, OpenStops
    <3> QED
      BY <1>1, <2>2, <3>1, <3>2 DEF Conn
  <2>3. CASE o # k
    <3>1. pc'[o] = pc[o]
      BY <1>3, <1>5, <2>3
    <3> QED
      BY <1>1, <2>1, <3>1 DEF Conn
  <2> QED
    BY <2>2, <2>3
<1> QED
  BY <1>6, <1>7, <1>8, <1>9, <1>10 DEF IInv, ConnInv

(* A packet that is read into the buffer fills the first part of it and    *)
(* leaves its length.                                                      *)
LEMMA PacketFills ==
  ASSUME NEW x \in Seq(Byte), NEW b \in Seq(Byte \cup {"zero"}), Len(b) = MsgBufSize
  PROVE  LET p == Fitting(x)
             b2 == p \o SubSeq(b, Len(p) + 1, MsgBufSize)
         IN  /\ p \in Seq(Byte)
             /\ b2 \in Seq(Byte \cup {"zero"}) /\ Len(b2) = MsgBufSize
             /\ SubSeq(b2, 1, Len(p)) = p
<1> DEFINE p == Fitting(x)
           b2 == p \o SubSeq(b, Len(p) + 1, MsgBufSize)
<1>1. PICK n \in Nat : n <= Len(x) /\ n <= MsgBufSize /\ p = SubSeq(x, 1, n)
  <2>1. Len(x) \in Nat /\ MsgBufSize \in Nat
    OBVIOUS
  <2> QED
    BY <2>1 DEF Fitting
<1>2. p \in Seq(Byte) /\ Len(p) = n
  BY <1>1
<1>3. p \in Seq(Byte \cup {"zero"})
  BY <1>2
<1> HIDE DEF p
<1> DEFINE t == SubSeq(b, n + 1, MsgBufSize)
<1>4. t \in Seq(Byte \cup {"zero"}) /\ Len(t) = MsgBufSize - n
  BY <1>1
<1>5. b2 = p \o t
  BY <1>2
<1> HIDE DEF t, b2
<1>6. b2 \in Seq(Byte \cup {"zero"}) /\ Len(b2) = MsgBufSize /\ \A j \in 1..n : b2[j] = p[j]
  BY <1>1, <1>2, <1>3, <1>4, <1>5
<1>7. SubSeq(b2, 1, n) = p
  <2>1. SubSeq(b2, 1, n) = [j \in 1..n |-> b2[j]]
    BY <1>1, <1>6
  <2>2. p = [j \in 1..n |-> p[j]]
    BY <1>2
  <2> QED
    BY <1>6, <2>1, <2>2
<1> QED
  BY <1>2, <1>6, <1>7 DEF p, b2

(* The packets that have arrived and parse, with one more. *)
LEMMA ArrivedNext ==
  ASSUME NEW n \in Nat, n < Len(Packets)
  PROVE  /\ Packets[n + 1] \in Seq(Byte)
         /\ Logs[n + 1] = Trim(Fitting(Packets[n + 1]), {"\r", "\n"})
         /\ Arrived(n) \in SUBSET Nat /\ IsFiniteSet(Arrived(n))
         /\ \A a \in Arrived(n) : a < n + 1
         /\ Parses(Logs[n + 1]) => Arrived(n + 1) = Arrived(n) \cup {n + 1}
         /\ ~Parses(Logs[n + 1]) => Arrived(n + 1) = Arrived(n)
<1>1. n + 1 \in 1..Len(Packets)
  OBVIOUS
<1>2. Packets[n + 1] \in Seq(Byte)
  BY <1>1
<1>3. Logs[n + 1] = Trim(Fitting(Packets[n + 1]), {"\r", "\n"})
  BY <1>1 DEF Logs
<1>4. Arrived(n) \in SUBSET (1..n)
  BY DEF Arrived
<1>5. IsFiniteSet(Arrived(n))
  <2>1. IsFiniteSet(1..n)
    BY FS_Interval
  <2> QED
    BY <1>4, <2>1, FS_Subset
<1>6. Arrived(n) \in SUBSET Nat /\ \A a \in Arrived(n) : a < n + 1
  BY <1>4
<1>7. \A a : a \in 1..(n + 1) <=> (a \in 1..n \/ a = n + 1)
  OBVIOUS
<1>8. Parses(Logs[n + 1]) => Arrived(n + 1) = Arrived(n) \cup {n + 1}
  BY <1>7 DEF Arrived
<1>9. ~Parses(Logs[n + 1]) => Arrived(n + 1) = Arrived(n)
  BY <1>7 DEF Arrived
<1> QED
  BY <1>2, <1>3, <1>5, <1>6, <1>8, <1>9

(* A packet is read. *)
LEMMA ReadFromUDPKeeps ==
  ASSUME IInv, ReadFromUDP
  PROVE  IInv'
<1> DEFINE x == Packets[packet + 1]
           p == Fitting(x)
           log == Trim(SubSeq(buf', 1, Len(p)), {"\r", "\n"})
           res == [match |-> TRUE, log |-> log]
<1>1. /\ pc[UDP] = "read" /\ packet < Len(Packets) /\ packet' = packet + 1
      /\ buf' = p \o SubSeq(buf, Len(p) + 1, MsgBufSize)
      /\ Emit(UDP, log, "read")
      /\ UNCHANGED <<stream, pos, delimiter, eof, pauses, broken, rx>>
  BY DEF ReadFromUDP, FilledPart, tcpVars
<1>2. Typed /\ Ended /\ Numbered /\ PacketInv /\ ConnInv
  BY DEF IInv
<1>3. /\ packet \in Nat /\ buf \in Seq(Byte \cup {"zero"}) /\ Len(buf) = MsgBufSize
      /\ rx \in Seq(Event)
  BY <1>2 DEF Typed
<1>4. UDP \in Readers /\ UDP \notin Conns /\ Conns \in SUBSET Readers
  BY DEF Readers
<1>5. /\ x \in Seq(Byte) /\ Logs[packet + 1] = Trim(p, {"\r", "\n"})
      /\ Arrived(packet) \in SUBSET Nat /\ IsFiniteSet(Arrived(packet))
      /\ \A a \in Arrived(packet) : a < packet + 1
      /\ Parses(Logs[packet + 1]) => Arrived(packet + 1) = Arrived(packet) \cup {packet + 1}
      /\ ~Parses(Logs[packet + 1]) => Arrived(packet + 1) = Arrived(packet)
  BY <1>1, <1>3, ArrivedNext
<1> HIDE DEF x
<1>7. /\ p \in Seq(Byte) /\ buf' \in Seq(Byte \cup {"zero"}) /\ Len(buf') = MsgBufSize
      /\ SubSeq(buf', 1, Len(p)) = p
  BY <1>1, <1>3, <1>5, PacketFills
<1> HIDE DEF p
<1>8. log = Logs[packet + 1] /\ log \in Seq(Byte)
  BY <1>5, <1>7, TrimBothType
<1>9. Takes(UDP, res, "read")
  BY <1>1, TakesPacket
<1>10. res.match /\ res.log = log
  OBVIOUS
<1> HIDE DEF log, res
<1>11. /\ pc' \in [Readers -> {"read", "send", "done"}]
       /\ event' \in [Readers -> Event]
       /\ sequenceNumber' \in Nat
       /\ \A q \in Readers : q # UDP => pc'[q] = pc[q] /\ event'[q] = event[q]
       /\ Emits(res, "read", event[UDP], pc'[UDP], event'[UDP])
  BY <1>2, <1>4, <1>8, <1>9, <1>10, TakesTyped
<1>12. Typed'
  <2>1. packet' \in 0..Len(Packets)
    BY <1>1, <1>3
  <2> QED
    BY <1>1, <1>2, <1>7, <1>11, <2>1 DEF Typed
<1>13. Ended'
  <2>1. \A k \in Conns : pc'[k] = pc[k]
    BY <1>4, <1>11
  <2> QED
    BY <1>1, <1>2, <2>1 DEF Ended
<1>14. Numbered'
  BY <1>1, <1>2, <1>4, <1>9, TakesNumbered
<1>15. PacketInv'
  <2>1. Delivers(rx, pc[UDP], event[UDP], UDP, Arrived(packet), Logs) /\ pc[UDP] # "send"
    BY <1>1, <1>2 DEF PacketInv
  <2>2. CASE Parses(log)
    <3>1. pc'[UDP] = "send" /\ event'[UDP].text = Logs[packet + 1]
      BY <1>8, <1>10, <1>11, <2>2 DEF Emits
    <3>2. Arrived(packet') = Arrived(packet) \cup {packet + 1}
      BY <1>1, <1>5, <1>8, <2>2
    <3>3. packet + 1 \in Nat
      BY <1>3
    <3>4. Delivers(rx, "send", event'[UDP], UDP, Arrived(packet) \cup {packet + 1}, Logs)
      BY <1>4, <1>5, <2>1, <3>1, <3>3, DeliversNext
    <3> QED
      BY <1>1, <3>1, <3>2, <3>4 DEF PacketInv
  <2>3. CASE ~Parses(log)
    <3>1. pc'[UDP] = pc[UDP] /\ event'[UDP] = event[UDP]
      BY <1>1, <1>10, <1>11, <2>3 DEF Emits
    <3>2. Arrived(packet') = Arrived(packet)
      BY <1>1, <1>5, <1>8, <2>3
    <3> QED
      BY <1>1, <2>1, <3>1, <3>2 DEF PacketInv
  <2> QED
    BY <2>2, <2>3
<1>16. ConnInv'
  <2> SUFFICES ASSUME NEW k \in Conns PROVE Conn(k)'
    BY DEF ConnInv
  <2>1. Conn(k) /\ pc'[k] = pc[k] /\ event'[k] = event[k]
    BY <1>2, <1>4, <1>11 DEF ConnInv
  <2> QED
    BY <1>1, <2>1 DEF Conn
<1> QED
  BY <1>12, <1>13, <1>14, <1>15, <1>16 DEF IInv

(* The numbers in the channel stay ordered when an event is sent. *)
LEMMA SendNumbered ==
  ASSUME Typed, Numbered, NEW r \in Readers, pc[r] = "send", rx' = Append(rx, event[r]),
         event' = [event EXCEPT ![r] = NoEvent], sequenceNumber' = sequenceNumber,
         NEW c \in {"read", "done"}, pc' = [pc EXCEPT ![r] = c]
  PROVE  Numbered'
<1>1. /\ pc \in [Readers -> {"read", "send", "done"}] /\ event \in [Readers -> Event]
      /\ sequenceNumber \in Nat /\ rx \in Seq(Event)
  BY DEF Typed
<1>2. event[r] \in Event
  BY <1>1
<1> DEFINE n == Len(rx) + 1
<1>3. /\ Len(rx) \in Nat /\ Len(rx') = n /\ rx'[n] = event[r]
      /\ \A j \in 1..Len(rx) : rx'[j] = rx[j]
  BY <1>1, <1>2, Appended
<1>4. \A j : j \in 1..n <=> (j \in 1..Len(rx) \/ j = n)
  BY <1>3
<1> HIDE DEF n
<1>5. \A q \in Readers : pc'[q] = "send" => q # r /\ pc[q] = "send" /\ event'[q] = event[q]
  BY <1>1
<1>6. /\ \A j \in 1..Len(rx) : rx[j].seq <= sequenceNumber
      /\ \A q \in Readers : pc[q] = "send" =>
           /\ event[q].source = q
           /\ event[q].seq <= sequenceNumber
           /\ \A j \in 1..Len(rx) : /\ rx[j].seq # event[q].seq
                                    /\ rx[j].source = q => rx[j].seq < event[q].seq
           /\ \A o \in Readers : (o # q /\ pc[o] = "send") => event[o].seq # event[q].seq
      /\ SequencesOrdered
  BY DEF Numbered
<1>7. \A j \in 1..Len(rx') : rx'[j].seq <= sequenceNumber'
  BY <1>3, <1>4, <1>6
<1>8. ASSUME NEW q \in Readers, pc'[q] = "send"
      PROVE  /\ event'[q].source = q
             /\ event'[q].seq <= sequenceNumber'
             /\ \A j \in 1..Len(rx') : /\ rx'[j].seq # event'[q].seq
                                       /\ rx'[j].source = q => rx'[j].seq < event'[q].seq
             /\ \A o \in Readers : (o # q /\ pc'[o] = "send") => event'[o].seq # event'[q].seq
  <2>1. q # r /\ pc[q] = "send" /\ event'[q] = event[q]
    BY <1>5, <1>8
  <2>2. rx'[n].seq # event[q].seq /\ rx'[n].source # q
    BY <1>3, <1>6, <2>1
  <2>3. \A j \in 1..Len(rx') : /\ rx'[j].seq # event[q].seq
                               /\ rx'[j].source = q => rx'[j].seq < event[q].seq
    BY <1>3, <1>4, <1>6, <2>1, <2>2
  <2> QED
    BY <1>5, <1>6, <2>1, <2>3
<1>9. SequencesOrdered'
  <2> SUFFICES ASSUME NEW i \in 1..Len(rx'), NEW j \in 1..Len(rx'), i < j
               PROVE  /\ rx'[i].seq # rx'[j].seq
                      /\ rx'[i].source = rx'[j].source => rx'[i].seq < rx'[j].seq
    BY DEF SequencesOrdered
  <2>1. i \in 1..Len(rx)
    BY <1>3, <1>4
  <2>2. CASE j \in 1..Len(rx)
    BY <1>3, <1>6, <2>1, <2>2 DEF SequencesOrdered
  <2>3. CASE j = n
    BY <1>3, <1>6, <2>1, <2>3
  <2> QED
    BY <1>3, <1>4, <2>2, <2>3
<1> QED
  BY <1>7, <1>8, <1>9 DEF Numbered

(* An event is put into the channel. *)
LEMMA SendKeeps ==
  ASSUME IInv, NEW r \in Readers, Send(r)
  PROVE  IInv'
<1>1. Typed /\ Ended /\ Numbered /\ PacketInv /\ ConnInv
  BY DEF IInv
<1>2. PICK c \in {"read", "done"} :
        /\ pc' = [pc EXCEPT ![r] = c]
        /\ c = "done" => r # UDP /\ eof[r]
        /\ c = "read" => r = UDP \/ ~eof[r]
  BY DEF Send
<1>3. /\ pc[r] = "send" /\ rx' = Append(rx, event[r])
      /\ event' = [event EXCEPT ![r] = NoEvent]
      /\ UNCHANGED <<stream, pos, delimiter, eof, pauses, broken, packet, buf, sequenceNumber>>
  BY DEF Send, tcpVars
<1>4. /\ pc \in [Readers -> {"read", "send", "done"}] /\ event \in [Readers -> Event]
      /\ rx \in Seq(Event)
  BY <1>1 DEF Typed
<1>5. UDP \in Readers /\ UDP \notin Conns /\ Conns \in SUBSET Readers
  BY DEF Readers
<1>6. event[r] \in Event /\ event[r].source = r
  BY <1>1, <1>3, <1>4 DEF Numbered
<1>7. NoEvent \in Event
  BY <1>5 DEF NoEvent, Event
<1>8. /\ pc' \in [Readers -> {"read", "send", "done"}] /\ pc'[r] = c
      /\ event' \in [Readers -> Event]
      /\ \A q \in Readers : q # r => pc'[q] = pc[q] /\ event'[q] = event[q]
  BY <1>2, <1>3, <1>4, <1>7
<1>9. Typed'
  <2>1. rx' \in Seq(Event)
    BY <1>3, <1>4, <1>6, Appended
  <2> QED
    BY <1>1, <1>3, <1>8, <2>1 DEF Typed
<1>10. Ended'
  <2> SUFFICES ASSUME NEW k \in Conns
               PROVE  /\ pc'[k] = "read" => ~eof'[k]
                      /\ (pc'[k] = "done" /\ k \notin broken') => eof'[k]
    BY DEF Ended
  <2>1. CASE k = r
    BY <1>2, <1>3, <1>5, <1>8, <2>1
  <2>2. CASE k # r
    BY <1>1, <1>3, <1>5, <1>8, <2>2 DEF Ended
  <2> QED
    BY <2>1, <2>2
<1>11. Numbered'
  BY <1>1, <1>2, <1>3, SendNumbered
<1>12. PacketInv'
  <2>1. Delivers(rx, pc[UDP], event[UDP], UDP, Arrived(packet), Logs)
    BY <1>1 DEF PacketInv
  <2>2. CASE r = UDP
    <3>1. packet \in Nat /\ Arrived(packet) \in SUBSET (1..packet)
      BY <1>1 DEF Typed, Arrived
    <3>2. Arrived(packet) \in SUBSET Nat
      BY <3>1
    <3>3. IsFiniteSet(1..packet)
      BY <3>1, FS_Interval
    <3>4. IsFiniteSet(Arrived(packet))
      BY <3>1, <3>3, FS_Subset
    <3>5. Delivers(Append(rx, event[r]), c, event'[r], r, Arrived(packet), Logs)
      BY <1>3, <1>4, <1>6, <2>1, <2>2, <3>2, <3>4, DeliversSent
    <3> QED
      BY <1>3, <1>8, <2>2, <3>5 DEF PacketInv
  <2>3. CASE r # UDP
    <3>1. Delivers(Append(rx, event[r]), pc[UDP], event[UDP], UDP, Arrived(packet), Logs)
      BY <1>4, <1>5, <1>6, <2>1, <2>3, DeliversBeside
    <3>2. pc'[UDP] = pc[UDP] /\ event'[UDP] = event[UDP]
      BY <1>5, <1>8, <2>3
    <3> QED
      BY <1>3, <3>1, <3>2 DEF PacketInv
  <2> QED
    BY <2>2, <2>3
<1>13. ConnInv'
  <2> SUFFICES ASSUME NEW k \in Conns PROVE Conn(k)'
    BY DEF ConnInv
  <2>1. Conn(k) /\ k \in Readers /\ stream[k] \in Streams
    BY <1>1, <1>5 DEF ConnInv, Typed
  <2>2. CASE k = r
    <3>1. /\ Open(stream[k], pos[k], delimiter[k], pauses[k], rx, "send", event[k], k)
               => Open(stream[k], pos[k], delimiter[k], pauses[k], Append(rx, event[k]), c, event'[k], k)
          /\ Closed(stream[k], pauses[k], rx, "send", event[k], k)
               => Closed(stream[k], pauses[k], Append(rx, event[k]), c, event'[k], k)
      BY <1>4, <1>6, <2>1, <2>2, ConnSent
    <3> QED
      BY <1>3, <1>8, <2>1, <2>2, <3>1 DEF Conn
  <2>3. CASE k # r
    <3>1. /\ Open(stream[k], pos[k], delimiter[k], pauses[k], rx, pc[k], event[k], k)
               => Open(stream[k], pos[k], delimiter[k], pauses[k], Append(rx, event[r]), pc[k], event[k], k)
          /\ Closed(stream[k], pauses[k], rx, pc[k], event[k], k)
               => Closed(stream[k], pauses[k], Append(rx, event[r]), pc[k], event[k], k)
      BY <1>4, <1>6, <2>1, <2>3, ConnBeside
    <3>2. pc'[k] = pc[k] /\ event'[k] = event[k]
      BY <1>8, <2>1, <2>3
    <3> QED
      BY <1>3, <2>1, <3>1, <3>2 DEF Conn
  <2> QED
    BY <2>2, <2>3
<1> QED
  BY <1>9, <1>10, <1>11, <1>12, <1>13 DEF IInv

(* A step that leaves the collectors alone. *)
LEMMA UnchangedKeeps ==
  ASSUME IInv, UNCHANGED <<stream, tcpVars, pc, event, packet, buf, sequenceNumber, rx>>
  PROVE  IInv'
<1>1. Typed /\ Ended /\ Numbered /\ PacketInv /\ ConnInv
  BY DEF IInv
<1>2. UNCHANGED <<stream, pos, delimiter, eof, pauses, broken, pc, event, packet, buf, sequenceNumber, rx>>
  BY DEF tcpVars
<1>3. Typed' /\ Ended'
  BY <1>1, <1>2 DEF Typed, Ended
<1>4. Numbered'
  BY <1>1, <1>2 DEF Numbered, SequencesOrdered
<1>5. PacketInv'
  BY <1>1, <1>2 DEF PacketInv
<1>6. ConnInv'
  BY <1>1, <1>2 DEF ConnInv, Conn
<1> QED
  BY <1>3, <1>4, <1>5, <1>6 DEF IInv

(* In the beginning nothing is read. *)
LEMMA InitHolds ==
  ASSUME Init
  PROVE  IInv
<1>1. UDP \in Readers /\ UDP \notin Conns /\ Conns \in SUBSET Readers
  BY DEF Readers
<1>2. << >> \in Seq(Byte) /\ << >> \in Seq(Event) /\ Len(<< >>) = 0
  OBVIOUS
<1>3. NewSyslogDelimiter \in Delimiter /\ NewSyslogDelimiter.buffer = << >> /\ NewSyslogDelimiter.regex = "start"
  BY <1>2 DEF NewSyslogDelimiter, Delimiter
<1>4. Typed
  <2>1. [r \in Readers |-> NoEvent] \in [Readers -> Event]
    BY <1>1, <1>2 DEF NoEvent, Event
  <2>2. buf \in Seq(Byte \cup {"zero"}) /\ Len(buf) = MsgBufSize
    BY DEF Init
  <2>3. packet \in 0..Len(Packets)
    BY DEF Init
  <2>4. delimiter \in [Conns -> Delimiter]
    BY <1>3 DEF Init
  <2> QED
    BY <1>2, <2>1, <2>2, <2>3, <2>4 DEF Init, Typed
<1>5. Ended
  BY <1>1 DEF Init, Ended
<1>6. Numbered
  BY <1>2 DEF Init, Numbered, SequencesOrdered
<1>8. Cardinality({}) = 0
  BY FS_EmptySet
<1>9. ASSUME NEW r \in Readers, NEW ev, NEW text PROVE Delivers(<< >>, "read", ev, r, {}, text)
  <2>1. PICK q : q = << >> /\ Len(q) = 0
    BY <1>2
  <2>2. Of(q, r, Len(q)) = {}
    BY <2>1 DEF Of
  <2>3. InOrderIn(q, r, {}, text)
    BY <2>2 DEF InOrderIn
  <2>4. Cardinality(Of(q, r, Len(q))) = 0
    BY <1>8, <2>2
  <2>5. Delivers(q, "read", ev, r, {}, text)
    BY <1>8, <2>3, <2>4 DEF Delivers
  <2> QED
    BY <2>1, <2>5
<1>10. PacketInv
  <2>1. Arrived(0) = {}
    BY DEF Arrived
  <2>2. rx = << >> /\ pc[UDP] = "read" /\ packet = 0
    BY <1>1 DEF Init
  <2> QED
    BY <1>1, <1>9, <2>1, <2>2 DEF PacketInv
<1>11. ConnInv
  <2> SUFFICES ASSUME NEW k \in Conns PROVE Conn(k)
    BY DEF ConnInv
  <2> DEFINE s == stream[k]
             d == delimiter[k]
  <2>1. /\ k \in Readers /\ s \in Streams /\ pos[k] = 0 /\ d.buffer = << >> /\ d.regex = "start"
        /\ pc[k] = "read" /\ ~eof[k] /\ pauses[k] = {} /\ rx = << >>
    BY <1>1, <1>3 DEF Init
  <2>2. s \in Seq(Byte) /\ Len(s) \in Nat /\ Parsed[s] \in SUBSET Starts(s) /\ Starts(s) \in SUBSET (1..Len(s))
    <3>1. s \in Seq(Byte) /\ Parsed[s] \in SUBSET Starts(s)
      BY <2>1, MessagesOf
    <3>2. Starts(s) \in SUBSET (1..Len(s))
      BY DEF Starts, SyslogMatches
    <3>3. Len(s) \in Nat
      BY <3>1
    <3> QED
      BY <3>1, <3>2, <3>3
  <2> HIDE DEF s, d
  <2>3. First(0, d) = 1
    BY <1>2, <2>1 DEF First
  <2>4. \A a \in 1..Len(s) : \A e \in PriEnds(s, a) : 0 < e
    BY <2>2, PriShape
  <2>5. Framing(s, 0, d, {})
    <3>1. Buffered(s, 0, d)
      <4>1. SubSeq(s, 1, 0) = << >>
        BY <2>2
      <4> QED
        BY <1>2, <2>1, <2>2, <2>3, <4>1 DEF Buffered
    <3>2. Begun(s, 0, d, {})
      BY <2>3 DEF Begun
    <3>3. Sought(s, 0, d, {})
      <4>1. \A a \in 1..Len(s) : \A e \in PriEnds(s, a) : ~(e <= 0)
        <5> SUFFICES ASSUME NEW a \in 1..Len(s), NEW e \in PriEnds(s, a) PROVE ~(e <= 0)
          OBVIOUS
        <5> QED
          BY <2>2, PriShape
      <4> QED
        BY <4>1 DEF Sought
    <3>4. Found(s, 0, d)
      BY <2>1 DEF Found
    <3> QED
      BY <3>1, <3>2, <3>3, <3>4 DEF Framing
  <2>6. Framed(s, 0, d, << >>, "read", event[k], k)
    <3>1. Cut(s, 0, d) = {}
      BY <2>2, <2>3 DEF Cut
    <3> QED
      BY <1>9, <2>1, <3>1 DEF Framed
  <2>7. Uninterrupted(s, 0, d, {}, << >>, "read", event[k], k)
    <3> SUFFICES ASSUME NEW a \in Spared(s, {}) PROVE Coming(s, 0, a)
      BY DEF Uninterrupted
    <3>1. a \in Starts(s) /\ a \in 1..Len(s)
      BY <2>2 DEF Spared
    <3>2. PICK e \in PriEnds(s, a) : TRUE
      BY <3>1 DEF Starts, SyslogMatches, PriAt
    <3> QED
      BY <2>4, <3>1, <3>2 DEF Coming
  <2>8. Open(s, 0, d, {}, << >>, "read", event[k], k)
    BY <2>5, <2>6, <2>7 DEF Open
  <2> QED
    BY <2>1, <2>8 DEF Conn, s, d
<1> QED
  BY <1>4, <1>5, <1>6, <1>10, <1>11 DEF IInv

(* The invariant: events have their numbers, and every collector has       *)
(* delivered what it read, whatever the order in which the goroutines of   *)
(* input/collector.go take their steps and wherever their peers pause.     *)
THEOREM Invariance == Spec => []IInv
<1>1. Init => IInv
  BY InitHolds
<1>2. IInv /\ [Next]_vars => IInv'
  <2> SUFFICES ASSUME IInv, [Next]_vars PROVE IInv'
    OBVIOUS
  <2>1. ASSUME NEW k \in Conns, ReadByte(k) PROVE IInv'
    BY <2>1, ReadByteKeeps
  <2>2. ASSUME NEW k \in Conns, ReadTimeout(k) PROVE IInv'
    BY <2>2, ReadTimeoutKeeps
  <2>3. ASSUME NEW k \in Conns, ReadEOF(k) PROVE IInv'
    BY <2>3, ReadEOFKeeps
  <2>4. ASSUME NEW k \in Conns, ReadError(k) PROVE IInv'
    BY <2>4, ReadErrorKeeps
  <2>5. CASE ReadFromUDP
    BY <2>5, ReadFromUDPKeeps
  <2>6. ASSUME NEW r \in Readers, Send(r) PROVE IInv'
    BY <2>6, SendKeeps
  <2>7. CASE BatcherReceive
    BY <2>7, UnchangedKeeps DEF BatcherReceive
  <2>8. CASE Quiet \/ UNCHANGED vars
    BY <2>8, UnchangedKeeps DEF Quiet, vars
  <2> QED
    BY <2>1, <2>2, <2>3, <2>4, <2>5, <2>6, <2>7, <2>8 DEF Next
<1> QED
  BY <1>1, <1>2, PTL DEF Spec

(* SequencesOrdered of every behaviour: no two events in the channel have  *)
(* the same number, and those of one source increase, although atomic.Add  *)
(* and the send on the channel are separate steps of its goroutine.        *)
THEOREM SequenceNumbersOrdered == Spec => []SequencesOrdered
<1>1. IInv => SequencesOrdered
  BY DEF IInv, Numbered
<1> QED
  BY <1>1, Invariance, PTL

(* PacketsWhole of every behaviour: each packet that parses becomes one    *)
(* event, in the order of arrival, with the bytes that the buffer had room *)
(* for and none of an earlier packet.                                      *)
THEOREM PacketsDeliveredWhole == Spec => []PacketsWhole
<1>1. IInv => PacketsWhole
  <2> SUFFICES ASSUME IInv PROVE PacketsWhole
    OBVIOUS
  <2>1. Delivers(rx, pc[UDP], event[UDP], UDP, Arrived(packet), Logs)
    BY DEF IInv, PacketInv
  <2>2. \A n : EventsOf(UDP, n) = Of(rx, UDP, n)
    BY DEF EventsOf, Of
  <2> QED
    BY <2>1, <2>2 DEF PacketsWhole, InOrder, Delivers, InOrderIn
<1> QED
  BY <1>1, Invariance, PTL

(* FramedExactly of every behaviour: a stream without a pause is cut into  *)
(* its messages, which are delivered whole, in order and once each, and    *)
(* all of them when the peer closes.                                       *)
THEOREM StreamsFramedExactly == Spec => []FramedExactly
<1>1. IInv => FramedExactly
  <2> SUFFICES ASSUME IInv, NEW k \in Conns, pauses[k] = {}
               PROVE  LET good == Parsed[stream[k]]
                      IN  /\ InOrder(k, good, Messages[stream[k]])
                          /\ (pc[k] = "done" /\ k \notin broken)
                               => Cardinality(EventsOf(k, Len(rx))) = Cardinality(good)
    BY DEF FramedExactly
  <2> DEFINE s == stream[k]
             good == Parsed[s]
             text == Messages[s]
  <2>1. Typed /\ Ended /\ Conn(k)
    BY DEF IInv, ConnInv
  <2>2. s \in Streams /\ k \in Readers
    BY <2>1 DEF Typed, Readers
  <2>3. good \in SUBSET Nat /\ IsFiniteSet(good)
    BY <2>2, MessagesOf
  <2>4. \A n : EventsOf(k, n) = Of(rx, k, n)
    BY DEF EventsOf, Of
  <2>5. CASE eof[k]
    <3>1. Delivers(rx, pc[k], event[k], k, good, text)
      BY <2>1, <2>5 DEF Conn, Closed
    <3>2. InOrder(k, good, text)
      BY <2>4, <3>1 DEF Delivers, InOrderIn, InOrder
    <3>3. Cardinality(good) \in Nat
      BY <2>3, FS_CardinalityType
    <3>4. pc[k] = "done" => Cardinality(Of(rx, k, Len(rx))) = Cardinality(good)
      BY <3>1, <3>3 DEF Delivers
    <3> QED
      BY <2>4, <3>2, <3>4
  <2>6. CASE ~eof[k]
    <3> DEFINE cut == Cut(s, pos[k], delimiter[k])
    <3>1. Delivers(rx, pc[k], event[k], k, cut, text)
      BY <2>1, <2>6 DEF Conn, Open, Framed
    <3>2. cut \in SUBSET good /\ \A a \in cut : \A b \in good : b <= a => b \in cut
      <4>1. First(pos[k], delimiter[k]) \in Int
        <5>1. pos[k] \in Nat /\ delimiter[k].buffer \in Seq(Byte)
          BY <2>1 DEF Typed, Delimiter
        <5>2. Len(delimiter[k].buffer) \in Nat
          BY <5>1
        <5> QED
          BY <5>1, <5>2 DEF First
      <4> QED
        BY <2>3, <4>1 DEF Cut
    <3> HIDE DEF cut
    <3>3. InOrder(k, good, text)
      <4> SUFFICES ASSUME NEW j \in EventsOf(k, Len(rx))
                   PROVE  \E a \in good :
                            /\ rx[j].text = text[a]
                            /\ Cardinality(EventsOf(k, j)) = Cardinality({b \in good : b <= a})
        BY DEF InOrder
      <4>1. PICK a \in cut : /\ rx[j].text = text[a]
                             /\ Cardinality(Of(rx, k, j)) = Cardinality({b \in cut : b <= a})
        BY <2>4, <3>1 DEF Delivers, InOrderIn
      <4>2. {b \in cut : b <= a} = {b \in good : b <= a}
        BY <3>2
      <4> QED
        BY <2>4, <3>2, <4>1, <4>2
    <3>4. ~(pc[k] = "done" /\ k \notin broken)
      BY <2>1, <2>6 DEF Ended
    <3> QED
      BY <3>3, <3>4
  <2> QED
    BY <2>5, <2>6
<1> QED
  BY <1>1, Invariance, PTL

(* WholeUnlessInterrupted of every behaviour: whatever the pauses, when a  *)
(* peer closes, each of its messages that none of them interrupts has been *)
(* delivered.                                                              *)
THEOREM PausesHarmOneMessage == Spec => []WholeUnlessInterrupted
<1>1. IInv => WholeUnlessInterrupted
  <2> SUFFICES ASSUME IInv, NEW k \in Conns, pc[k] = "done", k \notin broken,
                      NEW a \in Starts(stream[k]),
                      Parses(Unended(Messages[stream[k]][a])), ~Interrupted(k, a)
               PROVE  \E j \in EventsOf(k, Len(rx)) :
                        rx[j].text \in {Messages[stream[k]][a], Unended(Messages[stream[k]][a])}
    BY DEF WholeUnlessInterrupted
  <2>1. Ended /\ Conn(k)
    BY DEF IInv, ConnInv
  <2>2. eof[k]
    BY <2>1 DEF Ended
  <2>3. Closed(stream[k], pauses[k], rx, pc[k], event[k], k)
    BY <2>1, <2>2 DEF Conn
  <2>4. ~Hit(stream[k], pauses[k], a)
    BY DEF Hit, Interrupted
  <2>5. a \in Spared(stream[k], pauses[k])
    BY <2>4 DEF Spared
  <2>6. Got(rx, pc[k], event[k], k, Messages[stream[k]][a])
    BY <2>3, <2>5 DEF Closed
  <2>7. EventsOf(k, Len(rx)) = Of(rx, k, Len(rx))
    BY DEF EventsOf, Of
  <2> QED
    BY <2>6, <2>7 DEF Got
<1> QED
  BY <1>1, Invariance, PTL
============================================================================
