--------------------------- MODULE ScannersProofs ---------------------------
(***************************************************************************)
(* The lexer, the rfc5424.Delimiter and the NetstrDelimiter return what    *)
(* the whole stream says, for every text and every stream.                 *)
(***************************************************************************)
EXTENDS Scanners, NaturalsInduction, WellFoundedInduction, TLAPS

(* A non-empty set of numbers has a least element. *)
LEMMA LeastNumber ==
  ASSUME NEW S \in SUBSET Nat, S # {}
  PROVE  \E n \in S : \A m \in S : n <= m
<1>1. PICK n \in S : \A m \in S : ~(<<m, n>> \in OpToRel(<, Nat))
  BY NatLessThanWellFounded, WFMin
<1>2. \A m \in S : <<m, n>> \in OpToRel(<, Nat) <=> m < n
  BY DEF OpToRel
<1>3. \A m \in S : ~(m < n)
  BY <1>1, <1>2, Zenon
<1> QED
  BY <1>3

(* Appending to a sequence. *)
LEMMA Appended ==
  ASSUME NEW S, NEW s \in Seq(S), NEW e \in S
  PROVE  /\ Append(s, e) \in Seq(S)
         /\ Len(Append(s, e)) = Len(s) + 1
         /\ \A n \in 1..Len(s) : Append(s, e)[n] = s[n]
         /\ Append(s, e)[Len(s) + 1] = e
  OBVIOUS

-----------------------------------------------------------------------------
(* The lexer.                                                              *)

(* Classes of pieces whose runs are tokens. *)
Class == {Word, {"ws"}}

(* Every run ends. *)
LEMMA RunEndIs ==
  ASSUME NEW s \in Seq(Piece), NEW C \in Class, NEW i \in 1..Len(s), s[i] \in C
  PROVE  LET j == RunEnd(s, i, C)
         IN  /\ j \in i..Len(s)
             /\ \A k \in i..j : s[k] \in C
             /\ j < Len(s) => s[j + 1] \notin C
<1> PICK l : l = Len(s)
  OBVIOUS
<1> DEFINE K == {j \in i..l : j = l \/ s[j + 1] \notin C}
<1>0. l \in Nat
  OBVIOUS
<1>1. l \in K /\ K \in SUBSET Nat
  BY <1>0
<1>2. PICK j \in K : \A m \in K : j <= m
  BY <1>1, LeastNumber
<1>3. \A k \in i..j : s[k] \in C
  <2> SUFFICES ASSUME NEW k \in i..j, s[k] \notin C PROVE FALSE
    OBVIOUS
  <2>1. k # i
    OBVIOUS
  <2>2. k - 1 \in i..l /\ (k - 1) + 1 = k
    BY <2>1, <1>0
  <2>3. k - 1 \in K
    BY <2>2
  <2>4. j <= k - 1
    BY <2>3, <1>2
  <2>5. j \in Int /\ k \in Int /\ k <= j
    BY <1>1
  <2> QED
    BY ONLY <2>4, <2>5
<1>4. j \in i..Len(s) /\ (j < Len(s) => s[j + 1] \notin C)
  BY <1>0
<1>5. \E m \in i..Len(s) : /\ \A k \in i..m : s[k] \in C
                           /\ m < Len(s) => s[m + 1] \notin C
  BY <1>3, <1>4
<1> QED
  BY <1>5 DEF RunEnd

(* What is after a run: a token, and none within the run. *)
LEMMA AfterRunIs ==
  ASSUME NEW s \in Seq(Piece), NEW C \in Class, NEW i \in 1..Len(s), s[i] \in C,
         i \in TokenStarts(s)
  PROVE  LET n == AfterRun(s, RunEnd(s, i, C))
         IN  /\ n \in (i + 1)..(Len(s) + 1)
             /\ \A k \in (i + 1)..(n - 1) : k \notin TokenStarts(s)
             /\ n <= Len(s) => n \in TokenStarts(s)
<1> DEFINE j == RunEnd(s, i, C)
           n == AfterRun(s, j)
<1>1. /\ j \in i..Len(s)
      /\ \A k \in i..j : s[k] \in C
      /\ j < Len(s) => s[j + 1] \notin C
  BY RunEndIs
<1> SUFFICES /\ n \in (i + 1)..(Len(s) + 1)
             /\ \A k \in (i + 1)..(n - 1) : k \notin TokenStarts(s)
             /\ n <= Len(s) => n \in TokenStarts(s)
  OBVIOUS
<1> HIDE DEF j
<1>2. PICK l : l = Len(s) /\ l \in Nat
  OBVIOUS
<1>3. \A k \in 1..l : s[k] \in Piece
  BY <1>2
<1>4. j \in Nat /\ i \in Nat /\ i <= j /\ j <= l /\ 1 <= i
  BY <1>1, <1>2
<1>5. \A k \in (i + 1)..j : k \notin TokenStarts(s)
  <2> TAKE k \in (i + 1)..j
  <2>1. k \in 1..l /\ k # 1 /\ k \in i..j /\ k - 1 \in i..j
    <3>1. k \in (i + 1)..j
      OBVIOUS
    <3> QED
      BY ONLY <3>1, <1>4, <1>2
  <2>2. s[k] \in C /\ s[k - 1] \in C
    BY <1>1, <2>1
  <2> QED
    BY <2>1, <2>2 DEF TokenStarts, Class, Word, Keyword, Separator
<1>6. s[j] \in C
  BY <1>1, <1>4
<1>7. CASE j < l /\ s[j + 1] = "nul"
  <2>1. n = j + 2
    BY <1>7, <1>2 DEF AfterRun
  <2>2. j + 1 \in 1..l /\ (j + 1) - 1 = j /\ j + 1 # 1 /\ (j + 2) - 1 = j + 1 /\ j + 2 # 1
    BY ONLY <1>4, <1>7, <1>2
  <2>3. j + 1 \notin TokenStarts(s)
    BY <2>2, <1>6, <1>7 DEF TokenStarts, Class, Word, Keyword, Separator
  <2>4. j + 2 <= l => j + 2 \in TokenStarts(s)
    <3> HAVE j + 2 <= l
    <3>1. j + 2 \in 1..l /\ s[j + 2] \in Piece
      BY <1>3, <1>4
    <3> QED
      BY <3>1, <2>2, <1>2, <1>7 DEF TokenStarts, Piece, Word, Keyword, Separator
  <2>5. \A k \in (i + 1)..(n - 1) : k \in (i + 1)..j \/ k = j + 1
    BY <2>1, <1>4
  <2> QED
    <3>1. j + 2 \in (i + 1)..(l + 1)
      BY ONLY <1>4, <1>7, <1>2
    <3> QED
      BY <3>1, <2>1, <2>3, <2>4, <2>5, <1>5, <1>2
<1>8. CASE ~(j < l /\ s[j + 1] = "nul")
  <2>1. n = j + 1
    BY <1>8, <1>2 DEF AfterRun
  <2>2. j + 1 <= l => j + 1 \in TokenStarts(s)
    <3> HAVE j + 1 <= l
    <3>1. j + 1 \in 1..l /\ s[j + 1] \in Piece /\ (j + 1) - 1 = j /\ j + 1 # 1
      BY <1>3, <1>4
    <3>2. s[j + 1] \notin C /\ s[j + 1] # "nul"
      BY <1>1, <1>4, <1>8, <1>2, <3>1
    <3> QED
      BY <3>1, <3>2, <1>6, <1>2 DEF TokenStarts, Piece, Class, Word, Keyword, Separator
  <2>3. j + 1 \in (i + 1)..(l + 1) /\ (j + 1) - 1 = j
    BY ONLY <1>4, <1>2
  <2> QED
    BY <2>1, <2>2, <2>3, <1>5, <1>2
<1> QED
  BY <1>7, <1>8

LexToken == {"EOF", "WS", "STRING"} \cup {Keyword[w] : w \in DOMAIN Keyword}
              \cup {Separator[b] : b \in DOMAIN Separator}

(* A call of Lex returns the token that begins where it starts, and goes   *)
(* to the next place where one begins.                                     *)
LEMMA LexIs ==
  ASSUME NEW s \in Seq(Piece), NEW i \in TokenStarts(s)
  PROVE  LET n == Lex(s, i).next
         IN  /\ n \in (i + 1)..(Len(s) + 1)
             /\ \A k \in (i + 1)..(n - 1) : k \notin TokenStarts(s)
             /\ n <= Len(s) => n \in TokenStarts(s)
             /\ Lex(s, i).tok = TokenAt(s, i)
             /\ Lex(s, i).tok \in LexToken
<1>1. PICK l : l = Len(s) /\ l \in Nat
  OBVIOUS
<1>2. i \in 1..l
  BY <1>1 DEF TokenStarts
<1>3. \A k \in 1..l : s[k] \in Piece
  BY <1>1
<1>4. CASE s[i] \in DOMAIN Separator \cup {"nul"}
  <2>1. Lex(s, i).next = i + 1
    BY <1>4 DEF Lex, Separator
  <2>2. i + 1 <= l => i + 1 \in TokenStarts(s)
    <3> HAVE i + 1 <= l
    <3>1. i + 1 \in 1..l /\ (i + 1) - 1 = i /\ i + 1 # 1 /\ s[i + 1] \in Piece
      BY <1>2, <1>1, <1>3
    <3> QED
      BY <3>1, <1>4, <1>1 DEF TokenStarts, Piece, Word, Keyword, Separator
  <2>3. Lex(s, i).tok = TokenAt(s, i) /\ Lex(s, i).tok \in LexToken
    <3>1. CASE s[i] = "nul"
      <4>1. s[i] \notin DOMAIN Separator /\ s[i] # "ws"
        BY <3>1 DEF Separator
      <4>2. Lex(s, i).tok = "EOF"
        BY <3>1 DEF Lex
      <4>3. TokenAt(s, i) = "EOF"
        BY <3>1, <4>1 DEF TokenAt
      <4> QED
        BY <4>2, <4>3 DEF LexToken
    <3>2. CASE s[i] \in DOMAIN Separator
      <4>1. s[i] # "nul"
        BY <3>2 DEF Separator
      <4>2. Lex(s, i).tok = Separator[s[i]]
        BY <3>2, <4>1 DEF Lex
      <4>3. TokenAt(s, i) = Separator[s[i]]
        BY <3>2, <4>1 DEF TokenAt, Separator
      <4> QED
        BY <4>2, <4>3, <3>2 DEF LexToken
    <3> QED
      BY <3>1, <3>2, <1>4
  <2> QED
    BY <2>1, <2>2, <2>3, <1>1, <1>2
<1>5. CASE s[i] = "ws"
  <2>1. s[i] # "nul" /\ s[i] \notin DOMAIN Separator
    BY <1>5 DEF Separator
  <2>2. /\ Lex(s, i).next = AfterRun(s, RunEnd(s, i, {"ws"}))
        /\ Lex(s, i).tok = "WS"
    BY <2>1, <1>5 DEF Lex
  <2>3. TokenAt(s, i) = "WS"
    BY <2>1, <1>5 DEF TokenAt
  <2> QED
    BY <2>2, <2>3, <1>5, <1>2, <1>1, AfterRunIs DEF LexToken, Class
<1>6. CASE s[i] \in Word
  <2>1. s[i] # "nul" /\ s[i] \notin DOMAIN Separator /\ s[i] # "ws"
    BY <1>6 DEF Separator, Word, Keyword
  <2> DEFINE j == RunEnd(s, i, Word)
  <2>2. /\ Lex(s, i).next = AfterRun(s, j)
        /\ Lex(s, i).tok = Lookup(s, i, j)
    BY <2>1, <1>6 DEF Lex
  <2>3. TokenAt(s, i) = IF s[i] = "term" \/ (i < Len(s) /\ s[i + 1] \in Word)
                        THEN "STRING" ELSE Keyword[s[i]]
    BY <2>1 DEF TokenAt
  <2>4. /\ j \in i..l
        /\ \A k \in i..j : s[k] \in Word
        /\ j < l => s[j + 1] \notin Word
    BY <1>6, <1>2, <1>1, RunEndIs DEF Class
  <2> HIDE DEF j
  <2>5. i = j <=> ~(i < l /\ s[i + 1] \in Word)
    <3>1. CASE i = j
      BY <3>1, <2>4
    <3>2. CASE i # j
      <4>1. i + 1 \in i..j /\ i < l
        BY <3>2, <2>4, <1>2, <1>1
      <4> QED
        BY <4>1, <2>4, <3>2
    <3> QED
      BY <3>1, <3>2
  <2>6. s[i] \in DOMAIN Keyword <=> s[i] # "term"
    BY <1>6 DEF Word, Keyword
  <2>7. Lookup(s, i, j) = TokenAt(s, i)
    BY <2>3, <2>5, <2>6, <1>1 DEF Lookup
  <2>8. Lookup(s, i, j) \in LexToken
    BY DEF Lookup, LexToken
  <2> QED
    BY <2>2, <2>7, <2>8, <1>6, <1>2, <1>1, AfterRunIs DEF Class, j
<1> QED
  BY <1>2, <1>3, <1>4, <1>5, <1>6 DEF Piece

LexInv ==
  kind = "lexer" =>
    /\ stream \in Seq(Piece)
    /\ pos \in 0..Len(stream)
    /\ bounds \in Seq(Nat)
    /\ results \in Seq(LexToken)
    /\ Len(bounds) = Len(results)
    /\ Start(Len(results) + 1) = pos
    /\ \A n \in 1..Len(bounds) : bounds[n] <= pos
    /\ pos < Len(stream) => pos + 1 \in TokenStarts(stream)
    /\ LexedByRuns

(* Tokens begin within the text. *)
LEMMA StartsAre ==
  ASSUME NEW s
  PROVE  TokenStarts(s) \subseteq 1..Len(s)
  BY Zenon DEF TokenStarts

(* The first piece of a text begins a token. *)
LEMMA FirstToken ==
  ASSUME NEW s \in Seq(Piece), 0 < Len(s)
  PROVE  1 \in TokenStarts(s)
<1>1. 1 \in 1..Len(s) /\ s[1] \in Piece
  OBVIOUS
<1> QED
  BY <1>1 DEF TokenStarts, Piece, Word, Keyword, Separator

(* LexNext adds the one token that begins where it starts. *)
LEMMA LexStep ==
  ASSUME LexInv, LexNext
  PROVE  LexInv'
<1> DEFINE i == pos + 1
           n == Lex(stream, i).next
           t == Lex(stream, i).tok
<1>1. /\ kind = "lexer" /\ pos < Len(stream)
      /\ results' = Append(results, t)
      /\ bounds' = Append(bounds, n - 1)
      /\ pos' = n - 1
      /\ stream' = stream /\ kind' = kind
  BY DEF LexNext
<1>2. /\ stream \in Seq(Piece)
      /\ pos \in 0..Len(stream)
      /\ bounds \in Seq(Nat)
      /\ results \in Seq(LexToken)
      /\ Len(bounds) = Len(results)
      /\ Start(Len(results) + 1) = pos
      /\ \A k \in 1..Len(bounds) : bounds[k] <= pos
      /\ i \in TokenStarts(stream)
      /\ LexedByRuns
  BY <1>1 DEF LexInv
<1>3. /\ n \in (i + 1)..(Len(stream) + 1)
      /\ \A k \in (i + 1)..(n - 1) : k \notin TokenStarts(stream)
      /\ n <= Len(stream) => n \in TokenStarts(stream)
      /\ t = TokenAt(stream, i)
      /\ t \in LexToken
  BY <1>2, LexIs
<1> HIDE DEF n, t
<1>4. PICK l : l = Len(stream) /\ l \in Nat
  BY <1>2
<1>5. PICK m : m = Len(results) /\ m \in Nat /\ m = Len(bounds)
  BY <1>2
<1>6. pos \in Nat /\ n - 1 \in Nat /\ pos < n - 1 /\ n - 1 <= l
  BY ONLY <1>2, <1>3, <1>4
<1>7. /\ bounds' \in Seq(Nat) /\ Len(bounds') = m + 1
      /\ \A k \in 1..m : bounds'[k] = bounds[k]
      /\ bounds'[m + 1] = n - 1
  BY <1>1, <1>2, <1>5, <1>6, Appended
<1>8. /\ results' \in Seq(LexToken) /\ Len(results') = m + 1
      /\ \A k \in 1..m : results'[k] = results[k]
      /\ results'[m + 1] = t
  BY <1>1, <1>2, <1>3, <1>5, Appended
<1>9. \A k \in 1..(m + 1) : Start(k)' = Start(k)
  <2> TAKE k \in 1..(m + 1)
  <2>1. k = 1 \/ k - 1 \in 1..m
    BY <1>5
  <2> QED
    BY <2>1, <1>7 DEF Start
<1>10. Start(m + 2)' = n - 1
  <2>1. m + 2 # 1 /\ (m + 2) - 1 = m + 1
    BY <1>5
  <2> QED
    BY <2>1, <1>7 DEF Start
<1>11. \A k \in 1..m : bounds[k] \in Nat /\ bounds[k] <= pos
  BY <1>2, <1>5
<1>12. \A k \in 1..(m + 1) : k \in 1..m \/ k = m + 1
  BY <1>5
<1>13. \A k \in 1..Len(bounds') : bounds'[k] <= pos'
  BY <1>1, <1>6, <1>7, <1>11, <1>12
<1>14. Rising'
  <2> SUFFICES ASSUME NEW k \in 1..(m + 1), NEW j \in 1..(k - 1)
               PROVE  bounds'[j] < bounds'[k]
    BY <1>7 DEF Rising
  <2>1. j \in 1..m
    BY <1>5
  <2>2. CASE k = m + 1
    <3>1. bounds'[j] \in Nat /\ bounds'[j] <= pos /\ bounds'[k] = n - 1
      BY <2>1, <2>2, <1>7, <1>11
    <3> QED
      BY ONLY <3>1, <1>6
  <2>3. CASE k \in 1..m
    <3>1. Rising
      BY <1>1, <1>2 DEF LexedByRuns
    <3>2. bounds[j] < bounds[k]
      BY <2>3, <3>1, <1>5 DEF Rising
    <3> QED
      BY <2>1, <2>3, <3>2, <1>7
  <2> QED
    BY <2>2, <2>3, <1>12
<1>15. {Start(k)' + 1 : k \in 1..(m + 1)} = {k \in TokenStarts(stream) : k <= n - 1}
  <2>1. {Start(k) + 1 : k \in 1..m} = {k \in TokenStarts(stream) : k <= pos}
    BY <1>1, <1>2, <1>5 DEF LexedByRuns
  <2>2. {Start(k)' + 1 : k \in 1..(m + 1)} = {Start(k) + 1 : k \in 1..m} \cup {Start(m + 1) + 1}
    BY <1>9, <1>12, <1>5
  <2>3. Start(m + 1) + 1 = i
    BY <1>2, <1>5
  <2>4. TokenStarts(stream) \subseteq Nat
    BY StartsAre
  <2>5. \A k \in TokenStarts(stream) : k <= n - 1 <=> k <= pos \/ k = i
    <3> TAKE k \in TokenStarts(stream)
    <3>1. k \notin (i + 1)..(n - 1) /\ k \in Nat
      BY <1>3, <2>4
    <3> QED
      BY ONLY <3>1, <1>6
  <2> QED
    BY <2>1, <2>2, <2>3, <2>5, <1>2
<1>16. \A k \in 1..(m + 1) : results'[k] = TokenAt(stream, Start(k)' + 1)
  <2> TAKE k \in 1..(m + 1)
  <2>1. CASE k \in 1..m
    BY <2>1, <1>1, <1>2, <1>5, <1>8, <1>9 DEF LexedByRuns
  <2>2. CASE k = m + 1
    BY <2>2, <1>2, <1>3, <1>5, <1>8, <1>9
  <2> QED
    BY <2>1, <2>2, <1>12
<1>17. LexedByRuns'
  BY <1>1, <1>8, <1>14, <1>15, <1>16 DEF LexedByRuns
<1>18. pos' < Len(stream') => pos' + 1 \in TokenStarts(stream')
  <2> HAVE pos' < Len(stream')
  <2>1. n <= Len(stream) /\ pos' + 1 = n
    BY <1>1, <1>4, <1>6, <1>3
  <2> QED
    BY <2>1, <1>1, <1>3
<1>19. (Start(Len(results) + 1) = pos)'
  <2>1. Len(results') + 1 = m + 2 /\ m + 2 # 1 /\ (m + 2) - 1 = m + 1
    BY <1>8, <1>5
  <2> QED
    BY <2>1, <1>7, <1>1 DEF Start
<1>20. pos' \in 0..Len(stream')
  BY <1>1, <1>4, <1>6
<1> QED
  BY <1>1, <1>2, <1>7, <1>8, <1>13, <1>17, <1>18, <1>19, <1>20 DEF LexInv

(* Everything else leaves the lexer alone. *)
LEMMA LexInvariant == LexInv /\ [Next]_vars => LexInv'
<1> SUFFICES ASSUME LexInv, [Next]_vars PROVE LexInv'
  OBVIOUS
<1>1. CASE Push \/ Reset \/ ReadLine \/ ReadLineEOF
  BY <1>1 DEF Push, Reset, ReadLine, ReadLineEOF, LexInv
<1>2. CASE LexNext
  BY <1>2, LexStep
<1>3. CASE UNCHANGED vars
  <2>1. (kind' = kind /\ stream' = stream /\ pos' = pos) /\ (bounds' = bounds /\ results' = results)
    BY <1>3 DEF vars
  <2>2. \A k : Start(k)' = Start(k)
    BY <2>1 DEF Start
  <2>3. LexedByRuns' <=> LexedByRuns
    BY <2>1, <2>2 DEF LexedByRuns, Rising
  <2>4. (Start(Len(results) + 1) = pos)' <=> Start(Len(results) + 1) = pos
    BY <2>1 DEF Start
  <2> QED
    BY <2>1, <2>3, <2>4 DEF LexInv
<1> QED
  BY <1>1, <1>2, <1>3 DEF Next, Done

(* The tokens the lexer returns are those that the whole text shows, in    *)
(* its order, for every text.                                              *)
THEOREM TokensByRuns == Spec => []LexedByRuns
<1>1. Init => LexInv
  <2> SUFFICES ASSUME Init, kind = "lexer" PROVE LexInv
    BY DEF LexInv
  <2>1. stream \in Seq(Piece) /\ pos = 0 /\ bounds = << >> /\ results = << >>
    BY ScannersAssumption DEF Init
  <2>2. Start(Len(results) + 1) = 0
    BY <2>1 DEF Start
  <2>3. LexedByRuns
    <3>1. {i \in TokenStarts(stream) : i <= pos} = {}
      BY <2>1, StartsAre
    <3> QED
      BY <3>1, <2>1 DEF LexedByRuns, Rising
  <2>4. pos < Len(stream) => pos + 1 \in TokenStarts(stream)
    BY <2>1, FirstToken
  <2> QED
    BY <2>1, <2>2, <2>3, <2>4 DEF LexInv
<1>2. LexInv => LexedByRuns
  BY DEF LexInv, LexedByRuns
<1> QED
  BY <1>1, <1>2, LexInvariant, PTL DEF Spec

-----------------------------------------------------------------------------
(* Parts of a stream.                                                      *)

(* The part of a stream behind a, up to p. *)
LEMMA PartIs ==
  ASSUME NEW S, NEW s \in Seq(S), NEW a \in Nat, NEW p \in Nat, a <= p, p <= Len(s)
  PROVE  /\ SubSeq(s, a + 1, p) \in Seq(S)
         /\ Len(SubSeq(s, a + 1, p)) = p - a
         /\ \A j \in 1..(p - a) : SubSeq(s, a + 1, p)[j] = s[a + j]
<1>1. Len(s) \in Nat
  OBVIOUS
<1>2. /\ SubSeq(s, a + 1, p) \in Seq(S)
      /\ Len(SubSeq(s, a + 1, p)) = p - a
  BY <1>1
<1>3. \A j \in 1..(p - a) : SubSeq(s, a + 1, p)[j] = s[(a + 1) + j - 1] /\ (a + 1) + j - 1 = a + j
  BY <1>1
<1> QED
  BY <1>2, <1>3

(* Two sequences with the same length and elements are the same. *)
LEMMA SameElements ==
  ASSUME NEW S, NEW s \in Seq(S), NEW t \in Seq(S), Len(s) = Len(t),
         \A j \in 1..Len(s) : s[j] = t[j]
  PROVE  s = t
  OBVIOUS

(* One more byte. *)
LEMMA PartGrows ==
  ASSUME NEW S, NEW s \in Seq(S), NEW a \in Nat, NEW p \in Nat, a <= p, p < Len(s)
  PROVE  Append(SubSeq(s, a + 1, p), s[p + 1]) = SubSeq(s, a + 1, p + 1)
<1> DEFINE t == SubSeq(s, a + 1, p)
           u == SubSeq(s, a + 1, p + 1)
           v == Append(t, s[p + 1])
<1>1. Len(s) \in Nat /\ p + 1 \in 1..Len(s) /\ s[p + 1] \in S /\ p + 1 \in Nat /\ p + 1 <= Len(s)
      /\ a <= p + 1 /\ p <= Len(s)
  OBVIOUS
<1>2. t \in Seq(S) /\ Len(t) = p - a /\ \A j \in 1..(p - a) : t[j] = s[a + j]
  BY <1>1, PartIs
<1>3. u \in Seq(S) /\ Len(u) = (p + 1) - a /\ \A j \in 1..((p + 1) - a) : u[j] = s[a + j]
  BY <1>1, PartIs
<1> HIDE DEF t, u
<1>4. /\ v \in Seq(S) /\ Len(v) = (p - a) + 1
      /\ \A j \in 1..(p - a) : v[j] = t[j]
      /\ v[(p - a) + 1] = s[p + 1]
  BY <1>1, <1>2, Appended
<1> HIDE DEF v
<1>5. \A j \in 1..((p + 1) - a) : v[j] = u[j]
  <2> TAKE j \in 1..((p + 1) - a)
  <2>1. j \in 1..(p - a) \/ (j = (p - a) + 1 /\ a + j = p + 1)
    OBVIOUS
  <2> QED
    BY <2>1, <1>2, <1>3, <1>4
<1>6. Len(v) = Len(u) /\ Len(u) = (p + 1) - a
  BY <1>3, <1>4
<1>7. v = u
  BY <1>3, <1>4, <1>5, <1>6, SameElements
<1> QED
  BY <1>7 DEF t, u, v

(* A part of a part. *)
LEMMA PartOfPart ==
  ASSUME NEW S, NEW s \in Seq(S), NEW a \in Nat, NEW p \in Nat, a <= p, p <= Len(s),
         NEW m \in Nat, NEW n \in Nat, m <= n, n <= p - a
  PROVE  SubSeq(SubSeq(s, a + 1, p), m + 1, n) = SubSeq(s, (a + m) + 1, a + n)
<1> DEFINE t == SubSeq(s, a + 1, p)
           u == SubSeq(t, m + 1, n)
           v == SubSeq(s, (a + m) + 1, a + n)
<1>1. t \in Seq(S) /\ Len(t) = p - a /\ \A j \in 1..(p - a) : t[j] = s[a + j]
  BY PartIs
<1> HIDE DEF t
<1>2. u \in Seq(S) /\ Len(u) = n - m /\ \A j \in 1..(n - m) : u[j] = t[m + j]
  BY <1>1, PartIs
<1>3. a + m \in Nat /\ a + n \in Nat /\ a + m <= a + n /\ a + n <= Len(s) /\ (a + n) - (a + m) = n - m
  OBVIOUS
<1>4. v \in Seq(S) /\ Len(v) = n - m /\ \A j \in 1..(n - m) : v[j] = s[(a + m) + j]
  <2> DEFINE x == a + m
             y == a + n
  <2>1. /\ SubSeq(s, x + 1, y) \in Seq(S) /\ Len(SubSeq(s, x + 1, y)) = y - x
        /\ \A j \in 1..(y - x) : SubSeq(s, x + 1, y)[j] = s[x + j]
    <3> HIDE DEF x, y
    <3> QED
      BY <1>3, PartIs DEF x, y
  <2> QED
    BY <2>1, <1>3
<1> HIDE DEF u, v
<1>5. \A j \in 1..(n - m) : u[j] = v[j]
  <2> TAKE j \in 1..(n - m)
  <2>1. m + j \in 1..(p - a) /\ a + (m + j) = (a + m) + j
    OBVIOUS
  <2> QED
    BY <2>1, <1>1, <1>2, <1>4
<1>6. u = v
  BY <1>2, <1>4, <1>5, SameElements
<1> QED
  BY <1>6 DEF t, u, v

-----------------------------------------------------------------------------
(* The rfc5424.Delimiter.                                                  *)

RfcLine == {TrimLine(s) : s \in Seq(RfcByte)}

(* The buffer holds at least the header as far as it has been read, with   *)
(* the digits that priLen counts.                                          *)
Counted(s, n, m) ==
  /\ s \in {"priVal1", "priVal2", "priVal3", "priEnd"} =>
       n = CASE s = "priVal1" -> 1 [] s = "priVal2" -> 2 [] s = "priVal3" -> 3 [] s = "priEnd" -> 4
  /\ s = "priVal0" => m >= 1
  /\ s \in {"priVal1", "priVal2", "priVal3", "priEnd"} => m >= n + 1
  /\ s = "version" => m >= n + 2
  /\ s = "postVersion" => m >= n + 3

RfcTyped ==
  /\ stream \in Seq(RfcByte)
  /\ pos \in 0..Len(stream)
  /\ bounds \in Seq(Nat)
  /\ results \in Seq(RfcLine)
  /\ Len(bounds) = Len(results)
  /\ d \in [buf : Seq(RfcByte), priLen : 0..4, state : States]

RfcInv ==
  kind = "rfc5424" =>
    /\ RfcTyped
    /\ Start(Len(results) + 1) \in 0..pos
    /\ Counted(d.state, d.priLen, pos - Start(Len(results) + 1))
    /\ RfcNoByteLost

(* The count stays right when a byte is read. *)
LEMMA CountedNext ==
  ASSUME NEW s \in States, NEW n \in 0..4, NEW m \in Nat, NEW b \in RfcByte,
         Counted(s, n, m)
  PROVE  /\ stateAfter(s, b) \in States
         /\ priLenAfter(s, b, n) \in 0..4
         /\ Counted(stateAfter(s, b), priLenAfter(s, b, n), m + 1)
<1>1. CASE s \in {"newline", "priStart", "priVal0", "version", "postVersion", "priEnd"}
  BY <1>1 DEF Counted, stateAfter, priLenAfter, States
<1>2. CASE s = "priVal1"
  BY <1>2 DEF Counted, stateAfter, priLenAfter, States
<1>3. CASE s = "priVal2"
  BY <1>3 DEF Counted, stateAfter, priLenAfter, States
<1>4. CASE s = "priVal3"
  BY <1>4 DEF Counted, stateAfter, priLenAfter, States
<1> QED
  BY <1>1, <1>2, <1>3, <1>4 DEF States

(* The starts of the results when one is added. *)
LEMMA StartsGrow ==
  ASSUME bounds \in Seq(Nat), NEW m, m = Len(bounds), NEW b \in Nat, bounds' = Append(bounds, b)
  PROVE  /\ m \in Nat
         /\ bounds' \in Seq(Nat) /\ Len(bounds') = m + 1
         /\ \A k \in 1..m : bounds'[k] = bounds[k]
         /\ bounds'[m + 1] = b
         /\ \A k \in 1..(m + 1) : Start(k)' = Start(k)
         /\ Start((m + 1) + 1)' = b
<1>1. /\ m \in Nat
      /\ bounds' \in Seq(Nat) /\ Len(bounds') = m + 1
      /\ \A k \in 1..m : bounds'[k] = bounds[k]
      /\ bounds'[m + 1] = b
  BY Appended
<1>2. \A k \in 1..(m + 1) : Start(k)' = Start(k)
  <2> TAKE k \in 1..(m + 1)
  <2>1. k = 1 \/ k - 1 \in 1..m
    BY <1>1
  <2> QED
    BY <2>1, <1>1 DEF Start
<1>3. Start((m + 1) + 1)' = b
  <2>1. (m + 1) + 1 # 1 /\ ((m + 1) + 1) - 1 = m + 1
    BY <1>1
  <2> QED
    BY <2>1, <1>1 DEF Start
<1> QED
  BY <1>1, <1>2, <1>3

(* Where a result of ReadLine lies. *)
RfcResult(n) ==
  /\ Start(n) <= bounds[n] /\ bounds[n] <= pos
  /\ results[n] = TrimLine(SubSeq(stream, Start(n) + 1, bounds[n]))

(* ReadLine has returned: the buffer, up to p, is cut behind its first n   *)
(* bytes.                                                                  *)
LEMMA RfcCut ==
  ASSUME RfcInv, kind = "rfc5424", kind' = kind, stream' = stream,
         NEW a, a = Start(Len(results) + 1),
         NEW p \in Nat, pos <= p, p <= Len(stream), pos' = p,
         NEW n \in Nat, n <= p - a,
         d' = [buf |-> SubSeq(SubSeq(stream, a + 1, p), n + 1, p - a), priLen |-> 0, state |-> "priStart"],
         results' = Append(results, TrimLine(SubSeq(SubSeq(stream, a + 1, p), 1, n))),
         bounds' = Append(bounds, p - Len(d'.buf))
  PROVE  RfcInv' /\ p - Len(d'.buf) = a + n
<1>1. RfcTyped /\ a \in 0..pos /\ RfcNoByteLost
  BY DEF RfcInv
<1>2. stream \in Seq(RfcByte) /\ pos \in Nat
  BY <1>1 DEF RfcTyped
<1>0. p \in Nat /\ pos <= p /\ p <= Len(stream) /\ n \in Nat /\ n <= p - a
  OBVIOUS
<1>3. a \in Nat /\ a <= p /\ 0 <= p - a /\ p - a \in Nat
  BY ONLY <1>0, <1>1, <1>2
<1>4. /\ SubSeq(SubSeq(stream, a + 1, p), 0 + 1, n) = SubSeq(stream, (a + 0) + 1, a + n)
      /\ SubSeq(SubSeq(stream, a + 1, p), n + 1, p - a) = SubSeq(stream, (a + n) + 1, a + (p - a))
  BY ONLY <1>0, <1>2, <1>3, PartOfPart
<1>5. a + 0 = a /\ a + (p - a) = p /\ 0 + 1 = 1 /\ a + n \in Nat /\ a + n <= p /\ a <= a + n
      /\ p - (p - (a + n)) = a + n
  BY ONLY <1>0, <1>3
<1>6. /\ d'.buf = SubSeq(stream, (a + n) + 1, p)
      /\ d'.buf \in Seq(RfcByte)
      /\ Len(d'.buf) = p - (a + n)
  <2>1. d'.buf = SubSeq(stream, (a + n) + 1, p)
    BY <1>4, <1>5
  <2> DEFINE x == a + n
  <2>2. SubSeq(stream, x + 1, p) \in Seq(RfcByte) /\ Len(SubSeq(stream, x + 1, p)) = p - x
    <3>1. x \in Nat /\ x <= p
      BY <1>5
    <3> HIDE DEF x
    <3> QED
      BY <3>1, <1>2, PartIs
  <2> QED
    BY <2>1, <2>2
<1>7. p - Len(d'.buf) = a + n
  BY <1>6, <1>5
<1>8. /\ SubSeq(stream, a + 1, a + n) \in Seq(RfcByte)
      /\ SubSeq(SubSeq(stream, a + 1, p), 1, n) = SubSeq(stream, a + 1, a + n)
  <2>1. a + n <= Len(stream)
    BY <1>5, <1>2
  <2> QED
    BY <1>2, <1>3, <1>4, <1>5, <2>1, PartIs
<1> DEFINE r == TrimLine(SubSeq(stream, a + 1, a + n))
<1>9. r \in RfcLine /\ results' = Append(results, r)
  BY <1>8 DEF RfcLine
<1>10. PICK m : m = Len(results) /\ m = Len(bounds)
  BY <1>1 DEF RfcTyped
<1>11. /\ m \in Nat
       /\ bounds' \in Seq(Nat) /\ Len(bounds') = m + 1
       /\ \A k \in 1..m : bounds'[k] = bounds[k]
       /\ bounds'[m + 1] = a + n
       /\ \A k \in 1..(m + 1) : Start(k)' = Start(k)
       /\ Start((m + 1) + 1)' = a + n
  <2>1. bounds \in Seq(Nat) /\ bounds' = Append(bounds, a + n)
    BY <1>1, <1>7 DEF RfcTyped
  <2> QED
    BY <2>1, <1>5, <1>10, StartsGrow
<1> HIDE DEF r
<1>12. /\ results' \in Seq(RfcLine) /\ Len(results') = m + 1
       /\ \A k \in 1..m : results'[k] = results[k]
       /\ results'[m + 1] = r
  <2>1. results \in Seq(RfcLine)
    BY <1>1 DEF RfcTyped
  <2>2. r \in RfcLine
    BY <1>9
  <2>3. /\ Append(results, r) \in Seq(RfcLine)
        /\ Len(Append(results, r)) = Len(results) + 1
        /\ \A k \in 1..Len(results) : Append(results, r)[k] = results[k]
        /\ Append(results, r)[Len(results) + 1] = r
    BY ONLY <2>1, <2>2, Appended
  <2> QED
    BY ONLY <2>3, <1>9, <1>10
<1>13. RfcTyped'
  <2>1. d' \in [buf : Seq(RfcByte), priLen : 0..4, state : States]
    <3>1. PICK u : u = d'.buf
      OBVIOUS
    <3>2. d' = [buf |-> u, priLen |-> 0, state |-> "priStart"] /\ u \in Seq(RfcByte)
      BY <3>1, <1>6
    <3> QED
      BY ONLY <3>2 DEF States
  <2>2. pos' \in 0..Len(stream')
    BY <1>2
  <2> QED
    BY <2>1, <2>2, <1>2, <1>11, <1>12 DEF RfcTyped
<1>14. (Start(Len(results) + 1))' = a + n
  <2>1. (m + 1) + 1 # 1 /\ ((m + 1) + 1) - 1 = m + 1
    BY ONLY <1>11
  <2> QED
    BY ONLY <1>11, <1>12, <2>1 DEF Start
<1>15. (Start(Len(results) + 1))' \in 0..pos'
  BY <1>14, <1>5
<1>16. Counted(d.state, d.priLen, pos - Start(Len(results) + 1))'
  BY DEF Counted
<1>17. \A k \in 1..(m + 1) : RfcResult(k)'
  <2> TAKE k \in 1..(m + 1)
  <2>1. CASE k = m + 1
    <3>1. Start(k) = a
      BY <2>1, <1>10
    <3>2. Start(k)' = a /\ bounds'[k] = a + n /\ results'[k] = r
      BY ONLY <2>1, <3>1, <1>11, <1>12
    <3> QED
      BY <3>2, <1>5 DEF RfcResult, r
  <2>2. CASE k \in 1..m
    <3>1. Start(k)' = Start(k) /\ bounds'[k] = bounds[k] /\ results'[k] = results[k]
      BY ONLY <2>2, <1>11, <1>12
    <3>2. RfcResult(k)
      BY <2>2, <1>1, <1>10 DEF RfcNoByteLost, RfcResult
    <3>3. bounds[k] \in Nat
      <4>1. bounds \in Seq(Nat) /\ k \in 1..Len(bounds)
        BY <2>2, <1>1, <1>10 DEF RfcTyped
      <4> QED
        BY ONLY <4>1
    <3>4. bounds[k] <= p
      BY ONLY <3>2, <3>3, <1>0, <1>2 DEF RfcResult
    <3> QED
      BY <3>1, <3>2, <3>4 DEF RfcResult
  <2> QED
    BY ONLY <2>1, <2>2, <1>11
<1>18. (d.buf = SubSeq(stream, Start(Len(results) + 1) + 1, pos))'
  BY <1>6, <1>14
<1>19. RfcNoByteLost'
  BY <1>12, <1>17, <1>18 DEF RfcNoByteLost, RfcResult
<1> QED
  BY <1>7, <1>13, <1>15, <1>16, <1>19 DEF RfcInv

(* A byte is read, and nothing returned. *)
LEMMA RfcKeep ==
  ASSUME RfcInv, kind = "rfc5424", kind' = kind, stream' = stream,
         pos < Len(stream), pos' = pos + 1, NEW b, b = stream[pos + 1],
         d' = [d EXCEPT !.buf = Append(d.buf, b), !.state = stateAfter(d.state, b),
                        !.priLen = priLenAfter(d.state, b, d.priLen)],
         results' = results, bounds' = bounds
  PROVE  RfcInv'
<1>1. /\ RfcTyped /\ RfcNoByteLost
      /\ Start(Len(results) + 1) \in 0..pos
      /\ Counted(d.state, d.priLen, pos - Start(Len(results) + 1))
  BY DEF RfcInv
<1>2. PICK a : a = Start(Len(results) + 1)
  OBVIOUS
<1>3. (Start(Len(results) + 1))' = a
  BY <1>2 DEF Start
<1>4. /\ stream \in Seq(RfcByte) /\ pos \in 0..Len(stream)
      /\ d \in [buf : Seq(RfcByte), priLen : 0..4, state : States]
  BY <1>1 DEF RfcTyped
<1>5. pos < Len(stream)
  OBVIOUS
<1>6. pos \in Nat /\ pos + 1 \in 0..Len(stream) /\ pos + 1 \in 1..Len(stream) /\ pos <= Len(stream)
  BY ONLY <1>4, <1>5
<1>7. b \in RfcByte
  BY <1>4, <1>6
<1>8. a \in Nat /\ a <= pos /\ pos - a \in Nat /\ (pos - a) + 1 = (pos + 1) - a /\ a \in 0..(pos + 1)
  BY ONLY <1>1, <1>2, <1>6
<1>9. /\ stateAfter(d.state, b) \in States
      /\ priLenAfter(d.state, b, d.priLen) \in 0..4
      /\ Counted(stateAfter(d.state, b), priLenAfter(d.state, b, d.priLen), (pos - a) + 1)
  BY <1>1, <1>2, <1>4, <1>7, <1>8, CountedNext
<1>10. d.buf = SubSeq(stream, a + 1, pos)
  BY <1>1, <1>2 DEF RfcNoByteLost
<1>11. Append(SubSeq(stream, a + 1, pos), stream[pos + 1]) = SubSeq(stream, a + 1, pos + 1)
  BY ONLY <1>4, <1>5, <1>6, <1>8, PartGrows
<1>12. d' = [buf |-> Append(d.buf, b), priLen |-> priLenAfter(d.state, b, d.priLen),
             state |-> stateAfter(d.state, b)]
  BY <1>4
<1>13. d'.buf = SubSeq(stream, a + 1, pos + 1)
  BY <1>10, <1>11, <1>12
<1>14. d' \in [buf : Seq(RfcByte), priLen : 0..4, state : States]
  <2>1. Append(d.buf, b) \in Seq(RfcByte)
    BY <1>4, <1>7
  <2> QED
    BY ONLY <2>1, <1>9, <1>12
<1>15. RfcTyped'
  BY <1>1, <1>6, <1>14 DEF RfcTyped
<1>16. Counted(d.state, d.priLen, pos - Start(Len(results) + 1))'
  <2>1. d'.state = stateAfter(d.state, b) /\ d'.priLen = priLenAfter(d.state, b, d.priLen)
    BY <1>12
  <2>2. Counted(d'.state, d'.priLen, (pos + 1) - a)
    BY ONLY <2>1, <1>8, <1>9
  <2> QED
    BY <2>2, <1>3 DEF Counted
<1>17. \A k \in 1..Len(results) : RfcResult(k)'
  <2> TAKE k \in 1..Len(results)
  <2>1. RfcResult(k)
    BY <1>1 DEF RfcNoByteLost, RfcResult
  <2>2. bounds[k] \in Nat
    BY <1>1 DEF RfcTyped
  <2>3. bounds[k] <= pos + 1
    BY ONLY <2>1, <2>2, <1>6 DEF RfcResult
  <2>4. Start(k)' = Start(k)
    BY DEF Start
  <2> QED
    BY <2>1, <2>3, <2>4 DEF RfcResult
<1>18. RfcNoByteLost'
  BY <1>3, <1>13, <1>17 DEF RfcNoByteLost, RfcResult
<1>19. (Start(Len(results) + 1))' \in 0..pos'
  BY <1>3, <1>8
<1> QED
  BY <1>15, <1>16, <1>18, <1>19 DEF RfcInv

(* ReadLine of a byte, in the terms of the two lemmas. *)
LEMMA ReadLineIs ==
  ASSUME RfcInv, ReadLine, NEW a, a = Start(Len(results) + 1), NEW b, b = stream[pos + 1]
  PROVE  /\ kind = "rfc5424" /\ kind' = kind /\ stream' = stream /\ eof' = eof
         /\ pos < Len(stream) /\ pos' = pos + 1 /\ pos + 1 \in Nat /\ pos + 1 <= Len(stream)
         /\ IF d.state = "postVersion" /\ b = " "
            THEN \E n \in Nat :
                   /\ a + n = pos - (d.priLen + 3)
                   /\ n <= (pos + 1) - a
                   /\ d' = [buf |-> SubSeq(SubSeq(stream, a + 1, pos + 1), n + 1, (pos + 1) - a),
                            priLen |-> 0, state |-> "priStart"]
                   /\ results' = Append(results, TrimLine(SubSeq(SubSeq(stream, a + 1, pos + 1), 1, n)))
                   /\ bounds' = Append(bounds, (pos + 1) - Len(d'.buf))
            ELSE /\ d' = [d EXCEPT !.buf = Append(d.buf, b), !.state = stateAfter(d.state, b),
                                   !.priLen = priLenAfter(d.state, b, d.priLen)]
                 /\ results' = results /\ bounds' = bounds
<1>1. kind = "rfc5424" /\ pos < Len(stream) /\ kind' = kind /\ stream' = stream /\ eof' = eof
      /\ pos' = pos + 1
  BY DEF ReadLine
<1>2. /\ RfcTyped /\ RfcNoByteLost /\ a \in 0..pos
      /\ Counted(d.state, d.priLen, pos - a)
  BY <1>1 DEF RfcInv
<1>3. /\ stream \in Seq(RfcByte) /\ pos \in 0..Len(stream)
      /\ d \in [buf : Seq(RfcByte), priLen : 0..4, state : States]
  BY <1>2 DEF RfcTyped
<1>4. pos \in Nat /\ a \in Nat /\ a <= pos /\ pos + 1 \in Nat /\ pos + 1 <= Len(stream)
      /\ a <= pos + 1 /\ (pos + 1) - a \in Nat
  BY ONLY <1>1, <1>2, <1>3
<1>5. d.buf = SubSeq(stream, a + 1, pos)
  BY <1>1, <1>2 DEF RfcNoByteLost
<1>6. Append(d.buf, b) = SubSeq(stream, a + 1, pos + 1)
  <2>1. Append(SubSeq(stream, a + 1, pos), stream[pos + 1]) = SubSeq(stream, a + 1, pos + 1)
    <3>1. stream \in Seq(RfcByte) /\ a \in Nat /\ pos \in Nat /\ a <= pos /\ pos < Len(stream)
      BY ONLY <1>1, <1>3, <1>4
    <3> QED
      BY ONLY <3>1, PartGrows
  <2> QED
    BY ONLY <1>5, <2>1, b = stream[pos + 1]
<1> DEFINE read == [d EXCEPT !.buf = Append(@, b)]
           res == ReadLineByte(d, b)
<1>7. /\ d' = res.delimiter
      /\ results' = IF res.ok THEN Append(results, res.line) ELSE results
      /\ bounds' = IF res.ok THEN Append(bounds, (pos + 1) - Len(res.delimiter.buf)) ELSE bounds
  BY DEF ReadLine
<1>8. CASE d.state = "postVersion" /\ b = " "
  <2>1. res = line(read, TRUE)
    BY <1>8 DEF ReadLineByte
  <2>2. read.buf = SubSeq(stream, a + 1, pos + 1) /\ read.priLen = d.priLen
    BY <1>3, <1>6
  <2>3. Len(SubSeq(stream, a + 1, pos + 1)) = (pos + 1) - a
    BY ONLY <1>3, <1>4, PartIs
  <2> DEFINE n == (pos + 1) - a - d.priLen - 4
  <2>4. d.priLen \in 0..4 /\ pos - a >= d.priLen + 3
    BY <1>2, <1>3, <1>8 DEF Counted
  <2>5. n \in Nat /\ a + n = pos - (d.priLen + 3) /\ n <= (pos + 1) - a
    <3>1. PICK q : q = d.priLen
      OBVIOUS
    <3>2. q \in 0..4 /\ pos - a >= q + 3
      BY <3>1, <2>4
    <3>3. n = ((pos + 1) - a) - q - 4
      BY <3>1
    <3>4. n = (pos - a) - (q + 3) /\ n \in Nat
      <4> HIDE DEF n
      <4> QED
        BY ONLY <3>2, <3>3, <1>4
    <3>5. a + n = pos - (q + 3) /\ n <= (pos + 1) - a
      <4> HIDE DEF n
      <4> QED
        BY ONLY <3>2, <3>4, <1>4
    <3> QED
      BY <3>1, <3>4, <3>5
  <2>6. res = [delimiter |-> [buf |-> SubSeq(read.buf, n + 1, (pos + 1) - a), priLen |-> 0,
                              state |-> "priStart"],
               line |-> TrimLine(SubSeq(read.buf, 1, n)), ok |-> TRUE]
    BY <2>1, <2>2, <2>3 DEF line
  <2> HIDE DEF res, read, n
  <2>7. /\ res.delimiter = [buf |-> SubSeq(read.buf, n + 1, (pos + 1) - a), priLen |-> 0, state |-> "priStart"]
        /\ res.line = TrimLine(SubSeq(read.buf, 1, n))
        /\ res.ok
    BY <2>6
  <2> QED
    BY <2>2, <2>5, <2>7, <1>1, <1>4, <1>7, <1>8
<1>9. CASE ~(d.state = "postVersion" /\ b = " ")
  <2>1. res = [delimiter |-> [read EXCEPT !.state = stateAfter(d.state, b),
                                          !.priLen = priLenAfter(d.state, b, @)],
               line |-> << >>, ok |-> FALSE]
    BY <1>9 DEF ReadLineByte
  <2>2. res.delimiter = [d EXCEPT !.buf = Append(d.buf, b), !.state = stateAfter(d.state, b),
                                  !.priLen = priLenAfter(d.state, b, d.priLen)]
    BY <2>1, <1>3
  <2>3. res.ok = FALSE
    BY <2>1
  <2> QED
    BY <2>2, <2>3, <1>1, <1>4, <1>7, <1>9
<1> QED
  BY <1>8, <1>9

(* ReadLine at the end of the stream. *)
LEMMA ReadLineEOFIs ==
  ASSUME RfcInv, ReadLineEOF, NEW a, a = Start(Len(results) + 1)
  PROVE  /\ kind = "rfc5424" /\ kind' = kind /\ stream' = stream /\ eof'
         /\ pos' = pos /\ pos \in Nat /\ pos <= Len(stream) /\ pos <= pos /\ ~eof /\ pos = Len(stream)
         /\ pos - a \in Nat /\ pos - a <= pos - a /\ a + (pos - a) = pos
         /\ d' = [buf |-> SubSeq(SubSeq(stream, a + 1, pos), (pos - a) + 1, pos - a),
                  priLen |-> 0, state |-> "priStart"]
         /\ results' = Append(results, TrimLine(SubSeq(SubSeq(stream, a + 1, pos), 1, pos - a)))
         /\ bounds' = Append(bounds, pos - Len(d'.buf))
<1>1. kind = "rfc5424" /\ pos = Len(stream) /\ kind' = kind /\ stream' = stream /\ eof'
      /\ pos' = pos /\ ~eof
  BY DEF ReadLineEOF
<1>2. /\ RfcTyped /\ RfcNoByteLost /\ a \in 0..pos
  BY <1>1 DEF RfcInv
<1>3. /\ stream \in Seq(RfcByte) /\ pos \in 0..Len(stream)
      /\ d \in [buf : Seq(RfcByte), priLen : 0..4, state : States]
  BY <1>2 DEF RfcTyped
<1>4. pos \in Nat /\ a \in Nat /\ a <= pos /\ pos <= Len(stream) /\ pos - a \in Nat
      /\ pos <= pos /\ pos - a <= pos - a /\ a + (pos - a) = pos
  BY ONLY <1>1, <1>2, <1>3
<1>5. d.buf = SubSeq(stream, a + 1, pos)
  BY <1>1, <1>2 DEF RfcNoByteLost
<1>6. Len(SubSeq(stream, a + 1, pos)) = pos - a
  BY ONLY <1>3, <1>4, PartIs
<1> DEFINE res == ReadLineErr(d)
<1>7. /\ d' = res.delimiter
      /\ results' = Append(results, res.line)
      /\ bounds' = Append(bounds, pos - Len(res.delimiter.buf))
  BY DEF ReadLineEOF
<1>8. res = [delimiter |-> [buf |-> SubSeq(d.buf, (pos - a) + 1, pos - a), priLen |-> 0,
                            state |-> "priStart"],
             line |-> TrimLine(SubSeq(d.buf, 1, pos - a)), ok |-> TRUE]
  BY <1>5, <1>6 DEF ReadLineErr, line
<1> HIDE DEF res
<1>9. /\ res.delimiter = [buf |-> SubSeq(d.buf, (pos - a) + 1, pos - a), priLen |-> 0, state |-> "priStart"]
      /\ res.line = TrimLine(SubSeq(d.buf, 1, pos - a))
  BY <1>8
<1> QED
  BY <1>1, <1>4, <1>5, <1>7, <1>9

(* Each step keeps the bytes together. *)
LEMMA RfcInvariant == RfcInv /\ [Next]_vars => RfcInv'
<1> SUFFICES ASSUME RfcInv, [Next]_vars PROVE RfcInv'
  OBVIOUS
<1>1. PICK a, b : a = Start(Len(results) + 1) /\ b = stream[pos + 1]
  OBVIOUS
<1>2. CASE ReadLine
  <2>1. CASE d.state = "postVersion" /\ b = " "
    <3>1. PICK n \in Nat :
            /\ n <= (pos + 1) - a
            /\ d' = [buf |-> SubSeq(SubSeq(stream, a + 1, pos + 1), n + 1, (pos + 1) - a),
                     priLen |-> 0, state |-> "priStart"]
            /\ results' = Append(results, TrimLine(SubSeq(SubSeq(stream, a + 1, pos + 1), 1, n)))
            /\ bounds' = Append(bounds, (pos + 1) - Len(d'.buf))
      BY <2>1, <1>1, <1>2, ReadLineIs
    <3>2. /\ kind = "rfc5424" /\ kind' = kind /\ stream' = stream
          /\ pos' = pos + 1 /\ pos + 1 \in Nat /\ pos + 1 <= Len(stream)
      BY <1>1, <1>2, ReadLineIs
    <3>3. pos <= pos + 1
      BY <3>2 DEF RfcInv, RfcTyped
    <3>4. PICK p \in Nat : p = pos + 1
      BY <3>2
    <3> QED
      BY <3>1, <3>2, <3>3, <3>4, <1>1, RfcCut
  <2>2. CASE ~(d.state = "postVersion" /\ b = " ")
    BY <2>2, <1>1, <1>2, ReadLineIs, RfcKeep
  <2> QED
    BY <2>1, <2>2
<1>3. CASE ReadLineEOF
  BY <1>1, <1>3, ReadLineEOFIs, RfcCut
<1>4. CASE Push \/ Reset \/ LexNext
  BY <1>4 DEF Push, Reset, LexNext, RfcInv
<1>5. CASE UNCHANGED vars
  <2>1. /\ kind' = kind /\ stream' = stream /\ pos' = pos
        /\ bounds' = bounds /\ results' = results /\ d' = d
    BY <1>5 DEF vars
  <2>2. /\ \A k : Start(k)' = Start(k)
        /\ (Start(Len(results) + 1))' = Start(Len(results) + 1)
    BY <2>1 DEF Start
  <2>3. RfcTyped' <=> RfcTyped
    BY <2>1 DEF RfcTyped
  <2>4. RfcNoByteLost' <=> RfcNoByteLost
    BY <2>1, <2>2 DEF RfcNoByteLost
  <2> QED
    BY <2>1, <2>2, <2>3, <2>4 DEF RfcInv, Counted
<1> QED
  BY <1>2, <1>3, <1>4, <1>5 DEF Next, Done

(* At the start. *)
LEMMA RfcInit == Init => RfcInv
<1> SUFFICES ASSUME Init, kind = "rfc5424" PROVE RfcInv
  BY DEF RfcInv
<1>1. stream \in Seq(RfcByte) /\ pos = 0 /\ bounds = << >> /\ results = << >> /\ d = NewDelimiter
  BY ScannersAssumption DEF Init
<1>2. Start(Len(results) + 1) = 0
  BY <1>1 DEF Start
<1>3. d = [buf |-> << >>, priLen |-> 0, state |-> "newline"]
  BY <1>1 DEF NewDelimiter
<1>4. RfcTyped
  BY <1>1, <1>3 DEF RfcTyped, States
<1>5. SubSeq(stream, 0 + 1, 0) = << >>
  BY <1>1
<1>6. RfcNoByteLost
  BY <1>1, <1>2, <1>3, <1>5 DEF RfcNoByteLost
<1> QED
  BY <1>1, <1>2, <1>3, <1>4, <1>6 DEF RfcInv, Counted

(* ReadLine loses no byte between two lines, whatever the stream, a        *)
(* malformed header included.                                              *)
THEOREM NoByteLost == Spec => []RfcNoByteLost
<1>1. RfcInv => RfcNoByteLost
  BY DEF RfcInv, RfcNoByteLost
<1> QED
  BY <1>1, RfcInit, RfcInvariant, PTL DEF Spec

(* Cuts before all headers up to a position, and at no other place. *)
CutUpTo(m) ==
  /\ Rising
  /\ {bounds[n] + 1 : n \in 1..Len(bounds)} = {k \in Headers(stream) : k <= m}

(* The delimiter is within the header from h to e. *)
InHeader(s, l, p, h, e) ==
  \/ s = "priVal0" /\ p = h
  \/ s = "priVal1" /\ p = h + 1 /\ p <= e - 3
  \/ s = "priVal2" /\ p = h + 2 /\ p <= e - 3
  \/ s = "priVal3" /\ p = h + 3 /\ p <= e - 3
  \/ s = "priEnd"  /\ p = h + 4 /\ p <= e - 3
  \/ s = "version" /\ p = e - 2 /\ l = (e - 3) - h
  \/ s = "postVersion" /\ p = e - 1 /\ l = (e - 3) - h

Before == d.state = "newline" /\ bounds = << >> /\ \A j \in 1..pos : stream[j] # "\n"
Between ==
  d.state = "priStart" /\ (\E j \in 1..pos : stream[j] = "\n") /\ CutUpTo(pos)
Within(h, e) ==
  h \in Headers(stream) /\ e \in HeaderEnds(stream, h)
    /\ InHeader(d.state, d.priLen, pos, h, e) /\ CutUpTo(h - 1)

ScanInv ==
  /\ RfcInv
  /\ eof => kind = "rfc5424" /\ pos = Len(stream)
  /\ (kind = "rfc5424" /\ ~eof /\ HeadersOnly(stream)) =>
       Before \/ Between \/ \E h, e : Within(h, e)
  /\ RfcLinesExact

(* A header. *)
LEMMA HeaderIs ==
  ASSUME NEW s \in Seq(RfcByte), NEW h \in 1..Len(s), NEW e \in HeaderEnds(s, h)
  PROVE  /\ h \in Nat /\ e \in Nat /\ h + 4 <= e /\ e <= h + 7 /\ e <= Len(s) /\ 1 <= h
         /\ s[h] = "<" /\ s[e - 2] = ">" /\ s[e - 1] = "digit" /\ s[e] = " "
         /\ \A j \in (h + 1)..(e - 3) : s[j] = "digit"
<1>1. PICK l : l = Len(s) /\ l \in Nat
  OBVIOUS
<1>2. h \in 1..l
  BY <1>1
<1>3. /\ e \in (h + 4)..(h + 7) /\ e <= l
      /\ s[h] = "<" /\ s[e - 2] = ">" /\ s[e - 1] = "digit" /\ s[e] = " "
      /\ \A j \in (h + 1)..(e - 3) : s[j] = "digit"
  BY <1>1, Zenon DEF HeaderEnds
<1>5. e \in (h + 4)..(h + 7) /\ e <= l
  BY <1>3
<1>6. h \in 1..l /\ l \in Nat
  BY <1>1
<1>4. h \in Nat /\ e \in Nat /\ h + 4 <= e /\ e <= h + 7 /\ e <= l /\ 1 <= h
  BY ONLY <1>5, <1>6
<1> QED
  BY <1>1, <1>3, <1>4

(* Headers are where there is a "<" behind a newline. *)
LEMMA HeadersAre ==
  ASSUME NEW s \in Seq(RfcByte)
  PROVE  /\ Headers(s) \subseteq 1..Len(s)
         /\ \A k \in Headers(s) : s[k] = "<" /\ \E j \in 1..(k - 1) : s[j] = "\n"
<1>0. Headers(s) \subseteq 1..Len(s)
  BY Zenon DEF Headers
<1> SUFFICES ASSUME NEW k \in Headers(s)
             PROVE  s[k] = "<" /\ \E j \in 1..(k - 1) : s[j] = "\n"
  BY <1>0
<1>1. k \in 1..Len(s) /\ HeaderEnds(s, k) # {} /\ \E j \in 1..(k - 1) : s[j] = "\n"
  BY Zenon DEF Headers
<1>2. PICK e : e \in HeaderEnds(s, k)
  BY <1>1
<1> QED
  BY <1>1, <1>2, HeaderIs

(* The bounds when a header is cut off, or at the end. *)
LEMMA CutMore ==
  ASSUME bounds \in Seq(Nat), stream \in Seq(RfcByte), stream' = stream,
         NEW m \in Nat, CutUpTo(m),
         NEW b \in Nat, b >= m, bounds' = Append(bounds, b)
  PROVE  Rising' /\ {bounds'[n] + 1 : n \in 1..Len(bounds')}
                      = {k \in Headers(stream) : k <= m} \cup {b + 1}
<1>1. PICK l : l = Len(bounds)
  OBVIOUS
<1>2. /\ l \in Nat /\ Len(bounds') = l + 1
      /\ \A k \in 1..l : bounds'[k] = bounds[k]
      /\ bounds'[l + 1] = b
  BY <1>1, StartsGrow
<1>3. \A k \in 1..(l + 1) : k \in 1..l \/ k = l + 1
  BY ONLY <1>2
<1>4. {bounds[n] + 1 : n \in 1..l} = {k \in Headers(stream) : k <= m} /\ Rising
  BY <1>1 DEF CutUpTo
<1>5. {bounds'[n] + 1 : n \in 1..(l + 1)} = {bounds[n] + 1 : n \in 1..l} \cup {b + 1}
  <2>1. 1..l \subseteq 1..(l + 1) /\ l + 1 \in 1..(l + 1)
    BY ONLY <1>2
  <2> QED
    BY ONLY <2>1, <1>2, <1>3
<1>6. \A n \in 1..l : bounds[n] \in Nat /\ bounds[n] < b
  <2> TAKE n \in 1..l
  <2>1. bounds[n] + 1 \in {k \in Headers(stream) : k <= m}
    BY <1>4
  <2>2. bounds[n] \in Nat
    BY <1>1
  <2>3. m \in Nat /\ b \in Nat /\ b >= m /\ bounds[n] + 1 <= m
    BY <2>1
  <2> QED
    BY ONLY <2>2, <2>3
<1>7. Rising'
  <2> SUFFICES ASSUME NEW n \in 1..(l + 1), NEW k \in 1..(n - 1)
               PROVE  bounds'[k] < bounds'[n]
    BY <1>2 DEF Rising
  <2>1. k \in 1..l
    BY <1>2
  <2>2. CASE n = l + 1
    BY <2>1, <2>2, <1>2, <1>6
  <2>3. CASE n \in 1..l
    <3>1. bounds[k] < bounds[n]
      BY <2>3, <1>1, <1>4 DEF Rising
    <3> QED
      BY <3>1, <2>1, <2>3, <1>2
  <2> QED
    BY <2>2, <2>3, <1>3
<1> QED
  BY <1>2, <1>4, <1>5, <1>7

(* No cut, and no header at the next byte. *)
LEMMA CutSame ==
  ASSUME stream \in Seq(RfcByte), stream' = stream, bounds' = bounds,
         NEW m \in Nat, CutUpTo(m), NEW n \in Nat, m <= n,
         \A k \in (m + 1)..n : k \notin Headers(stream)
  PROVE  CutUpTo(n)'
<1>1. Headers(stream) \subseteq Nat
  BY HeadersAre
<1>2. {k \in Headers(stream) : k <= m} = {k \in Headers(stream) : k <= n}
  <2> SUFFICES ASSUME NEW k \in Headers(stream), k <= n, ~(k <= m) PROVE FALSE
    BY <1>1
  <2>1. k \in (m + 1)..n
    BY <1>1
  <2> QED
    BY <2>1
<1> QED
  BY <1>2 DEF CutUpTo, Rising

(* A byte is read before the first newline, or between two headers. *)
LEMMA ScanOutside ==
  ASSUME RfcTyped, Before \/ Between, HeadersOnly(stream), stream' = stream,
         pos < Len(stream), pos' = pos + 1, NEW b, b = stream[pos + 1],
         d'.state = stateAfter(d.state, b), bounds' = bounds
  PROVE  Before' \/ Between' \/ \E h, e : Within(h, e)'
<1>1. stream \in Seq(RfcByte) /\ pos \in Nat /\ pos + 1 \in 1..Len(stream) /\ b \in RfcByte
  BY DEF RfcTyped
<1>2. \A j \in 1..(pos + 1) : j \in 1..pos \/ j = pos + 1
  BY ONLY <1>1
<1>3. CASE Before /\ b # "\n"
  <2>1. d'.state = "newline"
    BY <1>3 DEF stateAfter, Before
  <2>2. \A j \in 1..(pos + 1) : stream[j] # "\n"
    BY <1>2, <1>3 DEF Before
  <2> QED
    BY <1>3, <2>1, <2>2 DEF Before
<1>4. CASE Before /\ b = "\n"
  <2>1. d'.state = "priStart"
    BY <1>4 DEF stateAfter, Before
  <2>2. \A k \in Headers(stream) : ~(k <= pos + 1)
    <3> SUFFICES ASSUME NEW k \in Headers(stream), k <= pos + 1 PROVE FALSE
      OBVIOUS
    <3>1. k \in 1..Len(stream)
      BY <1>1, HeadersAre
    <3>2. PICK j \in 1..(k - 1) : stream[j] = "\n"
      BY <1>1, HeadersAre
    <3>3. j \in 1..pos
      BY <3>1, <1>1
    <3> QED
      BY <3>2, <3>3, <1>4 DEF Before
  <2>3. CutUpTo(pos)'
    BY <2>2, <1>4, <1>1 DEF CutUpTo, Before, Rising
  <2>4. \E j \in 1..(pos + 1) : stream[j] = "\n"
    <3>1. pos + 1 \in 1..(pos + 1)
      BY ONLY <1>1
    <3> QED
      BY <3>1, <1>4
  <2> QED
    BY <2>1, <2>3, <2>4 DEF Between
<1>5. CASE Between /\ b # "<"
  <2>1. d'.state = "priStart"
    BY <1>5 DEF stateAfter, Between
  <2>2. pos + 1 \notin Headers(stream)
    BY <1>1, <1>5, HeadersAre
  <2>3. CutUpTo(pos)'
    <3>1. PICK q \in Nat : q = pos + 1
      BY <1>1
    <3>2. \A k \in (pos + 1)..q : k \notin Headers(stream)
      BY <3>1, <2>2, <1>1
    <3>3. pos <= q
      BY <3>1, <1>1
    <3>4. PICK m \in Nat : m = pos
      BY <1>1
    <3>5. CutUpTo(q)'
      BY <3>2, <3>3, <3>4, <1>1, <1>5, CutSame DEF Between
    <3> QED
      BY <3>5, <3>1 DEF CutUpTo
  <2>4. \E j \in 1..(pos + 1) : stream[j] = "\n"
    BY <1>5, <1>1 DEF Between
  <2> QED
    BY <2>1, <2>3, <2>4 DEF Between
<1>6. CASE Between /\ b = "<"
  <2>1. d'.state = "priVal0"
    BY <1>6 DEF stateAfter, Between
  <2>2. PICK h : h = pos + 1
    OBVIOUS
  <2>3. PICK e : e \in HeaderEnds(stream, h)
    BY <2>2, <1>1, <1>6 DEF HeadersOnly
  <2>4. h \in 1..Len(stream) /\ \E j \in 1..(h - 1) : stream[j] = "\n"
    BY <2>2, <1>1, <1>6 DEF Between
  <2>5. h \in Headers(stream)
    BY <2>3, <2>4 DEF Headers
  <2>6. InHeader(d'.state, d'.priLen, pos', h, e)
    BY <2>1, <2>2 DEF InHeader
  <2>7. h - 1 = pos
    BY <2>2, <1>1
  <2>8. CutUpTo(h - 1)'
    BY <2>7, <1>6 DEF CutUpTo, Between, Rising
  <2>9. Within(h, e)'
    BY <2>3, <2>5, <2>6, <2>8 DEF Within
  <2> QED
    BY <2>9
<1> QED
  BY <1>3, <1>4, <1>5, <1>6

(* A byte is read within a header. *)
LEMMA ScanWithin ==
  ASSUME RfcTyped, stream' = stream, NEW h, NEW e, Within(h, e),
         pos < Len(stream), pos' = pos + 1, NEW b, b = stream[pos + 1],
         ~(d.state = "postVersion" /\ b = " "),
         Counted(d.state, d.priLen, pos - Start(Len(results) + 1)),
         d'.state = stateAfter(d.state, b), d'.priLen = priLenAfter(d.state, b, d.priLen),
         bounds' = bounds
  PROVE  Within(h, e)'
<1>0. /\ stream \in Seq(RfcByte) /\ pos \in 0..Len(stream)
      /\ d \in [buf : Seq(RfcByte), priLen : 0..4, state : States]
  BY DEF RfcTyped
<1>1. stream \in Seq(RfcByte) /\ pos \in Nat /\ d.priLen \in 0..4
  BY ONLY <1>0
<1>2. h \in Headers(stream) /\ e \in HeaderEnds(stream, h) /\ h \in 1..Len(stream)
      /\ InHeader(d.state, d.priLen, pos, h, e) /\ CutUpTo(h - 1)
  BY <1>1, HeadersAre DEF Within
<1>3. /\ h \in Nat /\ e \in Nat /\ h + 4 <= e /\ e <= h + 7 /\ e <= Len(stream) /\ 1 <= h
      /\ stream[h] = "<" /\ stream[e - 2] = ">" /\ stream[e - 1] = "digit" /\ stream[e] = " "
      /\ \A j \in (h + 1)..(e - 3) : stream[j] = "digit"
  BY <1>1, <1>2, HeaderIs
<1>4. (pos + 1 \in (h + 1)..(e - 3) => b = "digit") /\ (pos + 1 = e - 2 => b = ">")
       /\ (pos + 1 = e - 1 => b = "digit") /\ (pos + 1 = e => b = " ")
  BY <1>3
<1>5. InHeader(d'.state, d'.priLen, pos + 1, h, e)
  <2>1. PICK s, l, t, m, p :
          /\ s = d.state /\ l = d.priLen /\ t = d'.state /\ m = d'.priLen /\ p = pos
    OBVIOUS
  <2>2. p \in Nat /\ l \in 0..4 /\ h \in Nat /\ e \in Nat /\ h + 4 <= e /\ e <= h + 7
    BY <2>1, <1>1, <1>3
  <2>4. /\ t = stateAfter(s, b) /\ m = priLenAfter(s, b, l)
        /\ (p + 1 \in (h + 1)..(e - 3) => b = "digit") /\ (p + 1 = e - 2 => b = ">")
        /\ (p + 1 = e - 1 => b = "digit") /\ (p + 1 = e => b = " ")
        /\ InHeader(s, l, p, h, e)
        /\ ~(s = "postVersion" /\ b = " ")
    BY <2>1, <1>2, <1>4
  <2>5. s \in {"priVal1", "priVal2", "priVal3", "priEnd"} =>
          l = CASE s = "priVal1" -> 1 [] s = "priVal2" -> 2 [] s = "priVal3" -> 3 [] s = "priEnd" -> 4
    BY <2>1 DEF Counted
  <2>3. InHeader(t, m, p + 1, h, e)
    <3>1. CASE s = "priVal0" /\ p = h
      <4>1. p + 1 \in (h + 1)..(e - 3) /\ p + 1 = h + 1 /\ p + 1 <= e - 3
        BY ONLY <2>2, <3>1
      <4>2. t = "priVal1"
        BY <4>1, <2>4, <3>1 DEF stateAfter
      <4> QED
        BY <4>1, <4>2 DEF InHeader
    <3>2. CASE s = "priVal1" /\ p = h + 1 /\ p <= e - 3
      <4>1. CASE p + 1 <= e - 3
        <5>1. p + 1 \in (h + 1)..(e - 3) /\ p + 1 = h + 2
          BY ONLY <2>2, <3>2, <4>1
        <5>2. t = "priVal2"
          BY <5>1, <2>2, <2>4, <3>2 DEF stateAfter
        <5> QED
          BY <5>1, <5>2, <4>1 DEF InHeader
      <4>2. CASE ~(p + 1 <= e - 3)
        <5>1. p + 1 = e - 2 /\ (e - 3) - h = 1
          BY ONLY <2>2, <3>2, <4>2
        <5>2. t = "version" /\ m = 1
          BY <5>1, <2>4, <2>5, <3>2 DEF stateAfter, priLenAfter
        <5> QED
          BY <5>1, <5>2 DEF InHeader
      <4> QED
        BY <4>1, <4>2
    <3>3. CASE s = "priVal2" /\ p = h + 2 /\ p <= e - 3
      <4>1. CASE p + 1 <= e - 3
        <5>1. p + 1 \in (h + 1)..(e - 3) /\ p + 1 = h + 3
          BY ONLY <2>2, <3>3, <4>1
        <5>2. t = "priVal3"
          BY <5>1, <2>2, <2>4, <3>3 DEF stateAfter
        <5> QED
          BY <5>1, <5>2, <4>1 DEF InHeader
      <4>2. CASE ~(p + 1 <= e - 3)
        <5>1. p + 1 = e - 2 /\ (e - 3) - h = 2
          BY ONLY <2>2, <3>3, <4>2
        <5>2. t = "version" /\ m = 2
          BY <5>1, <2>4, <2>5, <3>3 DEF stateAfter, priLenAfter
        <5> QED
          BY <5>1, <5>2 DEF InHeader
      <4> QED
        BY <4>1, <4>2
    <3>4. CASE s = "priVal3" /\ p = h + 3 /\ p <= e - 3
      <4>1. CASE p + 1 <= e - 3
        <5>1. p + 1 \in (h + 1)..(e - 3) /\ p + 1 = h + 4
          BY ONLY <2>2, <3>4, <4>1
        <5>2. t = "priEnd"
          BY <5>1, <2>2, <2>4, <3>4 DEF stateAfter
        <5> QED
          BY <5>1, <5>2, <4>1 DEF InHeader
      <4>2. CASE ~(p + 1 <= e - 3)
        <5>1. p + 1 = e - 2 /\ (e - 3) - h = 3
          BY ONLY <2>2, <3>4, <4>2
        <5>2. t = "version" /\ m = 3
          BY <5>1, <2>4, <2>5, <3>4 DEF stateAfter, priLenAfter
        <5> QED
          BY <5>1, <5>2 DEF InHeader
      <4> QED
        BY <4>1, <4>2
    <3>5. CASE s = "priEnd"  /\ p = h + 4 /\ p <= e - 3
      <4>1. p + 1 = e - 2 /\ (e - 3) - h = 4
        BY ONLY <2>2, <3>5
      <4>2. t = "version" /\ m = 4
        BY <4>1, <2>4, <2>5, <3>5 DEF stateAfter, priLenAfter
      <4> QED
        BY <4>1, <4>2 DEF InHeader
    <3>6. CASE s = "version" /\ p = e - 2 /\ l = (e - 3) - h
      <4>1. p + 1 = e - 1
        BY ONLY <2>2, <3>6
      <4>2. t = "postVersion" /\ m = l
        BY <4>1, <2>4, <3>6 DEF stateAfter, priLenAfter
      <4> QED
        BY <4>1, <4>2, <3>6 DEF InHeader
    <3>7. CASE s = "postVersion" /\ p = e - 1 /\ l = (e - 3) - h
      <4>1. p + 1 = e
        BY ONLY <2>2, <3>7
      <4> QED
        BY <4>1, <2>4, <3>7
    <3> QED
      BY <2>4, <3>1, <3>2, <3>3, <3>4, <3>5, <3>6, <3>7 DEF InHeader
  <2> QED
    BY <2>1, <2>3
<1>6. CutUpTo(h - 1)'
  BY <1>2 DEF CutUpTo, Rising
<1> QED
  BY <1>2, <1>5, <1>6 DEF Within

(* The header is complete, and ReadLine cuts before it. *)
LEMMA ScanCut ==
  ASSUME RfcTyped, stream' = stream, NEW h, NEW e, Within(h, e),
         pos < Len(stream), pos' = pos + 1, d.state = "postVersion",
         d'.state = "priStart", bounds' = Append(bounds, pos - (d.priLen + 3))
  PROVE  Between'
<1>0. /\ stream \in Seq(RfcByte) /\ pos \in 0..Len(stream) /\ bounds \in Seq(Nat)
      /\ d \in [buf : Seq(RfcByte), priLen : 0..4, state : States]
  BY DEF RfcTyped
<1>1. stream \in Seq(RfcByte) /\ pos \in Nat /\ d.priLen \in 0..4
  BY ONLY <1>0
<1>2. h \in Headers(stream) /\ e \in HeaderEnds(stream, h) /\ h \in 1..Len(stream)
      /\ InHeader(d.state, d.priLen, pos, h, e) /\ CutUpTo(h - 1)
  BY <1>1, HeadersAre DEF Within
<1>3. /\ h \in Nat /\ e \in Nat /\ h + 4 <= e /\ e <= h + 7 /\ e <= Len(stream) /\ 1 <= h
      /\ stream[h] = "<" /\ stream[e - 2] = ">" /\ stream[e - 1] = "digit" /\ stream[e] = " "
      /\ \A j \in (h + 1)..(e - 3) : stream[j] = "digit"
  BY <1>1, <1>2, HeaderIs
<1>4. pos = e - 1 /\ d.priLen = (e - 3) - h
  BY <1>2 DEF InHeader
<1>14. h \in Nat /\ e \in Nat /\ h + 4 <= e /\ 1 <= h
  BY <1>3
<1>15. h - 1 \in Nat
  BY ONLY <1>14
<1>5. PICK m \in Nat : m = h - 1
  BY <1>15
<1>6. pos - (d.priLen + 3) = m /\ pos + 1 = e
  <2>1. PICK q : q = d.priLen
    OBVIOUS
  <2>2. q = (e - 3) - h /\ pos = e - 1 /\ h \in Nat /\ e \in Nat /\ m = h - 1
    BY <2>1, <1>3, <1>4, <1>5
  <2>3. pos - (q + 3) = m /\ pos + 1 = e
    BY ONLY <2>2
  <2> QED
    BY <2>1, <2>3
<1>7. /\ Rising'
      /\ {bounds'[n] + 1 : n \in 1..Len(bounds')} = {k \in Headers(stream) : k <= m} \cup {m + 1}
  <2>1. bounds' = Append(bounds, m) /\ CutUpTo(m) /\ m >= m /\ stream' = stream
    BY <1>2, <1>5, <1>6
  <2> QED
    BY ONLY <2>1, <1>0, <1>5, CutMore
<1>8. \A k \in Headers(stream) : k <= e <=> k <= m \/ k = m + 1
  <2> TAKE k \in Headers(stream)
  <2>1. k \in Nat /\ stream[k] = "<"
    BY <1>1, HeadersAre
  <2>2. k \notin (h + 1)..(e - 3) /\ k # e - 2 /\ k # e - 1 /\ k # e
    BY <2>1, <1>3
  <2>3. h \in Nat /\ e \in Nat /\ h + 4 <= e /\ m = h - 1
    BY <1>3, <1>5
  <2> QED
    BY ONLY <2>1, <2>2, <2>3
<1>9. m + 1 = h
  BY ONLY <1>14, <1>5
<1>10. {k \in Headers(stream) : k <= m} \cup {m + 1} = {k \in Headers(stream) : k <= e}
  BY ONLY <1>2, <1>8, <1>9
<1>11. CutUpTo(pos)'
  BY <1>6, <1>7, <1>10 DEF CutUpTo
<1>12. PICK j \in 1..(h - 1) : stream[j] = "\n"
  BY <1>1, <1>2, HeadersAre
<1>13. j \in 1..pos'
  <2>1. j \in 1..(h - 1)
    OBVIOUS
  <2>2. j \in 1..e
    BY ONLY <2>1, <1>14
  <2> QED
    BY <2>2, <1>6
<1> QED
  BY <1>11, <1>12, <1>13 DEF Between

(* Up to the first newline there is no header. *)
LEMMA BeforeCut ==
  ASSUME RfcTyped, Before
  PROVE  CutUpTo(pos)
<1>1. stream \in Seq(RfcByte) /\ pos \in Nat
  BY DEF RfcTyped
<1>2. \A k \in Headers(stream) : ~(k <= pos)
  <2> SUFFICES ASSUME NEW k \in Headers(stream), k <= pos PROVE FALSE
    OBVIOUS
  <2>1. k \in 1..Len(stream)
    BY <1>1, HeadersAre
  <2>2. PICK j \in 1..(k - 1) : stream[j] = "\n"
    BY <1>1, HeadersAre
  <2>3. j \in 1..pos
    BY <2>1, <1>1
  <2> QED
    BY <2>2, <2>3 DEF Before
<1> QED
  BY <1>2 DEF CutUpTo, Before, Rising

(* At the end of the stream no header is open, and the rest is returned. *)
LEMMA ScanEnd ==
  ASSUME RfcTyped, stream' = stream, pos = Len(stream),
         Before \/ Between \/ \E h, e : Within(h, e),
         bounds' = Append(bounds, pos), Len(results') = Len(results) + 1
  PROVE  RfcLinesExact'
<1>0. /\ stream \in Seq(RfcByte) /\ pos \in Nat /\ bounds \in Seq(Nat)
      /\ Len(bounds) = Len(results)
  BY DEF RfcTyped
<1>1. \A h, e : ~Within(h, e)
  <2> SUFFICES ASSUME NEW h, NEW e, Within(h, e) PROVE FALSE
    OBVIOUS
  <2>1. h \in 1..Len(stream) /\ e \in HeaderEnds(stream, h)
        /\ InHeader(d.state, d.priLen, pos, h, e)
    BY <1>0, HeadersAre DEF Within
  <2>2. h \in Nat /\ e \in Nat /\ h + 4 <= e /\ e <= Len(stream)
    BY <1>0, <2>1, HeaderIs
  <2>3. pos < e
    BY <2>1, <2>2, <1>0 DEF InHeader
  <2>4. e <= pos
    BY <2>2
  <2> QED
    BY ONLY <2>2, <2>3, <2>4, <1>0
<1>2. CutUpTo(pos)
  BY <1>1, BeforeCut DEF Between
<1>3. Rising'
  <2>1. pos >= pos
    BY <1>0
  <2>2. PICK m \in Nat : m = pos
    BY <1>0
  <2> QED
    BY <2>1, <2>2, <1>0, <1>2, CutMore
<1>4. PICK l : l = Len(bounds)
  OBVIOUS
<1>5. /\ l \in Nat /\ Len(bounds') = l + 1
      /\ \A k \in 1..l : bounds'[k] = bounds[k]
      /\ bounds'[l + 1] = pos
  BY <1>0, <1>4, StartsGrow
<1>6. Len(results') = l + 1 /\ (l + 1) - 1 = l /\ l + 1 > 0
  BY <1>0, <1>4, <1>5
<1>7. {bounds'[n] + 1 : n \in 1..l} = {bounds[n] + 1 : n \in 1..l}
  BY <1>5
<1>8. {k \in Headers(stream) : k <= pos} = Headers(stream)
  BY <1>0, HeadersAre
<1>9. {bounds'[n] + 1 : n \in 1..l} = Headers(stream)
  BY <1>2, <1>4, <1>7, <1>8 DEF CutUpTo
<1> QED
  BY <1>3, <1>5, <1>6, <1>9 DEF RfcLinesExact

(* Each step keeps the cuts right. *)
LEMMA ScanInvariant == ScanInv /\ [Next]_vars => ScanInv'
<1> SUFFICES ASSUME ScanInv, [Next]_vars PROVE ScanInv'
  OBVIOUS
<1>1. RfcInv /\ RfcInv'
  BY RfcInvariant DEF ScanInv
<1>2. PICK a, b : a = Start(Len(results) + 1) /\ b = stream[pos + 1]
  OBVIOUS
<1>3. CASE ReadLine
  <2>1. /\ kind = "rfc5424" /\ kind' = kind /\ stream' = stream /\ eof' = eof
        /\ pos < Len(stream) /\ pos' = pos + 1 /\ pos + 1 <= Len(stream)
    BY <1>1, <1>2, <1>3, ReadLineIs
  <2>2. RfcTyped /\ Counted(d.state, d.priLen, pos - Start(Len(results) + 1))
    BY <1>1, <2>1 DEF RfcInv
  <2>3. ~eof
    <3>1. pos # Len(stream)
      BY <2>1, <2>2 DEF RfcTyped
    <3> QED
      BY <3>1 DEF ScanInv
  <2> SUFFICES ASSUME HeadersOnly(stream) PROVE Before' \/ Between' \/ \E h, e : Within(h, e)'
    BY <1>1, <2>1, <2>3 DEF ScanInv, RfcLinesExact
  <2>4. Before \/ Between \/ \E h, e : Within(h, e)
    BY <2>1, <2>3 DEF ScanInv
  <2>5. CASE d.state = "postVersion" /\ b = " "
    <3>1. PICK h, e : Within(h, e)
      BY <2>4, <2>5 DEF Before, Between
    <3>2. PICK n \in Nat :
            /\ a + n = pos - (d.priLen + 3)
            /\ n <= (pos + 1) - a
            /\ d' = [buf |-> SubSeq(SubSeq(stream, a + 1, pos + 1), n + 1, (pos + 1) - a),
                     priLen |-> 0, state |-> "priStart"]
            /\ results' = Append(results, TrimLine(SubSeq(SubSeq(stream, a + 1, pos + 1), 1, n)))
            /\ bounds' = Append(bounds, (pos + 1) - Len(d'.buf))
      BY <1>1, <1>2, <1>3, <2>5, ReadLineIs
    <3>3. PICK p \in Nat : p = pos + 1 /\ pos <= p
      BY <2>2 DEF RfcTyped
    <3>4. p - Len(d'.buf) = a + n
      BY <1>1, <1>2, <2>1, <3>2, <3>3, RfcCut
    <3>5. bounds' = Append(bounds, pos - (d.priLen + 3))
      BY <3>2, <3>3, <3>4
    <3>6. d'.state = "priStart"
      BY <3>2
    <3>7. Between'
      BY <2>1, <2>2, <2>5, <3>1, <3>5, <3>6, ScanCut
    <3> QED
      BY <3>7
  <2>6. CASE ~(d.state = "postVersion" /\ b = " ")
    <3>1. /\ d' = [d EXCEPT !.buf = Append(d.buf, b), !.state = stateAfter(d.state, b),
                            !.priLen = priLenAfter(d.state, b, d.priLen)]
          /\ bounds' = bounds
      BY <1>1, <1>2, <1>3, <2>6, ReadLineIs
    <3>2. d'.state = stateAfter(d.state, b) /\ d'.priLen = priLenAfter(d.state, b, d.priLen)
      BY <3>1, <2>2 DEF RfcTyped
    <3>3. CASE Before \/ Between
      BY <1>2, <2>1, <2>2, <3>1, <3>2, <3>3, ScanOutside
    <3>4. CASE \E h, e : Within(h, e)
      <4>1. PICK h, e : Within(h, e)
        BY <3>4
      <4>2. Within(h, e)'
        BY <1>2, <2>1, <2>2, <2>6, <3>1, <3>2, <4>1, ScanWithin
      <4> QED
        BY <4>2
    <3> QED
      BY <2>4, <3>3, <3>4
  <2> QED
    BY <2>5, <2>6
<1>4. CASE ReadLineEOF
  <2>1. /\ kind = "rfc5424" /\ kind' = kind /\ stream' = stream /\ eof' /\ ~eof
        /\ pos' = pos /\ pos \in Nat /\ pos <= pos /\ pos = Len(stream) /\ pos <= Len(stream)
        /\ pos - a \in Nat /\ pos - a <= pos - a /\ a + (pos - a) = pos
        /\ d' = [buf |-> SubSeq(SubSeq(stream, a + 1, pos), (pos - a) + 1, pos - a),
                 priLen |-> 0, state |-> "priStart"]
        /\ results' = Append(results, TrimLine(SubSeq(SubSeq(stream, a + 1, pos), 1, pos - a)))
        /\ bounds' = Append(bounds, pos - Len(d'.buf))
    BY <1>1, <1>2, <1>4, ReadLineEOFIs
  <2>2. RfcTyped /\ RfcTyped'
    BY <1>1, <2>1 DEF RfcInv
  <2>3. pos - Len(d'.buf) = pos
    BY <1>1, <1>2, <2>1, RfcCut
  <2>4. Len(results') = Len(results) + 1
    <3>1. results \in Seq(RfcLine) /\ results' \in Seq(RfcLine)
      BY <2>2 DEF RfcTyped
    <3>2. PICK r : results' = Append(results, r)
      BY <2>1
    <3>3. Len(bounds') = Len(bounds) + 1
      BY <2>1, <2>2, <2>3 DEF RfcTyped
    <3> QED
      BY <3>3, <2>2 DEF RfcTyped
  <2>5. HeadersOnly(stream) => RfcLinesExact'
    BY <2>1, <2>2, <2>3, <2>4, ScanEnd DEF ScanInv
  <2>6. RfcLinesExact'
    BY <2>1, <2>5 DEF RfcLinesExact
  <2> QED
    BY <1>1, <2>1, <2>6 DEF ScanInv
<1>5. CASE Push \/ Reset \/ LexNext
  <2>1. kind # "rfc5424" /\ kind' = kind /\ eof' = eof
    BY <1>5 DEF Push, Reset, LexNext
  <2>2. ~eof'
    BY <2>1 DEF ScanInv
  <2> QED
    BY <1>1, <2>1, <2>2 DEF ScanInv, RfcLinesExact
<1>6. CASE UNCHANGED vars
  <2>1. /\ kind' = kind /\ stream' = stream /\ pos' = pos /\ eof' = eof
        /\ bounds' = bounds /\ results' = results /\ d' = d
    BY <1>6 DEF vars
  <2>2. RfcLinesExact' <=> RfcLinesExact
    BY <2>1 DEF RfcLinesExact, Rising
  <2>3. /\ (Before' <=> Before) /\ (Between' <=> Between)
        /\ \A h, e : Within(h, e)' <=> Within(h, e)
    BY <2>1 DEF Before, Between, Within, CutUpTo, Rising
  <2> QED
    BY <1>1, <2>1, <2>2, <2>3 DEF ScanInv
<1> QED
  BY <1>3, <1>4, <1>5, <1>6 DEF Next, Done

(* ReadLine cuts before each header, once, and nowhere else, for every     *)
(* stream in which "<" begins a header and nothing else: the bytes it cuts *)
(* off are those that priLen counts.                                       *)
THEOREM LinesExact == Spec => []RfcLinesExact
<1>1. Init => ScanInv
  <2> SUFFICES ASSUME Init PROVE ScanInv
    OBVIOUS
  <2>1. RfcInv /\ ~eof /\ pos = 0 /\ bounds = << >>
    BY RfcInit DEF Init
  <2>2. kind = "rfc5424" => d.state = "newline"
    BY DEF Init, NewDelimiter
  <2>3. kind = "rfc5424" => Before
    BY <2>1, <2>2 DEF Before
  <2> QED
    BY <2>1, <2>3 DEF ScanInv, RfcLinesExact
<1>2. ScanInv => RfcLinesExact
  BY DEF ScanInv
<1> QED
  BY <1>1, <1>2, ScanInvariant, PTL DEF Spec

-----------------------------------------------------------------------------
(* The NetstrDelimiter.                                                    *)

NetByte == STRING \cup {":", ";"} \cup {Digits[k] : k \in 1..10}

(* A function can be defined step by step. *)
LEMMA Recursion ==
  ASSUME NEW S, NEW base \in S, NEW N \in Nat, NEW G \in [1..N -> [S -> S]]
  PROVE  \E f \in [0..N -> S] : f[0] = base /\ \A k \in 1..N : f[k] = G[k][f[k - 1]]
<1> DEFINE Good(x) == \E f \in [0..x -> S] : f[0] = base /\ \A k \in 1..x : f[k] = G[k][f[k - 1]]
           Bad == {x \in 0..N : ~Good(x)}
<1> SUFFICES ASSUME Bad # {} PROVE FALSE
  <2>1. N \in 0..N
    OBVIOUS
  <2> QED
    BY <2>1
<1>1. Bad \in SUBSET Nat
  OBVIOUS
<1>2. PICK x \in Bad : \A y \in Bad : x <= y
  BY <1>1, LeastNumber
<1>3. x \in 0..N /\ ~Good(x)
  BY <1>2
<1>4. CASE x = 0
  <2> DEFINE f == [k \in 0..0 |-> base]
  <2>1. f \in [0..0 -> S] /\ f[0] = base /\ \A k \in 1..0 : f[k] = G[k][f[k - 1]]
    OBVIOUS
  <2>2. Good(0)
    BY <2>1
  <2> QED
    BY <1>3, <1>4, <2>2
<1>5. CASE x > 0
  <2>1. x - 1 \in 0..N /\ x \in 1..N /\ x \in Nat /\ x - 1 < x /\ x - 1 \in 0..(x - 1)
    BY <1>3, <1>5
  <2>2. Good(x - 1)
    <3>1. x - 1 \in Bad => x <= x - 1
      BY <1>2, Zenon
    <3>2. x - 1 \notin Bad
      BY ONLY <2>1, <3>1
    <3> QED
      BY <2>1, <3>2
  <2>3. PICK g \in [0..(x - 1) -> S] : g[0] = base /\ \A k \in 1..(x - 1) : g[k] = G[k][g[k - 1]]
    BY <2>2
  <2> DEFINE f == [k \in 0..x |-> IF k = x THEN G[x][g[x - 1]] ELSE g[k]]
  <2>4. G[x][g[x - 1]] \in S
    BY <2>1, <2>3
  <2>5. \A k \in 0..x : k # x => k \in 0..(x - 1)
    BY ONLY <2>1
  <2>6. f \in [0..x -> S]
    BY <2>3, <2>4, <2>5
  <2>7. f[0] = base
    BY <2>1, <2>3
  <2>8. ASSUME NEW k \in 1..x PROVE f[k] = G[k][f[k - 1]]
    <3>1. k - 1 \in 0..x /\ k - 1 # x /\ k \in 0..x
      BY <2>1
    <3>2. f[k - 1] = g[k - 1]
      BY <3>1
    <3>3. CASE k = x
      BY <3>1, <3>2, <3>3
    <3>4. CASE k # x
      <4>1. k \in 1..(x - 1)
        BY <3>4, <2>1
      <4> QED
        BY <4>1, <3>1, <3>2, <3>4, <2>3
    <3> QED
      BY <3>3, <3>4
  <2>9. Good(x)
    BY <2>6, <2>7, <2>8
  <2> QED
    BY <1>3, <2>9
<1> QED
  BY <1>3, <1>4, <1>5

(* Induction up to N, for a set. *)
LEMMA StepByStep ==
  ASSUME NEW N \in Nat, NEW K \in SUBSET (0..N), 0 \in K,
         \A k \in 1..N : k - 1 \in K => k \in K
  PROVE  \A k \in 0..N : k \in K
<1> DEFINE Bad == (0..N) \ K
<1> SUFFICES ASSUME Bad # {} PROVE FALSE
  OBVIOUS
<1>1. Bad \in SUBSET Nat
  OBVIOUS
<1>2. PICK k \in Bad : \A j \in Bad : k <= j
  BY <1>1, LeastNumber
<1>3. k \in 0..N /\ k \notin K
  BY <1>2
<1>4. k \in 1..N /\ k - 1 \in 0..N /\ k \in Nat
  BY <1>3
<1>5. k - 1 \notin Bad
  <2>1. k - 1 \in Bad => k <= k - 1
    BY <1>2, Zenon
  <2> QED
    BY ONLY <1>4, <2>1
<1> QED
  BY <1>3, <1>4, <1>5

(* Digits. *)
LEMMA DigitIs ==
  /\ ~IsDigit(":")
  /\ \A k \in 1..10 : IsDigit(Digits[k]) /\ Digit(Digits[k]) = k - 1
  /\ \A b : IsDigit(b) => Digit(b) \in 0..9
<1>1. ~IsDigit(":")
  BY DEF IsDigit, Digits
<1>2. \A j, k \in 1..10 : Digits[j] = Digits[k] => j = k
  BY DEF Digits
<1>3. \A k \in 1..10 : IsDigit(Digits[k])
  BY DEF IsDigit
<1>4. \A b : IsDigit(b) => \E k \in 1..10 : Digits[k] = b /\ Digit(b) = k - 1
  <2> SUFFICES ASSUME NEW b, IsDigit(b) PROVE \E k \in 1..10 : Digits[k] = b /\ Digit(b) = k - 1
    OBVIOUS
  <2>1. \E k \in 1..10 : Digits[k] = b
    BY DEF IsDigit
  <2> DEFINE k == CHOOSE k \in 1..10 : Digits[k] = b
  <2>2. k \in 1..10 /\ Digits[k] = b
    BY <2>1, Zenon
  <2>3. Digit(b) = k - 1
    BY DEF Digit
  <2> HIDE DEF k
  <2> QED
    BY <2>2, <2>3
<1>5. \A b : IsDigit(b) => Digit(b) \in 0..9
  BY <1>4
<1>6. \A k \in 1..10 : Digit(Digits[k]) = k - 1
  BY <1>2, <1>3, <1>4
<1> QED
  BY <1>1, <1>3, <1>5, <1>6

AllDigits(s) == \A k \in 1..Len(s) : IsDigit(s[k])

(* Atoi takes a digit at a time. *)
LEMMA AtoiSteps ==
  ASSUME NEW S, NEW s \in Seq(S), AllDigits(s), NEW N, N = Len(s)
  PROVE  \E f \in [0..N -> Nat] :
           /\ f[0] = 0
           /\ \A k \in 1..N : f[k] = 10 * f[k - 1] + Digit(s[k])
           /\ Atoi(s) = f[N]
<1>1. N \in Nat /\ \A k \in 1..N : Digit(s[k]) \in 0..9
  BY DigitIs DEF AllDigits
<1> DEFINE G == [k \in 1..N |-> [v \in Nat |-> 10 * v + Digit(s[k])]]
<1>2. \A k \in 1..N : \A v \in Nat : 10 * v + Digit(s[k]) \in Nat
  BY <1>1
<1>3. G \in [1..N -> [Nat -> Nat]]
  BY <1>2
<1>4. PICK f \in [0..N -> Nat] : f[0] = 0 /\ \A k \in 1..N : f[k] = G[k][f[k - 1]]
  <2>1. PICK T, z : T = Nat /\ z = 0
    OBVIOUS
  <2> HIDE DEF G
  <2>2. z \in T /\ N \in Nat /\ G \in [1..N -> [T -> T]]
    BY <2>1, <1>1, <1>3
  <2>3. \E f \in [0..N -> T] : f[0] = z /\ \A k \in 1..N : f[k] = G[k][f[k - 1]]
    BY ONLY <2>2, Recursion
  <2> QED
    BY <2>1, <2>3
<1>5. \A k \in 1..N : k - 1 \in 0..N /\ f[k - 1] \in Nat
  BY <1>1
<1>6. \A k \in 1..N : f[k] = 10 * f[k - 1] + Digit(s[k])
  BY <1>4, <1>5
<1> HIDE DEF G
<1> DEFINE V == CHOOSE v : v = [k \in 0..N |-> IF k = 0 THEN 0 ELSE 10 * v[k - 1] + Digit(s[k])]
<1>7. f = [k \in 0..N |-> IF k = 0 THEN 0 ELSE 10 * f[k - 1] + Digit(s[k])]
  <2>1. \A k \in 0..N : f[k] = IF k = 0 THEN 0 ELSE 10 * f[k - 1] + Digit(s[k])
    <3> TAKE k \in 0..N
    <3>1. k = 0 \/ k \in 1..N
      BY <1>1
    <3> QED
      BY <3>1, <1>4, <1>6
  <2> QED
    BY <2>1
<1>8. V = [k \in 0..N |-> IF k = 0 THEN 0 ELSE 10 * V[k - 1] + Digit(s[k])]
  BY <1>7
<1>9. Atoi(s) = V[N]
  BY DEF Atoi
<1> HIDE DEF V
<1>10. V[0] = 0 /\ \A k \in 1..N : V[k] = 10 * V[k - 1] + Digit(s[k])
  <2>1. \A k \in 0..N : V[k] = IF k = 0 THEN 0 ELSE 10 * V[k - 1] + Digit(s[k])
    BY <1>8, Zenon
  <2>2. 0 \in 0..N /\ \A k \in 1..N : k \in 0..N /\ k # 0
    BY <1>1
  <2> QED
    BY <2>1, <2>2, Zenon
<1>11. \A k \in 0..N : V[k] = f[k]
  <2>1. V[0] = f[0] /\ \A k \in 1..N : V[k - 1] = f[k - 1] => V[k] = f[k]
    BY <1>4, <1>6, <1>10
  <2> DEFINE K == {k \in 0..N : V[k] = f[k]}
  <2>2. K \in SUBSET (0..N) /\ 0 \in K
    BY <2>1, <1>1
  <2>3. \A k \in 1..N : k - 1 \in K => k \in K
    BY <2>1, <1>1
  <2>4. \A k \in 0..N : k \in K
    <3> HIDE DEF K
    <3> QED
      BY ONLY <1>1, <2>2, <2>3, StepByStep
  <2> QED
    BY <2>4
<1>12. V[N] = f[N]
  BY <1>1, <1>11
<1> QED
  BY <1>4, <1>6, <1>9, <1>12

(* What Atoi computes. *)
LEMMA AtoiIs ==
  ASSUME NEW S, NEW s \in Seq(S), AllDigits(s)
  PROVE  /\ Atoi(s) \in Nat
         /\ s = << >> => Atoi(s) = 0
         /\ \A b \in S : IsDigit(b) => Atoi(Append(s, b)) = 10 * Atoi(s) + Digit(b)
<1>1. PICK N : N = Len(s) /\ N \in Nat
  OBVIOUS
<1>2. PICK f \in [0..N -> Nat] :
           /\ f[0] = 0
           /\ \A k \in 1..N : f[k] = 10 * f[k - 1] + Digit(s[k])
           /\ Atoi(s) = f[N]
  BY <1>1, AtoiSteps
<1>3. Atoi(s) \in Nat /\ (s = << >> => Atoi(s) = 0)
  <2>1. N \in 0..N /\ (s = << >> => N = 0)
    BY <1>1
  <2> QED
    BY <2>1, <1>2
<1>4. ASSUME NEW b \in S, IsDigit(b) PROVE Atoi(Append(s, b)) = 10 * Atoi(s) + Digit(b)
  <2> DEFINE t == Append(s, b)
  <2>1. /\ t \in Seq(S) /\ Len(t) = N + 1
        /\ \A k \in 1..N : t[k] = s[k]
        /\ t[N + 1] = b
    BY <1>1, Appended
  <2> HIDE DEF t
  <2>2. \A k \in 1..(N + 1) : k \in 1..N \/ k = N + 1
    BY <1>1
  <2>3. AllDigits(t)
    BY <1>1, <1>4, <2>1, <2>2 DEF AllDigits
  <2>4. PICK g \in [0..(N + 1) -> Nat] :
           /\ g[0] = 0
           /\ \A k \in 1..(N + 1) : g[k] = 10 * g[k - 1] + Digit(t[k])
           /\ Atoi(t) = g[N + 1]
    BY <2>1, <2>3, AtoiSteps
  <2>5. \A k \in 0..N : f[k] = g[k]
    <3>1. \A k \in 1..N : f[k - 1] = g[k - 1] => f[k] = g[k]
      <4> TAKE k \in 1..N
      <4>1. k \in 1..(N + 1)
        BY <1>1
      <4> QED
        BY <4>1, <1>2, <2>1, <2>4
    <3> DEFINE K == {k \in 0..N : f[k] = g[k]}
    <3>2. K \in SUBSET (0..N) /\ 0 \in K
      BY <1>1, <1>2, <2>4
    <3>3. \A k \in 1..N : k - 1 \in K => k \in K
      BY <3>1, <1>1
    <3>4. \A k \in 0..N : k \in K
      <4> HIDE DEF K
      <4> QED
        BY ONLY <1>1, <3>2, <3>3, StepByStep
    <3> QED
      BY <3>4
  <2>6. N + 1 \in 1..(N + 1) /\ (N + 1) - 1 = N /\ N \in 0..N
    BY <1>1
  <2>7. g[N + 1] = 10 * g[N] + Digit(b)
    BY <2>1, <2>4, <2>6
  <2> QED
    BY <1>2, <2>4, <2>5, <2>6, <2>7 DEF t
<1> QED
  BY <1>3, <1>4

DigitByte == {Digits[k] : k \in 1..10}

(* Division by ten. *)
LEMMA Tenth ==
  ASSUME NEW n \in Nat
  PROVE  /\ n \div 10 \in Nat /\ (n % 10) \in 0..9
         /\ n = 10 * (n \div 10) + (n % 10)
         /\ n >= 10 => n \div 10 < n
  OBVIOUS

(* The step of the recursion of Decimal. *)
Expand(h, n) ==
  IF n < 10 THEN <<Digits[n + 1]>> ELSE Append(h[n \div 10], Digits[(n % 10) + 1])

DecimalUpTo(n) ==
  {h \in [0..n -> Seq(DigitByte)] : \A k \in 0..n : h[k] = Expand(h, k)}

(* A step. *)
LEMMA ExpandIs ==
  ASSUME NEW n \in Nat, NEW h, n >= 10 => h[n \div 10] \in Seq(DigitByte)
  PROVE  Expand(h, n) \in Seq(DigitByte)
<1>1. CASE n < 10
  <2>1. n + 1 \in 1..10
    BY <1>1
  <2>2. Digits[n + 1] \in DigitByte
    BY <2>1 DEF DigitByte
  <2> HIDE DEF DigitByte
  <2> QED
    BY <1>1, <2>2 DEF Expand
<1>2. CASE n >= 10
  <2>1. (n % 10) + 1 \in 1..10
    BY Tenth
  <2>2. Digits[(n % 10) + 1] \in DigitByte
    BY <2>1 DEF DigitByte
  <2>3. ~(n < 10)
    BY <1>2
  <2> QED
    BY <1>2, <2>2, <2>3 DEF Expand
<1> QED
  BY <1>1, <1>2

(* There are numerals up to every number. *)
LEMMA DecimalExists ==
  ASSUME NEW n \in Nat
  PROVE  DecimalUpTo(n) # {}
<1> DEFINE Bad == {m \in Nat : DecimalUpTo(m) = {}}
<1> SUFFICES ASSUME Bad # {} PROVE FALSE
  OBVIOUS
<1>1. PICK m \in Bad : \A k \in Bad : m <= k
  BY LeastNumber
<1>2. CASE m = 0
  <2> DEFINE h == [k \in 0..0 |-> <<Digits[1]>>]
  <2>1. Digits[1] \in DigitByte
    BY DEF DigitByte
  <2>2. h \in [0..0 -> Seq(DigitByte)]
    BY <2>1
  <2>3. \A k \in 0..0 : h[k] = Expand(h, k)
    BY DEF Expand
  <2>4. h \in DecimalUpTo(0)
    BY <2>2, <2>3 DEF DecimalUpTo
  <2> QED
    BY <1>1, <1>2, <2>4
<1>3. CASE m > 0
  <2>1. m - 1 \in Nat /\ m - 1 \notin Bad
    BY <1>1, <1>3
  <2>2. PICK h : h \in DecimalUpTo(m - 1)
    BY <2>1
  <2> DEFINE g == [k \in 0..m |-> IF k = m THEN Expand(h, m) ELSE h[k]]
  <2>3. h \in [0..(m - 1) -> Seq(DigitByte)] /\ \A k \in 0..(m - 1) : h[k] = Expand(h, k)
    BY <2>2 DEF DecimalUpTo
  <2>4. \A k \in 0..m : k >= 10 => k \div 10 \in 0..(m - 1) /\ k \div 10 \in 0..m /\ k \div 10 # m
    <3> SUFFICES ASSUME NEW k \in 0..m, k >= 10 PROVE k \div 10 \in 0..(m - 1) /\ k \div 10 \in 0..m /\ k \div 10 # m
      OBVIOUS
    <3>1. k \div 10 \in Nat /\ k \div 10 < k /\ k <= m /\ m \in Nat /\ k \in Nat
      BY Tenth
    <3> QED
      BY ONLY <3>1
  <2>5. Expand(h, m) \in Seq(DigitByte)
    <3>1. m \in 0..m
      OBVIOUS
    <3> QED
      BY <2>3, <2>4, <3>1, ExpandIs
  <2>6. g \in [0..m -> Seq(DigitByte)]
    <3>1. \A k \in 0..m : k # m => k \in 0..(m - 1)
      OBVIOUS
    <3> QED
      BY <2>3, <2>5, <3>1
  <2>7. ASSUME NEW k \in 0..m PROVE g[k] = Expand(g, k)
    <3>1. k >= 10 => g[k \div 10] = h[k \div 10]
      BY <2>4
    <3>2. Expand(g, k) = Expand(h, k)
      BY <3>1 DEF Expand
    <3>3. g[k] = Expand(h, k)
      <4>1. k # m => k \in 0..(m - 1)
        OBVIOUS
      <4> QED
        BY <4>1, <2>3
    <3> QED
      BY <3>2, <3>3
  <2>8. g \in DecimalUpTo(m)
    BY <2>6, <2>7 DEF DecimalUpTo
  <2> QED
    BY <1>1, <2>8
<1> QED
  BY <1>2, <1>3

(* They agree. *)
LEMMA DecimalAgree ==
  ASSUME NEW m \in Nat, NEW n \in Nat, NEW g \in DecimalUpTo(m), NEW h \in DecimalUpTo(n),
         NEW k \in Nat, k <= m, k <= n
  PROVE  g[k] = h[k]
<1> DEFINE Bad == {i \in Nat : i <= m /\ i <= n /\ g[i] # h[i]}
<1> SUFFICES ASSUME Bad # {} PROVE FALSE
  OBVIOUS
<1>1. PICK i \in Bad : \A j \in Bad : i <= j
  BY LeastNumber
<1>2. g[i] = Expand(g, i) /\ h[i] = Expand(h, i)
  BY DEF DecimalUpTo
<1>3. i >= 10 => g[i \div 10] = h[i \div 10]
  <2> HAVE i >= 10
  <2>1. i \div 10 \in Nat /\ i \div 10 < i
    BY Tenth
  <2>2. i \div 10 \notin Bad
    BY <1>1, <2>1
  <2> QED
    BY <2>1, <2>2
<1>4. Expand(g, i) = Expand(h, i)
  BY <1>3 DEF Expand
<1> QED
  BY <1>2, <1>4

(* Decimal is what its definition says. *)
LEMMA DecimalDef == \A n \in Nat : Decimal[n] = Expand(Decimal, n) /\ Decimal[n] \in Seq(DigitByte)
<1> DEFINE H(m) == CHOOSE h \in DecimalUpTo(m) : TRUE
           D == [m \in Nat |-> H(m)[m]]
<1>1. \A m \in Nat : H(m) \in DecimalUpTo(m)
  BY DecimalExists
<1> HIDE DEF H
<1>2. ASSUME NEW m \in Nat PROVE D[m] = Expand(D, m)
  <2>1. H(m)[m] = Expand(H(m), m)
    <3>1. H(m) \in DecimalUpTo(m) /\ m \in 0..m
      BY <1>1
    <3> QED
      BY <3>1 DEF DecimalUpTo
  <2>2. m >= 10 => H(m)[m \div 10] = D[m \div 10]
    <3> HAVE m >= 10
    <3>1. m \div 10 \in Nat /\ m \div 10 <= m /\ m \div 10 <= m \div 10
      BY Tenth
    <3> QED
      BY <1>1, <3>1, DecimalAgree
  <2>3. Expand(H(m), m) = Expand(D, m)
    BY <2>2 DEF Expand
  <2> QED
    BY <2>1, <2>3
<1>3. D = [m \in Nat |-> Expand(D, m)]
  BY <1>2
<1>4. Decimal = [m \in Nat |-> Expand(Decimal, m)]
  BY <1>3 DEF Decimal, Expand
<1> HIDE DEF D
<1>5. \A n \in Nat : Decimal[n] = Expand(Decimal, n)
  BY <1>4, Zenon
<1>6. \A n \in Nat : Decimal[n] \in Seq(DigitByte)
  <2> DEFINE Bad == {n \in Nat : Decimal[n] \notin Seq(DigitByte)}
  <2> SUFFICES ASSUME Bad # {} PROVE FALSE
    OBVIOUS
  <2>1. PICK n \in Bad : \A j \in Bad : n <= j
    BY LeastNumber
  <2>2. n >= 10 => Decimal[n \div 10] \in Seq(DigitByte)
    <3> HAVE n >= 10
    <3>1. n \div 10 \in Nat /\ n \div 10 < n
      BY Tenth
    <3>2. n \div 10 \notin Bad
      BY <2>1, <3>1
    <3> QED
      BY <3>1, <3>2
  <2>3. Expand(Decimal, n) \in Seq(DigitByte)
    BY <2>2, ExpandIs
  <2> QED
    BY <2>3, <1>5
<1> QED
  BY <1>5, <1>6

(* A numeral has digits, at least one, and Atoi reads it as its number. *)
LEMMA DecimalIs ==
  ASSUME NEW n \in Nat
  PROVE  /\ Decimal[n] \in Seq(DigitByte) /\ AllDigits(Decimal[n])
         /\ Len(Decimal[n]) >= 1
         /\ Atoi(Decimal[n]) = n
<1>1. \A m \in Nat : Decimal[m] \in Seq(DigitByte) /\ AllDigits(Decimal[m])
  <2> TAKE m \in Nat
  <2>1. Decimal[m] \in Seq(DigitByte)
    BY DecimalDef
  <2>2. \A b \in DigitByte : IsDigit(b)
    BY DigitIs DEF DigitByte
  <2>3. \A k \in 1..Len(Decimal[m]) : Decimal[m][k] \in DigitByte
    BY <2>1
  <2> QED
    BY <2>1, <2>2, <2>3 DEF AllDigits
<1>2. \A k \in 1..10 : Digits[k] \in DigitByte /\ IsDigit(Digits[k]) /\ Digit(Digits[k]) = k - 1
  BY DigitIs DEF DigitByte
<1> DEFINE Right(m) == Len(Decimal[m]) >= 1 /\ Atoi(Decimal[m]) = m
           Bad == {m \in Nat : ~Right(m)}
<1> SUFFICES ASSUME Bad # {} PROVE FALSE
  BY <1>1
<1>3. PICK m \in Bad : \A j \in Bad : m <= j
  BY LeastNumber
<1>4. m \in Nat /\ Decimal[m] = Expand(Decimal, m) /\ ~Right(m)
  BY <1>3, DecimalDef
<1>5. CASE m < 10
  <2>1. Decimal[m] = <<Digits[m + 1]>> /\ m + 1 \in 1..10 /\ (m + 1) - 1 = m
    BY <1>4, <1>5 DEF Expand
  <2>2. PICK b : b = Digits[m + 1] /\ b \in DigitByte /\ IsDigit(b) /\ Digit(b) = m
    BY <1>2, <2>1
  <2>3. AllDigits(<< >>) /\ << >> \in Seq(DigitByte)
    BY DEF AllDigits
  <2>4. Atoi(<< >>) = 0 /\ Atoi(Append(<< >>, b)) = 10 * Atoi(<< >>) + Digit(b)
    BY <2>2, <2>3, AtoiIs
  <2>5. Append(<< >>, b) = <<b>> /\ Len(<<b>>) = 1
    OBVIOUS
  <2>6. Atoi(<<b>>) = m
    BY <2>2, <2>4, <2>5, <1>4
  <2> QED
    BY <1>4, <2>1, <2>2, <2>5, <2>6
<1>6. CASE m >= 10
  <2> DEFINE q == m \div 10
             r == m % 10
  <2>1. q \in Nat /\ q < m /\ r \in 0..9 /\ m = 10 * q + r /\ r + 1 \in 1..10 /\ (r + 1) - 1 = r
    BY <1>4, <1>6, Tenth
  <2>2. Decimal[m] = Append(Decimal[q], Digits[r + 1])
    <3>1. ~(m < 10)
      BY <1>4, <1>6
    <3> QED
      BY <1>4, <3>1 DEF Expand
  <2> HIDE DEF q, r
  <2>3. Right(q)
    <3>1. q \in Bad => m <= q
      BY <1>3, Zenon
    <3>2. q \notin Bad
      BY ONLY <3>1, <2>1, <1>4
    <3> QED
      BY <3>2, <2>1
  <2>4. PICK b : b = Digits[r + 1] /\ b \in DigitByte /\ IsDigit(b) /\ Digit(b) = r
    BY <1>2, <2>1
  <2>5. PICK s : s = Decimal[q]
    OBVIOUS
  <2>6. s \in Seq(DigitByte) /\ AllDigits(s) /\ Atoi(s) = q
    BY <1>1, <2>1, <2>3, <2>5
  <2>7. Atoi(Append(s, b)) = 10 * q + r
    BY <2>4, <2>6, AtoiIs
  <2>8. Len(Append(s, b)) >= 1
    BY <2>4, <2>6, Appended
  <2> QED
    BY <1>4, <2>1, <2>2, <2>4, <2>5, <2>7, <2>8
<1> QED
  BY <1>4, <1>5, <1>6

(* Two sequences, one behind the other. *)
LEMMA Concat ==
  ASSUME NEW S, NEW s \in Seq(S), NEW t \in Seq(S)
  PROVE  /\ s \o t \in Seq(S)
         /\ Len(s \o t) = Len(s) + Len(t)
         /\ \A j \in 1..Len(s) : (s \o t)[j] = s[j]
         /\ \A j \in 1..Len(t) : (s \o t)[Len(s) + j] = t[j]
<1>1. s \o t \in Seq(S) /\ Len(s \o t) = Len(s) + Len(t) /\ Len(s) \in Nat /\ Len(t) \in Nat
  OBVIOUS
<1>2. \A j \in 1..Len(s) : (s \o t)[j] = s[j]
  BY <1>1
<1>3. ASSUME NEW j \in 1..Len(t) PROVE (s \o t)[Len(s) + j] = t[j]
  <2>1. Len(s) + j \in 1..(Len(s) + Len(t)) /\ ~(Len(s) + j <= Len(s)) /\ (Len(s) + j) - Len(s) = j
    BY <1>1
  <2> QED
    BY <2>1, <1>1
<1> QED
  BY <1>1, <1>2, <1>3

(* What Encode puts behind the values before. *)
Behind(e, v) == e \o Decimal[Len(v)] \o <<":">> \o v \o <<";">>

(* Its parts: D is the numeral, and a, l and n are the lengths of e, D and v. *)
Parts(B, e, v, D, a, l, n) ==
  /\ B \in Seq(NetByte)
  /\ Len(B) = ((a + l) + 1) + (n + 1)
  /\ \A j \in 1..a : B[j] = e[j]
  /\ \A j \in 1..l : B[a + j] = D[j]
  /\ B[(a + l) + 1] = ":"
  /\ \A j \in 1..n : B[((a + l) + 1) + j] = v[j]

(* These are its parts. *)
LEMMA BehindIs ==
  ASSUME NEW e, e \in Seq(NetByte), NEW v, v \in Seq(NetByte),
         NEW D, D = Decimal[Len(v)], NEW a, a = Len(e), NEW l, l = Len(D), NEW n, n = Len(v)
  PROVE  Parts(Behind(e, v), e, v, D, a, l, n)
<1>1. a \in Nat /\ n \in Nat
  OBVIOUS
<1>2. D \in Seq(NetByte)
  <2>1. D \in Seq(DigitByte)
    BY <1>1, DecimalIs
  <2>2. DigitByte \subseteq NetByte
    BY DEF DigitByte, NetByte
  <2> QED
    BY <2>1, <2>2
<1>3. l \in Nat
  BY <1>2
<1>20. ":" \in NetByte /\ ";" \in NetByte
  BY Zenon DEF NetByte
<1>21. \A b \in NetByte : <<b>> \in Seq(NetByte) /\ Len(<<b>>) = 1 /\ <<b>>[1] = b
  OBVIOUS
<1>22. PICK t, u : t = <<":">> /\ u = <<";">>
  OBVIOUS
<1>4. t \in Seq(NetByte) /\ u \in Seq(NetByte) /\ Len(t) = 1 /\ Len(u) = 1 /\ t[1] = ":"
  BY <1>20, <1>21, <1>22
<1> DEFINE p == e \o D
           q == p \o t
           r == q \o v
           s == r \o u
<1>5. /\ p \in Seq(NetByte) /\ Len(p) = a + l
      /\ \A j \in 1..a : p[j] = e[j]
      /\ \A j \in 1..l : p[a + j] = D[j]
  BY <1>2, Concat
<1> HIDE DEF p
<1>6. PICK x \in Nat : x = a + l
  BY <1>1, <1>3
<1>7. /\ q \in Seq(NetByte) /\ Len(q) = x + 1
      /\ \A j \in 1..x : q[j] = p[j]
      /\ q[x + 1] = ":"
  <2>1. /\ q \in Seq(NetByte) /\ Len(q) = Len(p) + Len(t)
        /\ \A j \in 1..Len(p) : q[j] = p[j]
        /\ \A j \in 1..Len(t) : q[Len(p) + j] = t[j]
    <3>1. p \in Seq(NetByte) /\ t \in Seq(NetByte)
      BY <1>4, <1>5
    <3>2. /\ p \o t \in Seq(NetByte) /\ Len(p \o t) = Len(p) + Len(t)
          /\ \A j \in 1..Len(p) : (p \o t)[j] = p[j]
          /\ \A j \in 1..Len(t) : (p \o t)[Len(p) + j] = t[j]
      BY ONLY <3>1, Concat
    <3> QED
      BY <3>2
  <2>2. Len(p) = x /\ 1 \in 1..Len(t)
    BY ONLY <1>4, <1>5, <1>6
  <2> HIDE DEF q
  <2>3. q[Len(p) + 1] = t[1]
    BY ONLY <2>1, <2>2
  <2> QED
    BY <2>1, <2>2, <2>3, <1>4
<1> HIDE DEF q
<1>8. PICK y \in Nat : y = x + 1
  BY <1>6
<1>9. /\ r \in Seq(NetByte) /\ Len(r) = y + n
      /\ \A j \in 1..y : r[j] = q[j]
      /\ \A j \in 1..n : r[y + j] = v[j]
  <2>1. Len(q) = y /\ q \in Seq(NetByte) /\ v \in Seq(NetByte) /\ n = Len(v)
    BY <1>7, <1>8
  <2> QED
    <3>1. q \in Seq(NetByte) /\ v \in Seq(NetByte)
      BY <2>1
    <3>2. /\ q \o v \in Seq(NetByte) /\ Len(q \o v) = Len(q) + Len(v)
          /\ \A j \in 1..Len(q) : (q \o v)[j] = q[j]
          /\ \A j \in 1..Len(v) : (q \o v)[Len(q) + j] = v[j]
      BY ONLY <3>1, Concat
    <3> QED
      BY <2>1, <3>2
<1> HIDE DEF r
<1>10. PICK z \in Nat : z = y + n
  BY <1>1, <1>8
<1>11. /\ s \in Seq(NetByte) /\ Len(s) = z + 1
       /\ \A j \in 1..z : s[j] = r[j]
  <2>1. Len(r) = z /\ r \in Seq(NetByte)
    BY <1>9, <1>10
  <2> QED
    <3>1. r \in Seq(NetByte) /\ u \in Seq(NetByte)
      BY <2>1, <1>4
    <3>2. /\ r \o u \in Seq(NetByte) /\ Len(r \o u) = Len(r) + Len(u)
          /\ \A j \in 1..Len(r) : (r \o u)[j] = r[j]
      BY ONLY <3>1, Concat
    <3> QED
      BY <2>1, <3>2, <1>4
<1>12. s = Behind(e, v)
  BY <1>22 DEF Behind, p, q, r
<1> HIDE DEF s
<1>13. \A j \in 1..y : s[j] = q[j]
  <2> TAKE j \in 1..y
  <2>1. j \in 1..z
    BY <1>1, <1>10
  <2> QED
    BY <2>1, <1>9, <1>11
<1>14. \A j \in 1..x : s[j] = p[j]
  <2> TAKE j \in 1..x
  <2>1. j \in 1..y
    BY <1>8
  <2> QED
    BY <2>1, <1>13, <1>7
<1>15. \A j \in 1..a : s[j] = e[j]
  <2> TAKE j \in 1..a
  <2>1. j \in 1..x
    BY <1>1, <1>3, <1>6
  <2> QED
    BY <2>1, <1>14, <1>5
<1>16. \A j \in 1..l : s[a + j] = D[j]
  <2> TAKE j \in 1..l
  <2>1. a + j \in 1..x
    BY <1>1, <1>3, <1>6
  <2> QED
    BY <2>1, <1>14, <1>5
<1>17. s[x + 1] = ":"
  <2>1. x + 1 \in 1..y
    BY <1>8
  <2> QED
    BY <2>1, <1>13, <1>7
<1>18. \A j \in 1..n : s[y + j] = v[j]
  <2> TAKE j \in 1..n
  <2>1. y + j \in 1..z
    BY <1>1, <1>10
  <2> QED
    BY <2>1, <1>9, <1>11
<1>19. z + 1 = ((a + l) + 1) + (n + 1)
  BY ONLY <1>1, <1>3, <1>6, <1>8, <1>10
<1> QED
  BY <1>6, <1>8, <1>11, <1>12, <1>15, <1>16, <1>17, <1>18, <1>19 DEF Parts

(* Strings are bytes of the NetstrDelimiter. *)
LEMMA StringsAre ==
  /\ Seq(STRING) \subseteq Seq(NetByte)
  /\ Seq(Seq(STRING)) \subseteq Seq(Seq(NetByte))
<1>1. ASSUME NEW A, NEW B, A \subseteq B PROVE Seq(A) \subseteq Seq(B)
  BY <1>1
<1>2. STRING \subseteq NetByte
  BY DEF NetByte
<1>3. Seq(STRING) \subseteq Seq(NetByte)
  BY <1>1, <1>2
<1> QED
  BY <1>1, <1>3

(* Encode is what its definition says. *)
LEMMA EncodeIs ==
  ASSUME NEW m, m \in Seq(Seq(STRING)), NEW N, N = Len(m), NEW E, E = Encode(m)
  PROVE  /\ N \in Nat
         /\ E[0] = << >>
         /\ \A k \in 1..N : E[k] = Behind(E[k - 1], m[k]) /\ m[k] \in Seq(NetByte)
         /\ \A k \in 0..N : E[k] \in Seq(NetByte)
<1>1. N \in Nat /\ \A k \in 1..N : m[k] \in Seq(NetByte)
  BY StringsAre
<1> DEFINE G == [k \in 1..N |-> [e \in Seq(NetByte) |-> Behind(e, m[k])]]
<1>2. \A k \in 1..N : \A e \in Seq(NetByte) : Behind(e, m[k]) \in Seq(NetByte)
  BY <1>1, BehindIs DEF Parts
<1>3. G \in [1..N -> [Seq(NetByte) -> Seq(NetByte)]]
  BY <1>2
<1>4. PICK f \in [0..N -> Seq(NetByte)] : f[0] = << >> /\ \A k \in 1..N : f[k] = G[k][f[k - 1]]
  <2>1. PICK T, z : T = Seq(NetByte) /\ z = << >>
    OBVIOUS
  <2> HIDE DEF G
  <2>2. z \in T /\ N \in Nat /\ G \in [1..N -> [T -> T]]
    BY <2>1, <1>1, <1>3
  <2>3. \E f \in [0..N -> T] : f[0] = z /\ \A k \in 1..N : f[k] = G[k][f[k - 1]]
    BY ONLY <2>2, Recursion
  <2> QED
    BY <2>1, <2>3
<1>12. \A k \in 1..N : k - 1 \in 0..N
  BY ONLY <1>1
<1>5. \A k \in 1..N : k - 1 \in 0..N /\ f[k - 1] \in Seq(NetByte)
  BY <1>12
<1>6. \A k \in 1..N : f[k] = Behind(f[k - 1], m[k])
  BY <1>4, <1>5
<1> HIDE DEF G
<1> DEFINE Body(g) == [k \in 0..N |-> IF k = 0 THEN << >> ELSE Behind(g[k - 1], m[k])]
<1>7. f = Body(f)
  <2>1. \A k \in 0..N : f[k] = IF k = 0 THEN << >> ELSE Behind(f[k - 1], m[k])
    <3> TAKE k \in 0..N
    <3>1. k = 0 \/ k \in 1..N
      BY <1>1
    <3> QED
      BY <3>1, <1>4, <1>6
  <2> QED
    BY <2>1
<1>8. E = CHOOSE g : g = Body(g)
  BY Zenon DEF Encode, Behind
<1>9. E = Body(E)
  BY <1>7, <1>8, Zenon
<1>10. E[0] = << >> /\ \A k \in 1..N : E[k] = Behind(E[k - 1], m[k])
  <2>1. \A k \in 0..N : E[k] = IF k = 0 THEN << >> ELSE Behind(E[k - 1], m[k])
    BY <1>9, Zenon
  <2>2. 0 \in 0..N /\ \A k \in 1..N : k \in 0..N /\ k # 0
    BY <1>1
  <2> QED
    BY <2>1, <2>2, Zenon
<1>11. \A k \in 0..N : E[k] \in Seq(NetByte)
  <2> DEFINE K == {k \in 0..N : E[k] \in Seq(NetByte)}
  <2>4. 0 \in 0..N /\ << >> \in Seq(NetByte)
    BY <1>1
  <2>1. K \in SUBSET (0..N) /\ 0 \in K
    BY <2>4, <1>10
  <2>2. \A k \in 1..N : k - 1 \in K => k \in K
    <3> TAKE k \in 1..N
    <3>1. k \in 0..N
      BY <1>1
    <3> QED
      BY <3>1, <1>2, <1>10
  <2>3. \A k \in 0..N : k \in K
    <3> HIDE DEF K
    <3> QED
      BY ONLY <1>1, <2>1, <2>2, StepByStep
  <2> QED
    BY <2>3
<1> QED
  BY <1>1, <1>10, <1>11

(* The colon of a netstring. *)
LEMMA ColonIs ==
  ASSUME NEW s, s \in Seq(NetByte), NEW a \in Nat, NEW c, Colon(s, a, c)
  PROVE  /\ c \in Nat /\ a + 2 <= c /\ c <= Len(s) /\ s[c] = ":"
         /\ \A j \in (a + 1)..(c - 1) : IsDigit(s[j])
         /\ ValueEnd(s, a, c) \in Nat /\ c <= ValueEnd(s, a, c)
<1>1. PICK l : l = Len(s) /\ l \in Nat
  OBVIOUS
<1>2. c \in (a + 2)..l /\ s[c] = ":" /\ \A j \in (a + 1)..(c - 1) : IsDigit(s[j])
  BY <1>1 DEF Colon
<1>3. c \in (a + 2)..l
  BY <1>2
<1>4. c \in Nat /\ a + 2 <= c /\ c <= l /\ c - 1 \in Nat /\ a <= c - 1 /\ c - 1 <= l
  BY ONLY <1>1, <1>3, a \in Nat
<1>5. PICK p : p = c - 1
  OBVIOUS
<1>11. s \in Seq(NetByte) /\ a \in Nat /\ p \in Nat /\ a <= p /\ p <= Len(s)
  BY <1>1, <1>4, <1>5
<1>6. /\ SubSeq(s, a + 1, p) \in Seq(NetByte)
      /\ Len(SubSeq(s, a + 1, p)) = p - a
      /\ \A j \in 1..(p - a) : SubSeq(s, a + 1, p)[j] = s[a + j]
  BY ONLY <1>11, PartIs
<1>7. \A j \in 1..(p - a) : a + j \in (a + 1)..(c - 1)
  BY ONLY <1>4, <1>5, a \in Nat
<1>8. AllDigits(SubSeq(s, a + 1, p))
  BY <1>2, <1>6, <1>7 DEF AllDigits
<1>9. PICK v : v = Atoi(SubSeq(s, a + 1, p)) /\ v \in Nat
  BY <1>6, <1>8, AtoiIs
<1>10. ValueEnd(s, a, c) = c + v
  BY <1>5, <1>9 DEF ValueEnd
<1> QED
  BY <1>1, <1>2, <1>4, <1>9, <1>10

(* There is at most one. *)
LEMMA ColonOnce ==
  ASSUME NEW s, s \in Seq(NetByte), NEW a \in Nat, NEW c, Colon(s, a, c), NEW e, Colon(s, a, e)
  PROVE  c = e
<1>1. /\ c \in Nat /\ a + 2 <= c /\ e \in Nat /\ a + 2 <= e
      /\ ~IsDigit(s[c]) /\ ~IsDigit(s[e])
      /\ \A j \in (a + 1)..(c - 1) : IsDigit(s[j])
      /\ \A j \in (a + 1)..(e - 1) : IsDigit(s[j])
  BY ColonIs, DigitIs
<1>2. c \notin (a + 1)..(e - 1) /\ e \notin (a + 1)..(c - 1)
  BY <1>1
<1>3. c \in Nat /\ a + 2 <= c /\ e \in Nat /\ a + 2 <= e /\ a \in Nat
  BY <1>1
<1> QED
  BY ONLY <1>2, <1>3

(* The fields of a NetstrDelimiter. *)
Fields(r, l, v, n, x, y) ==
  [Result |-> r, lenBuff |-> l, valBuff |-> v, valBuffLen |-> n, valBuffMode |-> x, brokenMode |-> y]

(* What Push does in each mode. *)
Pushed(r, l, v, n, b) ==
  /\ NetstrPush(Fields(r, l, v, n, FALSE, TRUE), b)
       = [delimiter |-> Fields(r, l, v, n, FALSE, TRUE), ok |-> FALSE]
  /\ (b = ":" /\ AtoiOK(l)) => NetstrPush(Fields(r, l, v, n, FALSE, FALSE), b)
       = [delimiter |-> Fields(r, << >>, v, Atoi(l), TRUE, FALSE), ok |-> FALSE]
  /\ (b = ":" /\ ~AtoiOK(l)) => NetstrPush(Fields(r, l, v, n, FALSE, FALSE), b)
       = [delimiter |-> Fields(r, l, v, n, FALSE, TRUE), ok |-> FALSE]
  /\ (b # ":" /\ IsDigit(b)) => NetstrPush(Fields(r, l, v, n, FALSE, FALSE), b)
       = [delimiter |-> Fields(r, Append(l, b), v, n, FALSE, FALSE), ok |-> FALSE]
  /\ (b # ":" /\ ~IsDigit(b)) => NetstrPush(Fields(r, l, v, n, FALSE, FALSE), b)
       = [delimiter |-> Fields(r, l, v, n, FALSE, TRUE), ok |-> FALSE]
  /\ n = 0 => NetstrPush(Fields(r, l, v, n, TRUE, FALSE), b)
       = [delimiter |-> Fields(v, l, << >>, n, FALSE, FALSE), ok |-> TRUE]
  /\ n # 0 => NetstrPush(Fields(r, l, v, n, TRUE, FALSE), b)
       = [delimiter |-> Fields(r, l, Append(v, b), n - 1, TRUE, FALSE), ok |-> FALSE]

(* It does. *)
LEMMA PushIs ==
  ASSUME NEW r, NEW l, NEW v, NEW n, NEW b
  PROVE  Pushed(r, l, v, n, b)
<1>1. NetstrPush(Fields(r, l, v, n, FALSE, TRUE), b)
              = [delimiter |-> Fields(r, l, v, n, FALSE, TRUE), ok |-> FALSE]
  BY DEF NetstrPush, NoResult, Fields
<1>2. NetstrPush(Fields(r, l, v, n, FALSE, FALSE), b) = processLenByte(Fields(r, l, v, n, FALSE, FALSE), b)
  BY DEF NetstrPush, Fields
<1>3. NetstrPush(Fields(r, l, v, n, TRUE, FALSE), b) = processValByte(Fields(r, l, v, n, TRUE, FALSE), b)
  BY DEF NetstrPush, Fields
<1>11. PICK t, f : t = TRUE /\ f = FALSE
  BY Zenon
<1>12. PICK D, V : D = Fields(r, l, v, n, f, f) /\ V = Fields(r, l, v, n, t, f)
  OBVIOUS
<1>13. D.Result = r /\ D.lenBuff = l /\ D.valBuff = v /\ D.valBuffLen = n
  BY <1>12 DEF Fields
<1>14. V.Result = r /\ V.lenBuff = l /\ V.valBuff = v /\ V.valBuffLen = n
  BY <1>12 DEF Fields
<1>15. D = Fields(r, l, v, n, FALSE, FALSE) /\ V = Fields(r, l, v, n, TRUE, FALSE)
  BY ONLY <1>11, <1>12, Zenon
<1>20. \A r1, l1, v1, n1, x1, y1, e :
         [Fields(r1, l1, v1, n1, x1, y1) EXCEPT !.Result = e] = Fields(e, l1, v1, n1, x1, y1)
  BY DEF Fields
<1>21. \A r1, l1, v1, n1, x1, y1, e :
         [Fields(r1, l1, v1, n1, x1, y1) EXCEPT !.lenBuff = e] = Fields(r1, e, v1, n1, x1, y1)
  BY DEF Fields
<1>22. \A r1, l1, v1, n1, x1, y1, e :
         [Fields(r1, l1, v1, n1, x1, y1) EXCEPT !.valBuff = e] = Fields(r1, l1, e, n1, x1, y1)
  BY DEF Fields
<1>23. \A r1, l1, v1, n1, x1, y1, e :
         [Fields(r1, l1, v1, n1, x1, y1) EXCEPT !.valBuffLen = e] = Fields(r1, l1, v1, e, x1, y1)
  BY DEF Fields
<1>24. \A r1, l1, v1, n1, x1, y1, e :
         [Fields(r1, l1, v1, n1, x1, y1) EXCEPT !.valBuffMode = e] = Fields(r1, l1, v1, n1, e, y1)
  BY DEF Fields
<1>25. \A r1, l1, v1, n1, x1, y1, e :
         [Fields(r1, l1, v1, n1, x1, y1) EXCEPT !.brokenMode = e] = Fields(r1, l1, v1, n1, x1, e)
  BY DEF Fields
<1>4. Broken(Fields(r, l, v, n, FALSE, FALSE)) = [delimiter |-> Fields(r, l, v, n, FALSE, TRUE), ok |-> FALSE]
  <2>1. [D EXCEPT !.brokenMode = t] = Fields(r, l, v, n, f, t)
    BY <1>12 DEF Fields
  <2>2. [D EXCEPT !.brokenMode = TRUE] = Fields(r, l, v, n, FALSE, TRUE)
    BY ONLY <2>1, <1>11, Zenon
  <2> QED
    BY ONLY <2>2, <1>15, Zenon DEF Broken, NoResult
<1>5. (b = ":" /\ AtoiOK(l)) => NetstrPush(Fields(r, l, v, n, FALSE, FALSE), b)
              = [delimiter |-> Fields(r, << >>, v, Atoi(l), TRUE, FALSE), ok |-> FALSE]
  <2> HAVE b = ":" /\ AtoiOK(l)
  <2>1. [D EXCEPT !.valBuffLen = Atoi(l), !.lenBuff = << >>, !.valBuffMode = t] = Fields(r, << >>, v, Atoi(l), t, f)
    <3>1. PICK x : x = [D EXCEPT !.valBuffLen = Atoi(l)]
      OBVIOUS
    <3>2. x = Fields(r, l, v, Atoi(l), f, f)
      <4>1. [Fields(r, l, v, n, f, f) EXCEPT !.valBuffLen = Atoi(l)] = Fields(r, l, v, Atoi(l), f, f)
        BY ONLY <1>23
      <4> QED
        BY ONLY <4>1, <3>1, <1>12
    <3>3. PICK y : y = [x EXCEPT !.lenBuff = << >>]
      OBVIOUS
    <3>4. y = Fields(r, << >>, v, Atoi(l), f, f)
      <4>1. [Fields(r, l, v, Atoi(l), f, f) EXCEPT !.lenBuff = << >>] = Fields(r, << >>, v, Atoi(l), f, f)
        BY ONLY <1>21
      <4> QED
        BY ONLY <4>1, <3>3, <3>2
    <3>5. PICK z : z = [y EXCEPT !.valBuffMode = t]
      OBVIOUS
    <3>6. z = Fields(r, << >>, v, Atoi(l), t, f)
      <4>1. [Fields(r, << >>, v, Atoi(l), f, f) EXCEPT !.valBuffMode = t] = Fields(r, << >>, v, Atoi(l), t, f)
        BY ONLY <1>24
      <4> QED
        BY ONLY <4>1, <3>5, <3>4
    <3>7. [D EXCEPT !.valBuffLen = Atoi(l), !.lenBuff = << >>, !.valBuffMode = t] = z
      BY <3>1, <3>3, <3>5
    <3> QED
      BY ONLY <3>7, <3>6
  <2>2. [D EXCEPT !.valBuffLen = Atoi(D.lenBuff), !.lenBuff = << >>, !.valBuffMode = TRUE]
          = Fields(r, << >>, v, Atoi(l), TRUE, FALSE)
    BY ONLY <2>1, <1>11, <1>13, Zenon
  <2>3. processLenByte(D, b) = NoResult([D EXCEPT !.valBuffLen = Atoi(D.lenBuff), !.lenBuff = << >>, !.valBuffMode = TRUE])
    BY <1>13, Zenon DEF processLenByte, useValBuff
  <2> QED
    BY ONLY <2>2, <2>3, <1>2, <1>15, Zenon DEF NoResult
<1>6. (b = ":" /\ ~AtoiOK(l)) => NetstrPush(Fields(r, l, v, n, FALSE, FALSE), b)
              = [delimiter |-> Fields(r, l, v, n, FALSE, TRUE), ok |-> FALSE]
  <2>1. Fields(r, l, v, n, FALSE, FALSE).lenBuff = l
    BY DEF Fields
  <2> QED
    BY <1>2, <1>4, <2>1 DEF processLenByte, useValBuff
<1>7. (b # ":" /\ IsDigit(b)) => NetstrPush(Fields(r, l, v, n, FALSE, FALSE), b)
              = [delimiter |-> Fields(r, Append(l, b), v, n, FALSE, FALSE), ok |-> FALSE]
  <2> HAVE b # ":" /\ IsDigit(b)
  <2>1. [D EXCEPT !.lenBuff = Append(l, b)] = Fields(r, Append(l, b), v, n, f, f)
    <3>1. PICK w : w = Append(l, b)
      OBVIOUS
    <3>2. [Fields(r, l, v, n, f, f) EXCEPT !.lenBuff = w] = Fields(r, w, v, n, f, f)
      BY ONLY <1>21
    <3> QED
      BY ONLY <3>1, <3>2, <1>12, Zenon
  <2>2. [D EXCEPT !.lenBuff = Append(D.lenBuff, b)] = Fields(r, Append(l, b), v, n, FALSE, FALSE)
    BY ONLY <2>1, <1>11, <1>13, Zenon
  <2>3. processLenByte(D, b) = NoResult([D EXCEPT !.lenBuff = Append(D.lenBuff, b)])
    BY Zenon DEF processLenByte
  <2> QED
    BY ONLY <2>2, <2>3, <1>2, <1>15, Zenon DEF NoResult
<1>8. (b # ":" /\ ~IsDigit(b)) => NetstrPush(Fields(r, l, v, n, FALSE, FALSE), b)
              = [delimiter |-> Fields(r, l, v, n, FALSE, TRUE), ok |-> FALSE]
  BY <1>2, <1>4 DEF processLenByte
<1>9. n = 0 => NetstrPush(Fields(r, l, v, n, TRUE, FALSE), b)
              = [delimiter |-> Fields(v, l, << >>, n, FALSE, FALSE), ok |-> TRUE]
  <2> HAVE n = 0
  <2>1. [V EXCEPT !.Result = v, !.valBuff = << >>, !.valBuffMode = f] = Fields(v, l, << >>, n, f, f)
    <3>1. PICK x : x = [V EXCEPT !.Result = v]
      OBVIOUS
    <3>2. x = Fields(v, l, v, n, t, f)
      <4>1. [Fields(r, l, v, n, t, f) EXCEPT !.Result = v] = Fields(v, l, v, n, t, f)
        BY ONLY <1>20
      <4> QED
        BY ONLY <4>1, <3>1, <1>12
    <3>3. PICK y : y = [x EXCEPT !.valBuff = << >>]
      OBVIOUS
    <3>4. y = Fields(v, l, << >>, n, t, f)
      <4>1. [Fields(v, l, v, n, t, f) EXCEPT !.valBuff = << >>] = Fields(v, l, << >>, n, t, f)
        BY ONLY <1>22
      <4> QED
        BY ONLY <4>1, <3>3, <3>2
    <3>5. PICK z : z = [y EXCEPT !.valBuffMode = f]
      OBVIOUS
    <3>6. z = Fields(v, l, << >>, n, f, f)
      <4>1. [Fields(v, l, << >>, n, t, f) EXCEPT !.valBuffMode = f] = Fields(v, l, << >>, n, f, f)
        BY ONLY <1>24
      <4> QED
        BY ONLY <4>1, <3>5, <3>4
    <3>7. [V EXCEPT !.Result = v, !.valBuff = << >>, !.valBuffMode = f] = z
      BY <3>1, <3>3, <3>5
    <3> QED
      BY ONLY <3>7, <3>6
  <2>2. [V EXCEPT !.Result = V.valBuff, !.valBuff = << >>, !.valBuffMode = FALSE] = Fields(v, l, << >>, n, FALSE, FALSE)
    BY ONLY <2>1, <1>11, <1>14, Zenon
  <2>3. processValByte(V, b) = [delimiter |-> useLenBuff(V), ok |-> TRUE]
    BY <1>14, Zenon DEF processValByte
  <2> QED
    BY ONLY <2>2, <2>3, <1>3, <1>15, Zenon DEF useLenBuff
<1>10. n # 0 => NetstrPush(Fields(r, l, v, n, TRUE, FALSE), b)
              = [delimiter |-> Fields(r, l, Append(v, b), n - 1, TRUE, FALSE), ok |-> FALSE]
  <2> HAVE n # 0
  <2>1. [V EXCEPT !.valBuffLen = n - 1, !.valBuff = Append(v, b)] = Fields(r, l, Append(v, b), n - 1, t, f)
    <3>1. PICK x : x = [V EXCEPT !.valBuffLen = n - 1]
      OBVIOUS
    <3>2. x = Fields(r, l, v, n - 1, t, f)
      <4>1. [Fields(r, l, v, n, t, f) EXCEPT !.valBuffLen = n - 1] = Fields(r, l, v, n - 1, t, f)
        BY ONLY <1>23
      <4> QED
        BY ONLY <4>1, <3>1, <1>12
    <3>3. PICK y : y = [x EXCEPT !.valBuff = Append(v, b)]
      OBVIOUS
    <3>4. y = Fields(r, l, Append(v, b), n - 1, t, f)
      <4>1. PICK w, m : w = Append(v, b) /\ m = n - 1
        OBVIOUS
      <4>2. [Fields(r, l, v, m, t, f) EXCEPT !.valBuff = w] = Fields(r, l, w, m, t, f)
        BY ONLY <1>22
      <4> QED
        BY ONLY <4>1, <4>2, <3>3, <3>2, Zenon
    <3>5. [V EXCEPT !.valBuffLen = n - 1, !.valBuff = Append(v, b)] = y
      BY <3>1, <3>3
    <3> QED
      BY ONLY <3>5, <3>4
  <2>2. [V EXCEPT !.valBuffLen = V.valBuffLen - 1, !.valBuff = Append(V.valBuff, b)]
          = Fields(r, l, Append(v, b), n - 1, TRUE, FALSE)
    BY ONLY <2>1, <1>11, <1>14, Zenon
  <2>3. processValByte(V, b)
          = NoResult([V EXCEPT !.valBuffLen = V.valBuffLen - 1, !.valBuff = Append(V.valBuff, b)])
    BY <1>14, Zenon DEF processValByte
  <2> QED
    BY ONLY <2>2, <2>3, <1>3, <1>15, Zenon DEF NoResult
<1> QED
  BY <1>1, <1>5, <1>6, <1>7, <1>8, <1>9, <1>10, Zenon DEF Pushed

(* A result is a value of the stream. *)
Framed(n) ==
  \E c \in 1..Len(stream) :
    /\ Colon(stream, Start(n), c)
    /\ bounds[n] = ValueEnd(stream, Start(n), c) + 1
    /\ bounds[n] <= pos
    /\ results[n] = SubSeq(stream, c + 1, bounds[n] - 1)

(* Behind a the delimiter reads a length, or the value behind the colon at *)
(* c, or there is no length.                                               *)
Counting(a) ==
  /\ \E r, n : d = Fields(r, SubSeq(stream, a + 1, pos), << >>, n, FALSE, FALSE)
  /\ \A j \in (a + 1)..pos : IsDigit(stream[j])
Valuing(a, c) ==
  /\ Colon(stream, a, c)
  /\ c <= pos /\ pos <= ValueEnd(stream, a, c)
  /\ \E r : d = Fields(r, << >>, SubSeq(stream, c + 1, pos), ValueEnd(stream, a, c) - pos, TRUE, FALSE)
Stuck(a) ==
  /\ \E r, l, v, n : d = Fields(r, l, v, n, FALSE, TRUE)
  /\ \A c : ~Colon(stream, a, c)
Mode(a) == Counting(a) \/ (\E c : Valuing(a, c)) \/ Stuck(a)

NetTyped ==
  /\ stream \in Seq(NetByte)
  /\ pos \in 0..Len(stream)
  /\ bounds \in Seq(Nat)
  /\ results \in Seq(Seq(NetByte))
  /\ Len(bounds) = Len(results)

NetHead ==
  /\ NetTyped
  /\ messages # NotEncoded =>
       messages \in NetstrMessages /\ stream = Encode(messages)[Len(messages)]
  /\ Start(Len(results) + 1) \in 0..pos
  /\ \A n \in 1..Len(results) : Framed(n)

NetInv == (kind = "netstr" /\ ~cut) => NetHead /\ Mode(Start(Len(results) + 1))

(* A step that returns nothing keeps the results' places. *)
LEMMA HeadKept ==
  ASSUME NetHead, UNCHANGED <<stream, messages, results, bounds>>,
         pos' \in 0..Len(stream), pos <= pos'
  PROVE  NetHead' /\ Start(Len(results) + 1)' = Start(Len(results) + 1)
<1>1. PICK l, a, m : l = Len(stream) /\ a = Start(Len(results) + 1) /\ m = Len(results)
  OBVIOUS
<1>2. l \in Nat /\ pos \in 0..l /\ a \in 0..pos /\ m \in Nat
  BY <1>1 DEF NetHead, NetTyped
<1>3. (Start(Len(results) + 1))' = a
  BY <1>1 DEF Start
<1>4. a \in 0..pos'
  BY ONLY <1>2, pos' \in 0..Len(stream), <1>1, pos <= pos'
<1>5. NetTyped'
  BY DEF NetHead, NetTyped
<1>6. ASSUME NEW n \in 1..m PROVE Framed(n)'
  <2>1. PICK c \in 1..l :
          /\ Colon(stream, Start(n), c)
          /\ bounds[n] = ValueEnd(stream, Start(n), c) + 1
          /\ bounds[n] <= pos
          /\ results[n] = SubSeq(stream, c + 1, bounds[n] - 1)
    BY <1>1 DEF NetHead, Framed
  <2>2. bounds[n] \in Nat
    BY <1>1 DEF NetHead, NetTyped
  <2>3. bounds[n] <= pos'
    BY ONLY <2>1, <2>2, <1>2, <1>1, pos' \in 0..Len(stream), pos <= pos'
  <2>4. (Start(n))' = Start(n)
    BY DEF Start
  <2> QED
    BY <2>1, <2>3, <2>4, <1>1 DEF Framed
<1>7. messages' # NotEncoded => messages' \in NetstrMessages /\ stream' = Encode(messages')[Len(messages')]
  BY Zenon DEF NetHead
<1>8. \A n \in 1..Len(results') : Framed(n)'
  BY <1>1, <1>6
<1>9. (Start(Len(results) + 1))' \in 0..pos'
  BY <1>3, <1>4
<1> QED
  BY <1>1, <1>3, <1>5, <1>7, <1>8, <1>9, Zenon DEF NetHead

(* A value that is complete becomes a result. *)
LEMMA HeadGrown ==
  ASSUME NetHead, NEW a, a = Start(Len(results) + 1), NEW c, Colon(stream, a, c),
         pos = ValueEnd(stream, a, c), pos < Len(stream), pos' = pos + 1,
         UNCHANGED <<stream, messages>>,
         results' = Append(results, SubSeq(stream, c + 1, pos)),
         bounds' = Append(bounds, pos + 1)
  PROVE  NetHead' /\ (Start(Len(results) + 1))' = pos + 1
<1>1. PICK l, m : l = Len(stream) /\ m = Len(results)
  OBVIOUS
<1>2. l \in Nat /\ pos \in 0..l /\ a \in 0..pos /\ m \in Nat /\ a \in Nat /\ pos \in Nat
  <2>1. l \in Nat /\ pos \in 0..l /\ a \in 0..pos /\ m \in Nat
    BY <1>1 DEF NetHead, NetTyped
  <2> QED
    BY ONLY <2>1
<1>3. stream \in Seq(NetByte) /\ bounds \in Seq(Nat) /\ results \in Seq(Seq(NetByte)) /\ Len(bounds) = m
  BY <1>1 DEF NetHead, NetTyped
<1>4. c \in Nat /\ a + 2 <= c /\ c <= l /\ c <= pos
  BY <1>1, <1>2, <1>3, ColonIs
<1>5. pos + 1 \in Nat /\ pos + 1 \in 0..l /\ c \in 1..l /\ (pos + 1) - 1 = pos /\ pos <= l /\ pos + 1 <= pos + 1
      /\ pos < l
  BY ONLY <1>1, <1>2, <1>4, pos < Len(stream)
<1>6. PICK v : v = SubSeq(stream, c + 1, pos) /\ v \in Seq(NetByte)
  <2>1. SubSeq(stream, c + 1, pos) \in Seq(NetByte)
    BY ONLY <1>1, <1>2, <1>3, <1>4, <1>5, PartIs
  <2> QED
    BY <2>1
<1>7. /\ bounds' \in Seq(Nat) /\ Len(bounds') = m + 1
      /\ \A k \in 1..m : bounds'[k] = bounds[k]
      /\ bounds'[m + 1] = pos + 1
      /\ \A k \in 1..(m + 1) : Start(k)' = Start(k)
      /\ Start((m + 1) + 1)' = pos + 1
  BY <1>3, <1>5, StartsGrow
<1>8. /\ results' \in Seq(Seq(NetByte)) /\ Len(results') = m + 1
      /\ \A k \in 1..m : results'[k] = results[k]
      /\ results'[m + 1] = v
  <2>1. PICK T : T = Seq(NetByte)
    OBVIOUS
  <2>2. results \in Seq(T) /\ v \in T /\ results' = Append(results, v)
    BY <2>1, <1>3, <1>6
  <2>3. /\ results' \in Seq(T) /\ Len(results') = Len(results) + 1
        /\ \A k \in 1..Len(results) : results'[k] = results[k]
        /\ results'[Len(results) + 1] = v
    BY ONLY <2>2, Appended
  <2> QED
    BY <2>1, <2>3, <1>1
<1>9. (Start(Len(results) + 1))' = pos + 1
  BY <1>7, <1>8 DEF Start
<1>10. NetTyped'
  BY <1>1, <1>3, <1>5, <1>7, <1>8 DEF NetTyped
<1>11. ASSUME NEW n \in 1..m PROVE Framed(n)'
  <2>1. PICK e \in 1..l :
          /\ Colon(stream, Start(n), e)
          /\ bounds[n] = ValueEnd(stream, Start(n), e) + 1
          /\ bounds[n] <= pos
          /\ results[n] = SubSeq(stream, e + 1, bounds[n] - 1)
    BY <1>1 DEF NetHead, Framed
  <2>2. bounds[n] \in Nat /\ n \in 1..(m + 1)
    BY <1>2, <1>3
  <2>3. bounds[n] <= pos'
    BY ONLY <2>1, <2>2, <1>2, pos' = pos + 1
  <2>4. (Start(n))' = Start(n) /\ bounds'[n] = bounds[n] /\ results'[n] = results[n]
    BY <1>7, <1>8, <2>2
  <2> QED
    BY <2>1, <2>3, <2>4, <1>1 DEF Framed
<1>12. Framed(m + 1)'
  <2>1. m + 1 \in 1..(m + 1)
    BY <1>2
  <2>2. (Start(m + 1))' = a
    BY <2>1, <1>1, <1>7
  <2>3. /\ Colon(stream, a, c)
        /\ bounds'[m + 1] = ValueEnd(stream, a, c) + 1
        /\ bounds'[m + 1] <= pos'
        /\ results'[m + 1] = SubSeq(stream, c + 1, bounds'[m + 1] - 1)
    <3>1. bounds'[m + 1] - 1 = pos
      BY ONLY <1>7, <1>5
    <3>2. results'[m + 1] = SubSeq(stream, c + 1, bounds'[m + 1] - 1)
      BY <3>1, <1>6, <1>8
    <3>3. bounds'[m + 1] <= pos'
      BY <1>7, <1>5
    <3> QED
      BY <3>2, <3>3, <1>7
  <2> QED
    BY <2>2, <2>3, <1>1, <1>5 DEF Framed
<1>13. \A n \in 1..Len(results') : Framed(n)'
  <2> TAKE n \in 1..Len(results')
  <2>1. n \in 1..m \/ n = m + 1
    <3>1. n \in 1..(m + 1)
      BY <1>8
    <3> QED
      BY ONLY <3>1, <1>2
  <2> QED
    BY <2>1, <1>11, <1>12
<1>14. messages' # NotEncoded => messages' \in NetstrMessages /\ stream' = Encode(messages')[Len(messages')]
  BY Zenon DEF NetHead
<1>15. (Start(Len(results) + 1))' \in 0..pos'
  BY <1>9, <1>5
<1> QED
  BY <1>9, <1>10, <1>13, <1>14, <1>15, Zenon DEF NetHead

(* A byte of a length. *)
LEMMA CountingPush ==
  ASSUME NetHead, NEW a \in 0..pos, Counting(a), pos < Len(stream), pos' = pos + 1, stream' = stream,
         NEW res, res = NetstrPush(d, stream[pos + 1]), d' = res.delimiter
  PROVE  res.ok = FALSE /\ Mode(a)'
<1>1. PICK q, b : q = Len(stream) /\ b = stream[pos + 1]
  OBVIOUS
<1>2. q \in Nat /\ pos \in Nat /\ a \in Nat /\ a <= pos /\ pos < q /\ pos <= q /\ pos + 1 \in 1..q
      /\ pos + 1 \in Nat /\ pos + 1 <= q
  <2>1. q \in Nat /\ pos \in 0..q /\ a \in 0..pos
    BY <1>1 DEF NetHead, NetTyped
  <2> QED
    BY ONLY <2>1, <1>1, pos < Len(stream)
<1>3. stream \in Seq(NetByte) /\ b \in NetByte
  <2>1. stream \in Seq(NetByte)
    BY DEF NetHead, NetTyped
  <2> QED
    BY <2>1, <1>1, <1>2
<1>4. PICK l : l = SubSeq(stream, a + 1, pos)
  OBVIOUS
<1>5. PICK r, n : d = Fields(r, l, << >>, n, FALSE, FALSE)
  BY <1>4 DEF Counting
<1>6. \A j \in (a + 1)..pos : IsDigit(stream[j])
  BY DEF Counting
<1>7. /\ l \in Seq(NetByte)
      /\ Len(l) = pos - a
      /\ \A j \in 1..(pos - a) : l[j] = stream[a + j]
  <2>1. /\ SubSeq(stream, a + 1, pos) \in Seq(NetByte)
        /\ Len(SubSeq(stream, a + 1, pos)) = pos - a
        /\ \A j \in 1..(pos - a) : SubSeq(stream, a + 1, pos)[j] = stream[a + j]
    BY ONLY <1>1, <1>2, <1>3, PartIs
  <2> QED
    BY <2>1, <1>4
<1>8. AllDigits(l)
  <2>1. \A j \in 1..(pos - a) : a + j \in (a + 1)..pos
    BY ONLY <1>2
  <2> QED
    BY <2>1, <1>6, <1>7 DEF AllDigits
<1>9. res = NetstrPush(Fields(r, l, << >>, n, FALSE, FALSE), b)
  BY <1>1, <1>5, Zenon
<1>13. Pushed(r, l, << >>, n, b)
  BY ONLY PushIs, Zenon
<1>10. CASE b = ":" /\ AtoiOK(l)
  <2>1. res = [delimiter |-> Fields(r, << >>, << >>, Atoi(l), TRUE, FALSE), ok |-> FALSE]
    BY ONLY <1>9, <1>10, <1>13, Zenon DEF Pushed
  <2>2. PICK f, D : f = FALSE /\ D = Fields(r, << >>, << >>, Atoi(l), TRUE, FALSE)
    BY Zenon
  <2>3. res = [delimiter |-> D, ok |-> f]
    BY ONLY <2>1, <2>2, Zenon
  <2>4. res.delimiter = D /\ res.ok = f
    BY ONLY <2>3
  <2>5. l # << >>
    BY <1>10 DEF AtoiOK
  <2>6. a + 1 <= pos
    <3>1. pos - a # 0
      BY <2>5, <1>7
    <3> QED
      BY ONLY <3>1, <1>2
  <2>7. PICK c : c = pos + 1
    OBVIOUS
  <2>8. c \in (a + 2)..q /\ c - 1 = pos /\ c \in Nat
    BY ONLY <2>6, <2>7, <1>2
  <2>9. SubSeq(stream, a + 1, c - 1) = l
    BY <2>8, <1>4
  <2>10. stream[c] = ":"
    BY <2>7, <1>1, <1>10
  <2>11. \A j \in (a + 1)..(c - 1) : IsDigit(stream[j])
    BY <2>8, <1>6
  <2>12. Colon(stream, a, c)
    BY <2>8, <2>9, <2>10, <2>11, <1>1, <1>10 DEF Colon
  <2>13. ValueEnd(stream, a, c) = c + Atoi(l)
    BY <2>9 DEF ValueEnd
  <2>14. Atoi(l) \in Nat
    BY <1>7, <1>8, AtoiIs
  <2>15. (c + Atoi(l)) - c = Atoi(l) /\ c <= c + Atoi(l)
    BY ONLY <2>8, <2>14
  <2>16. SubSeq(stream, c + 1, c) = << >>
    <3>1. /\ SubSeq(stream, c + 1, c) \in Seq(NetByte)
          /\ Len(SubSeq(stream, c + 1, c)) = c - c
      BY ONLY <2>7, <1>1, <1>2, <1>3, PartIs
    <3>2. c - c = 0
      BY ONLY <2>8
    <3> QED
      BY <3>1, <3>2
  <2>17. D = Fields(r, << >>, SubSeq(stream, c + 1, c), ValueEnd(stream, a, c) - c, TRUE, FALSE)
    BY <2>2, <2>13, <2>15, <2>16, Zenon
  <2>18. pos' = c /\ d' = D
    BY <2>4, <2>7
  <2>19. c <= c
    BY ONLY <2>8
  <2>20. Valuing(a, c)'
    BY <2>12, <2>13, <2>15, <2>17, <2>18, <2>19 DEF Valuing
  <2> QED
    BY <2>2, <2>4, <2>20, Zenon DEF Mode
<1>11. CASE b # ":" /\ IsDigit(b)
  <2>1. res = [delimiter |-> Fields(r, Append(l, b), << >>, n, FALSE, FALSE), ok |-> FALSE]
    BY ONLY <1>9, <1>11, <1>13, Zenon DEF Pushed
  <2>2. PICK f, D : f = FALSE /\ D = Fields(r, Append(l, b), << >>, n, FALSE, FALSE)
    BY Zenon
  <2>3. res = [delimiter |-> D, ok |-> f]
    BY ONLY <2>1, <2>2, Zenon
  <2>4. res.delimiter = D /\ res.ok = f
    BY ONLY <2>3
  <2>5. Append(l, b) = SubSeq(stream, a + 1, pos + 1)
    <3>1. Append(SubSeq(stream, a + 1, pos), stream[pos + 1]) = SubSeq(stream, a + 1, pos + 1)
      BY ONLY <1>1, <1>2, <1>3, PartGrows
    <3> QED
      BY ONLY <3>1, <1>1, <1>4
  <2>6. \A j \in (a + 1)..(pos + 1) : IsDigit(stream[j])
    <3> TAKE j \in (a + 1)..(pos + 1)
    <3>1. j \in (a + 1)..pos \/ j = pos + 1
      BY ONLY <1>2, j \in (a + 1)..(pos + 1)
    <3> QED
      BY <3>1, <1>1, <1>6, <1>11
  <2>7. d' = Fields(r, SubSeq(stream', a + 1, pos'), << >>, n, FALSE, FALSE)
    BY <2>2, <2>4, <2>5, Zenon
  <2>8. Counting(a)'
    BY <2>6, <2>7 DEF Counting
  <2> QED
    BY <2>2, <2>4, <2>8, Zenon DEF Mode
<1>12. CASE (b = ":" /\ ~AtoiOK(l)) \/ (b # ":" /\ ~IsDigit(b))
  <2>1. res = [delimiter |-> Fields(r, l, << >>, n, FALSE, TRUE), ok |-> FALSE]
    BY ONLY <1>9, <1>12, <1>13, Zenon DEF Pushed
  <2>2. PICK f, D : f = FALSE /\ D = Fields(r, l, << >>, n, FALSE, TRUE)
    BY Zenon
  <2>3. res = [delimiter |-> D, ok |-> f]
    BY ONLY <2>1, <2>2, Zenon
  <2>4. res.delimiter = D /\ res.ok = f
    BY ONLY <2>3
  <2>5. ~IsDigit(b)
    BY <1>12, DigitIs
  <2>6. ASSUME NEW c, Colon(stream, a, c) PROVE FALSE
    <3>1. /\ c \in Nat /\ a + 2 <= c /\ c <= q /\ stream[c] = ":"
          /\ \A j \in (a + 1)..(c - 1) : IsDigit(stream[j])
      BY <1>1, <1>2, <1>3, <2>6, ColonIs
    <3>2. AtoiOK(SubSeq(stream, a + 1, c - 1))
      BY <2>6 DEF Colon
    <3>3. c \notin (a + 1)..pos
      BY <3>1, <1>6, DigitIs
    <3>4. pos + 1 \notin (a + 1)..(c - 1)
      BY <3>1, <2>5, <1>1
    <3>5. c = pos + 1
      <4>1. c \in Nat /\ a + 2 <= c
        BY <3>1
      <4> QED
        BY ONLY <3>3, <3>4, <4>1, <1>2
    <3>6. c - 1 = pos
      BY ONLY <3>5, <1>2
    <3>7. AtoiOK(l) /\ b = ":"
      BY <3>1, <3>2, <3>5, <3>6, <1>1, <1>4
    <3> QED
      BY <3>7, <1>12
  <2>7. d' = Fields(r, l, << >>, n, FALSE, TRUE)
    BY <2>2, <2>4
  <2>8. Stuck(a)'
    BY <2>6, <2>7 DEF Stuck
  <2> QED
    BY <2>2, <2>4, <2>8, Zenon DEF Mode
<1> QED
  BY <1>10, <1>11, <1>12, Zenon

(* A byte behind a length that is no length. *)
LEMMA StuckPush ==
  ASSUME NEW a, Stuck(a), stream' = stream,
         NEW res, res = NetstrPush(d, stream[pos + 1]), d' = res.delimiter
  PROVE  res.ok = FALSE /\ Mode(a)'
<1>1. PICK r, l, v, n : d = Fields(r, l, v, n, FALSE, TRUE)
  BY DEF Stuck
<1>7. Pushed(r, l, v, n, stream[pos + 1])
  BY ONLY PushIs, Zenon
<1>2. res = [delimiter |-> d, ok |-> FALSE]
  BY <1>1, <1>7, Zenon DEF Pushed
<1>3. PICK f : f = FALSE
  BY Zenon
<1>4. res = [delimiter |-> d, ok |-> f]
  BY <1>2, <1>3, Zenon
<1>5. res.delimiter = d /\ res.ok = f
  BY ONLY <1>4
<1>6. Stuck(a)'
  BY <1>1, <1>5 DEF Stuck
<1> QED
  BY <1>3, <1>5, <1>6, Zenon DEF Mode

(* A byte of a value, or the byte behind it. *)
LEMMA ValuingPush ==
  ASSUME NetHead, NEW a \in 0..pos, NEW c, Valuing(a, c), pos < Len(stream), pos' = pos + 1, stream' = stream,
         NEW p, p = pos + 1,
         NEW res, res = NetstrPush(d, stream[pos + 1]), d' = res.delimiter
  PROVE  \/ res.ok = FALSE /\ Mode(a)'
         \/ /\ res.ok = TRUE
            /\ pos = ValueEnd(stream, a, c)
            /\ res.delimiter.Result = SubSeq(stream, c + 1, pos)
            /\ Counting(p)'
<1>1. PICK q, b, e : q = Len(stream) /\ b = stream[pos + 1] /\ e = ValueEnd(stream, a, c)
  OBVIOUS
<1>2. q \in Nat /\ pos \in Nat /\ a \in Nat /\ a <= pos /\ pos < q /\ pos <= q /\ pos + 1 \in 1..q
      /\ pos + 1 \in Nat /\ pos + 1 <= q
  <2>1. q \in Nat /\ pos \in 0..q /\ a \in 0..pos
    BY <1>1 DEF NetHead, NetTyped
  <2> QED
    BY ONLY <2>1, <1>1, pos < Len(stream)
<1>3. stream \in Seq(NetByte) /\ b \in NetByte
  <2>1. stream \in Seq(NetByte)
    BY DEF NetHead, NetTyped
  <2> QED
    BY <2>1, <1>1, <1>2
<1>4. Colon(stream, a, c) /\ c <= pos /\ pos <= e
  BY <1>1 DEF Valuing
<1>5. c \in Nat /\ e \in Nat
  BY <1>1, <1>2, <1>3, <1>4, ColonIs
<1>6. PICK v, n : v = SubSeq(stream, c + 1, pos) /\ n = e - pos
  OBVIOUS
<1>7. PICK r : d = Fields(r, << >>, v, n, TRUE, FALSE)
  BY <1>1, <1>6 DEF Valuing
<1>8. res = NetstrPush(Fields(r, << >>, v, n, TRUE, FALSE), b)
  BY <1>1, <1>7, Zenon
<1>11. Pushed(r, << >>, v, n, b)
  BY ONLY PushIs, Zenon
<1>9. CASE n = 0
  <2>1. res = [delimiter |-> Fields(v, << >>, << >>, n, FALSE, FALSE), ok |-> TRUE]
    BY ONLY <1>8, <1>9, <1>11, Zenon DEF Pushed
  <2>2. PICK t, D : t = TRUE /\ D = Fields(v, << >>, << >>, n, FALSE, FALSE)
    BY Zenon
  <2>3. res = [delimiter |-> D, ok |-> t]
    BY ONLY <2>1, <2>2, Zenon
  <2>4. res.delimiter = D /\ res.ok = t
    BY ONLY <2>3
  <2>5. D.Result = v
    BY <2>2 DEF Fields
  <2>6. pos = e
    BY ONLY <1>9, <1>6, <1>5, <1>2
  <2>7. p = pos + 1
    OBVIOUS
  <2>8. SubSeq(stream, p + 1, p) = << >>
    <3>1. /\ SubSeq(stream, p + 1, p) \in Seq(NetByte)
          /\ Len(SubSeq(stream, p + 1, p)) = p - p
      BY ONLY <2>7, <1>1, <1>2, <1>3, PartIs
    <3>2. p - p = 0
      BY ONLY <2>7, <1>2
    <3> QED
      BY <3>1, <3>2
  <2>9. d' = Fields(v, SubSeq(stream', p + 1, pos'), << >>, n, FALSE, FALSE)
    BY <2>2, <2>4, <2>7, <2>8, Zenon
  <2>10. \A j \in (p + 1)..pos' : IsDigit(stream'[j])
    <3>1. (p + 1)..pos' = {}
      BY ONLY <2>7, <1>2, pos' = pos + 1
    <3> QED
      BY <3>1
  <2>11. Counting(p)'
    BY <2>7, <2>9, <2>10 DEF Counting
  <2>12. pos = ValueEnd(stream, a, c) /\ res.delimiter.Result = SubSeq(stream, c + 1, pos)
    BY <2>4, <2>5, <2>6, <1>1, <1>6
  <2> QED
    BY <2>2, <2>4, <2>11, <2>12, Zenon
<1>10. CASE n # 0
  <2>1. res = [delimiter |-> Fields(r, << >>, Append(v, b), n - 1, TRUE, FALSE), ok |-> FALSE]
    BY ONLY <1>8, <1>10, <1>11, Zenon DEF Pushed
  <2>2. PICK f, D : f = FALSE /\ D = Fields(r, << >>, Append(v, b), n - 1, TRUE, FALSE)
    BY Zenon
  <2>3. res = [delimiter |-> D, ok |-> f]
    BY ONLY <2>1, <2>2, Zenon
  <2>4. res.delimiter = D /\ res.ok = f
    BY ONLY <2>3
  <2>5. Append(v, b) = SubSeq(stream, c + 1, pos + 1)
    <3>1. Append(SubSeq(stream, c + 1, pos), stream[pos + 1]) = SubSeq(stream, c + 1, pos + 1)
      BY ONLY <1>1, <1>2, <1>3, <1>4, <1>5, PartGrows
    <3> QED
      BY ONLY <3>1, <1>1, <1>6
  <2>6. n - 1 = e - (pos + 1) /\ pos + 1 <= e /\ c <= pos + 1
    <3>1. c <= pos /\ pos <= e
      BY <1>4
    <3> QED
      BY ONLY <3>1, <1>10, <1>2, <1>5, <1>6
  <2>7. d' = Fields(r, << >>, SubSeq(stream', c + 1, pos'), e - pos', TRUE, FALSE)
    BY <2>2, <2>4, <2>5, <2>6, Zenon
  <2>8. Valuing(a, c)'
    BY <2>6, <2>7, <1>1, <1>4 DEF Valuing
  <2> QED
    BY <2>2, <2>4, <2>8, Zenon DEF Mode
<1> QED
  BY <1>9, <1>10

(* What Reset does where no value is read. *)
Emptied(r, l, v, n, y) ==
  NetstrReset(Fields(r, l, v, n, FALSE, y)) = Fields(v, l, << >>, n, FALSE, y)

(* It does. *)
LEMMA ResetIs ==
  ASSUME NEW r, NEW l, NEW v, NEW n, NEW y
  PROVE  Emptied(r, l, v, n, y)
<1>1. PICK f : f = FALSE
  BY Zenon
<1>2. PICK D : D = Fields(r, l, v, n, f, y)
  OBVIOUS
<1>3. D.valBuff = v
  BY <1>2 DEF Fields
<1>4. PICK x : x = [D EXCEPT !.Result = v]
  OBVIOUS
<1>5. x = Fields(v, l, v, n, f, y)
  BY ONLY <1>2, <1>4 DEF Fields
<1>6. PICK e : e = << >>
  OBVIOUS
<1>7. PICK z : z = [x EXCEPT !.valBuff = e]
  OBVIOUS
<1>8. z = Fields(v, l, e, n, f, y)
  BY ONLY <1>5, <1>7 DEF Fields
<1>9. PICK w : w = [z EXCEPT !.valBuffMode = f]
  OBVIOUS
<1>10. w = Fields(v, l, e, n, f, y)
  BY ONLY <1>8, <1>9 DEF Fields
<1>11. [D EXCEPT !.Result = v, !.valBuff = e, !.valBuffMode = f] = w
  BY <1>4, <1>7, <1>9
<1>12. [D EXCEPT !.Result = D.valBuff, !.valBuff = << >>, !.valBuffMode = FALSE] = w
  BY ONLY <1>11, <1>1, <1>3, <1>6, Zenon
<1>13. NetstrReset(D) = w
  BY ONLY <1>12, Zenon DEF NetstrReset, useLenBuff
<1> QED
  BY ONLY <1>13, <1>10, <1>1, <1>2, <1>6, Zenon DEF Emptied

(* Reset between two messages. *)
LEMMA ModeReset ==
  ASSUME NEW a, Mode(a), ~d.valBuffMode, d' = NetstrReset(d), UNCHANGED <<stream, pos>>
  PROVE  Mode(a)'
<1>1. CASE Counting(a)
  <2>1. PICK r, n : d = Fields(r, SubSeq(stream, a + 1, pos), << >>, n, FALSE, FALSE)
    BY <1>1 DEF Counting
  <2>4. PICK l, v, y : l = SubSeq(stream, a + 1, pos) /\ v = << >> /\ y = FALSE
    BY Zenon
  <2>5. Emptied(r, l, v, n, y)
    BY ONLY ResetIs, Zenon
  <2>2. d' = Fields(<< >>, SubSeq(stream, a + 1, pos), << >>, n, FALSE, FALSE)
    BY ONLY <2>1, <2>4, <2>5, d' = NetstrReset(d), Zenon DEF Emptied
  <2>3. Counting(a)'
    BY <2>2, <1>1 DEF Counting
  <2> QED
    BY <2>3 DEF Mode
<1>2. CASE \E c : Valuing(a, c)
  <2>1. PICK c, r : d = Fields(r, << >>, SubSeq(stream, c + 1, pos), ValueEnd(stream, a, c) - pos, TRUE, FALSE)
    BY <1>2 DEF Valuing
  <2>2. d.valBuffMode
    BY ONLY <2>1 DEF Fields
  <2> QED
    BY <2>2
<1>3. CASE Stuck(a)
  <2>1. PICK r, l, v, n : d = Fields(r, l, v, n, FALSE, TRUE)
    BY <1>3 DEF Stuck
  <2>4. PICK y : y = TRUE
    BY Zenon
  <2>5. Emptied(r, l, v, n, y)
    BY ONLY ResetIs, Zenon
  <2>2. d' = Fields(v, l, << >>, n, FALSE, TRUE)
    BY ONLY <2>1, <2>4, <2>5, d' = NetstrReset(d), Zenon DEF Emptied
  <2>3. Stuck(a)'
    BY <2>2, <1>3 DEF Stuck
  <2> QED
    BY <2>3 DEF Mode
<1> QED
  BY <1>1, <1>2, <1>3 DEF Mode

(* Every step keeps the invariant. *)
LEMMA NetInvariant == NetInv /\ [Next]_vars => NetInv'
<1> SUFFICES ASSUME NetInv, [Next]_vars, kind' = "netstr", ~cut'
             PROVE  NetHead' /\ (Mode(Start(Len(results) + 1)))'
  BY DEF NetInv
<1>1. CASE Push
  <2>1. /\ kind = "netstr" /\ pos < Len(stream) /\ pos' = pos + 1 /\ ~cut
        /\ UNCHANGED <<kind, messages, stream, resets, cut, eof>>
    BY <1>1 DEF Push
  <2>2. NetHead /\ Mode(Start(Len(results) + 1))
    BY <2>1 DEF NetInv
  <2>3. PICK res : res = NetstrPush(d, stream[pos + 1])
    OBVIOUS
  <2>4. /\ d' = res.delimiter
        /\ results' = IF res.ok THEN Append(results, res.delimiter.Result) ELSE results
        /\ bounds' = IF res.ok THEN Append(bounds, pos + 1) ELSE bounds
    BY <1>1, <2>3, Zenon DEF Push
  <2>5. PICK a : a = Start(Len(results) + 1)
    OBVIOUS
  <2>6. a \in 0..pos
    BY <2>2, <2>5 DEF NetHead
  <2>7. pos' \in 0..Len(stream) /\ pos <= pos'
    <3>1. PICK l : l = Len(stream) /\ l \in Nat /\ pos \in 0..l
      BY <2>2 DEF NetHead, NetTyped
    <3> QED
      BY ONLY <3>1, <2>1
  <2>8. CASE res.ok = FALSE /\ Mode(a)'
    <3>1. UNCHANGED <<stream, messages, results, bounds>>
      BY <2>1, <2>4, <2>8
    <3>2. NetHead' /\ Start(Len(results) + 1)' = a
      BY <3>1, <2>2, <2>5, <2>7, HeadKept
    <3> QED
      BY <3>2, <2>8
  <2>9. CASE Counting(a)
    BY <2>1, <2>2, <2>3, <2>4, <2>6, <2>8, <2>9, CountingPush
  <2>10. CASE Stuck(a)
    BY <2>1, <2>3, <2>4, <2>8, <2>10, StuckPush
  <2>11. CASE \E c : Valuing(a, c)
    <3>1. PICK c : Valuing(a, c)
      BY <2>11
    <3>2. PICK p : p = pos + 1
      OBVIOUS
    <3>3. \/ res.ok = FALSE /\ Mode(a)'
          \/ /\ res.ok = TRUE
             /\ pos = ValueEnd(stream, a, c)
             /\ res.delimiter.Result = SubSeq(stream, c + 1, pos)
             /\ Counting(p)'
      BY <2>1, <2>2, <2>3, <2>4, <2>6, <3>1, <3>2, ValuingPush
    <3>4. CASE /\ res.ok = TRUE
               /\ pos = ValueEnd(stream, a, c)
               /\ res.delimiter.Result = SubSeq(stream, c + 1, pos)
               /\ Counting(p)'
      <4>1. results' = Append(results, SubSeq(stream, c + 1, pos)) /\ bounds' = Append(bounds, pos + 1)
        BY <2>4, <3>4
      <4>2. Colon(stream, a, c)
        BY <3>1 DEF Valuing
      <4>3. UNCHANGED <<stream, messages>>
        BY <2>1
      <4>4. NetHead' /\ (Start(Len(results) + 1))' = p
        BY <4>1, <4>2, <4>3, <3>2, <3>4, <2>1, <2>2, <2>5, HeadGrown
      <4>5. Mode(p)'
        BY <3>4 DEF Mode
      <4> QED
        BY <4>4, <4>5
    <3> QED
      BY <3>3, <3>4, <2>8
  <2> QED
    BY <2>2, <2>5, <2>9, <2>10, <2>11 DEF Mode
<1>2. CASE Reset
  <2>1. /\ kind = "netstr" /\ d' = NetstrReset(d)
        /\ UNCHANGED <<messages, stream, pos, results, bounds>>
    BY <1>2 DEF Reset
  <2>2. ~(cut \/ d.valBuffMode)
    BY <1>2, Zenon DEF Reset
  <2>3. NetHead /\ Mode(Start(Len(results) + 1))
    BY <2>1, <2>2 DEF NetInv
  <2>4. PICK a : a = Start(Len(results) + 1)
    OBVIOUS
  <2>5. pos' \in 0..Len(stream) /\ pos <= pos'
    <3>1. PICK l : l = Len(stream) /\ l \in Nat /\ pos \in 0..l
      BY <2>3 DEF NetHead, NetTyped
    <3> QED
      BY ONLY <3>1, <2>1
  <2>6. NetHead' /\ Start(Len(results) + 1)' = a
    BY <2>1, <2>3, <2>4, <2>5, HeadKept
  <2>7. Mode(a)'
    BY <2>1, <2>2, <2>3, <2>4, ModeReset
  <2> QED
    BY <2>6, <2>7
<1>3. CASE ReadLine \/ ReadLineEOF \/ LexNext
  <2>1. kind # "netstr" /\ kind' = kind
    BY <1>3 DEF ReadLine, ReadLineEOF, LexNext
  <2> QED
    BY <2>1
<1>4. CASE UNCHANGED vars
  <2>1. UNCHANGED <<kind, messages, stream, pos, d, results, bounds, cut>>
    BY <1>4 DEF vars
  <2>2. NetHead /\ Mode(Start(Len(results) + 1))
    BY <2>1 DEF NetInv
  <2>3. NetHead'
    <3>1. pos' \in 0..Len(stream) /\ pos <= pos'
      <4>1. PICK l : l = Len(stream) /\ l \in Nat /\ pos \in 0..l
        BY <2>2 DEF NetHead, NetTyped
      <4> QED
        BY ONLY <4>1, <2>1
    <3> QED
      BY <3>1, <2>1, <2>2, HeadKept
  <2>4. PICK a : a = Start(Len(results) + 1)
    OBVIOUS
  <2>5. (Start(Len(results) + 1))' = a
    BY <2>1, <2>4 DEF Start
  <2>6. Mode(a)'
    BY <2>1, <2>2, <2>4 DEF Mode, Counting, Valuing, Stuck
  <2> QED
    BY <2>3, <2>5, <2>6
<1> QED
  BY <1>1, <1>2, <1>3, <1>4 DEF Next, Done

(* The value the delimiter has not returned is not complete. *)
LEMMA NotYet ==
  ASSUME NetHead, NEW a \in 0..pos, Mode(a), NEW c, Colon(stream, a, c)
  PROVE  ValueEnd(stream, a, c) \in Nat /\ ValueEnd(stream, a, c) >= pos
<1>1. PICK q, v : q = Len(stream) /\ v = ValueEnd(stream, a, c)
  OBVIOUS
<1>2. stream \in Seq(NetByte) /\ q \in Nat /\ pos \in 0..q
  BY <1>1 DEF NetHead, NetTyped
<1>3. a \in Nat /\ pos \in Nat
  BY ONLY <1>2, a \in 0..pos
<1>4. c \in Nat /\ a + 2 <= c /\ stream[c] = ":" /\ v \in Nat /\ c <= v
  BY <1>1, <1>2, <1>3, ColonIs
<1>5. CASE Counting(a)
  <2>1. c \notin (a + 1)..pos
    BY <1>4, <1>5, DigitIs DEF Counting
  <2>2. c \in Nat /\ a + 2 <= c /\ v \in Nat /\ c <= v
    BY <1>4
  <2>3. v >= pos
    BY ONLY <2>1, <2>2, <1>3
  <2> QED
    BY <2>2, <2>3, <1>1
<1>6. CASE \E e : Valuing(a, e)
  <2>1. PICK e : Colon(stream, a, e) /\ pos <= ValueEnd(stream, a, e)
    BY <1>6 DEF Valuing
  <2>2. e = c
    BY <2>1, <1>2, <1>3, ColonOnce
  <2>3. pos <= v /\ v \in Nat
    BY <2>1, <2>2, <1>1, <1>4
  <2>4. v >= pos
    BY ONLY <2>3, <1>3
  <2> QED
    BY <2>3, <2>4, <1>1
<1>7. CASE Stuck(a)
  BY <1>7 DEF Stuck
<1> QED
  BY <1>5, <1>6, <1>7 DEF Mode

(* At the start. *)
LEMMA NetInit == Init => NetInv
<1> SUFFICES ASSUME Init, kind = "netstr"
             PROVE  NetHead /\ Mode(Start(Len(results) + 1))
  BY DEF NetInv
<1>1. pos = 0 /\ results = << >> /\ bounds = << >> /\ d = NewNetstrDelimiter
  BY DEF Init
<1>2. \/ messages \in NetstrMessages /\ stream = Encode(messages)[Len(messages)]
      \/ messages = NotEncoded /\ stream \in NetstrStreams
  BY DEF Init
<1>3. stream \in Seq(NetByte)
  <2>1. CASE messages \in NetstrMessages /\ stream = Encode(messages)[Len(messages)]
    <3>1. PICK N, E : N = Len(messages) /\ E = Encode(messages)
      OBVIOUS
    <3>2. messages \in Seq(Seq(STRING))
      BY <2>1, ScannersAssumption
    <3>3. N \in Nat /\ \A k \in 0..N : E[k] \in Seq(NetByte)
      BY ONLY <3>1, <3>2, EncodeIs
    <3>4. N \in 0..N
      BY <3>3
    <3> QED
      BY <3>1, <3>3, <3>4, <2>1
  <2>2. CASE stream \in NetstrStreams
    BY <2>2, ScannersAssumption, StringsAre
  <2> QED
    BY <2>1, <2>2, <1>2
<1>4. PICK l : l = Len(stream) /\ l \in Nat
  BY <1>3
<1>5. Start(Len(results) + 1) = 0 /\ Len(results) = 0
  BY <1>1 DEF Start
<1>6. NetTyped
  BY <1>1, <1>3, <1>4 DEF NetTyped
<1>7. NetHead
  BY <1>1, <1>2, <1>5, <1>6 DEF NetHead
<1>8. SubSeq(stream, 0 + 1, 0) = << >>
  BY <1>3
<1>9. NewNetstrDelimiter = Fields(<< >>, << >>, << >>, 0, FALSE, FALSE)
  BY Zenon DEF NewNetstrDelimiter, Fields
<1>10. d = Fields(<< >>, SubSeq(stream, 0 + 1, pos), << >>, 0, FALSE, FALSE)
  BY <1>1, <1>8, <1>9, Zenon
<1>11. \A j \in (0 + 1)..pos : IsDigit(stream[j])
  <2>1. (0 + 1)..pos = {}
    BY ONLY <1>1
  <2> QED
    BY <2>1
<1>12. Counting(0)
  BY <1>10, <1>11 DEF Counting
<1> QED
  BY <1>5, <1>7, <1>12 DEF Mode

(* Where Encode has put a value. *)
LEMMA FrameIs ==
  ASSUME NEW s, s \in Seq(NetByte), NEW e, e \in Seq(NetByte), NEW v, v \in Seq(NetByte),
         Len(v) <= MaxInt, NEW q, q = Len(Behind(e, v)), q <= Len(s),
         \A j \in 1..q : s[j] = Behind(e, v)[j],
         NEW a, a = Len(e)
  PROVE  \E c : /\ Colon(s, a, c)
                /\ ValueEnd(s, a, c) = q - 1
                /\ SubSeq(s, c + 1, q - 1) = v
<1>1. PICK D, n, B : D = Decimal[Len(v)] /\ n = Len(v) /\ B = Behind(e, v)
  OBVIOUS
<1>2. PICK l, h : l = Len(D) /\ h = Len(s)
  OBVIOUS
<1>3. n \in Nat /\ a \in Nat /\ h \in Nat
  BY <1>1, <1>2
<1>4. /\ D \in Seq(NetByte) /\ l \in Nat /\ l >= 1 /\ Atoi(D) = n /\ AllDigits(D)
  <2>1. D \in Seq(DigitByte) /\ AllDigits(D) /\ Len(D) >= 1 /\ Atoi(D) = n
    BY <1>1, <1>3, DecimalIs
  <2>2. DigitByte \subseteq NetByte
    BY DEF DigitByte, NetByte
  <2> QED
    BY <2>1, <2>2, <1>2
<1>5. /\ q = ((a + l) + 1) + (n + 1)
      /\ \A j \in 1..l : B[a + j] = D[j]
      /\ B[(a + l) + 1] = ":"
      /\ \A j \in 1..n : B[((a + l) + 1) + j] = v[j]
  <2>1. Parts(Behind(e, v), e, v, D, a, l, n)
    BY ONLY <1>1, <1>2, e \in Seq(NetByte), v \in Seq(NetByte), a = Len(e), BehindIs
  <2> QED
    BY <2>1, <1>1 DEF Parts
<1>6. PICK p, c : p = a + l /\ c = (a + l) + 1
  OBVIOUS
<1>7. q = ((a + l) + 1) + (n + 1) /\ q <= h /\ l \in Nat /\ l >= 1
  BY <1>2, <1>4, <1>5
<1>8. /\ p \in Nat /\ c \in Nat /\ a <= p /\ p <= h /\ p - a = l /\ c - 1 = p
      /\ c \in (a + 2)..h /\ q - 1 = c + n /\ q - 1 \in Nat /\ c <= q - 1 /\ q - 1 <= h /\ (q - 1) - c = n
      /\ \A j \in 1..l : a + j \in 1..q
      /\ \A j \in 1..n : c + j \in 1..q
      /\ c \in 1..q
  BY ONLY <1>3, <1>6, <1>7
<1>9. SubSeq(s, a + 1, p) = D
  <2>1. PICK t : t = SubSeq(s, a + 1, p)
    OBVIOUS
  <2>2. t \in Seq(NetByte) /\ Len(t) = p - a /\ \A j \in 1..(p - a) : t[j] = s[a + j]
    BY ONLY <2>1, <1>2, <1>3, <1>8, s \in Seq(NetByte), PartIs
  <2>5. ASSUME NEW j \in 1..l PROVE t[j] = D[j]
    <3>1. t[j] = s[a + j] /\ a + j \in 1..q
      BY <2>2, <1>8
    <3>2. s[a + j] = B[a + j]
      BY <3>1, <1>1
    <3> QED
      BY <3>1, <3>2, <1>5
  <2>3. \A j \in 1..l : t[j] = D[j]
    BY <2>5
  <2>4. t = D
    BY ONLY <2>2, <2>3, <1>2, <1>4, <1>8, SameElements
  <2> QED
    BY <2>1, <2>4
<1>10. SubSeq(s, c + 1, q - 1) = v
  <2>1. PICK t, y : t = SubSeq(s, c + 1, q - 1) /\ y = q - 1
    OBVIOUS
  <2>7. t = SubSeq(s, c + 1, y) /\ c \in Nat /\ y \in Nat /\ c <= y /\ y <= Len(s)
    BY <2>1, <1>2, <1>8
  <2>2. t \in Seq(NetByte) /\ Len(t) = y - c /\ \A j \in 1..(y - c) : t[j] = s[c + j]
    BY ONLY <2>7, s \in Seq(NetByte), PartIs
  <2>3. y - c = n /\ t \in Seq(NetByte) /\ v \in Seq(NetByte) /\ Len(t) = Len(v)
    BY <2>1, <2>2, <1>1, <1>8
  <2>4. \A j \in 1..n : t[j] = v[j]
    BY <2>2, <2>3, <1>1, <1>5, <1>6, <1>8
  <2>5. \A j \in 1..Len(t) : t[j] = v[j]
    BY <2>3, <2>4, <1>1
  <2>6. t = v
    BY ONLY <2>3, <2>5, SameElements
  <2> QED
    BY <2>1, <2>6
<1>11. \A j \in (a + 1)..(c - 1) : IsDigit(s[j])
  <2> TAKE j \in (a + 1)..(c - 1)
  <2>1. PICK i : i = j - a
    OBVIOUS
  <2>2. i \in 1..l /\ a + i = j
    BY ONLY <2>1, <1>3, <1>6, <1>7, j \in (a + 1)..(c - 1)
  <2>3. s[j] = D[i]
    BY <2>2, <1>1, <1>5, <1>8
  <2> QED
    BY <2>2, <2>3, <1>2, <1>4 DEF AllDigits
<1>12. s[c] = ":"
  BY <1>1, <1>5, <1>6, <1>8
<1>13. AtoiOK(D)
  <2>1. D # << >>
    BY <1>2, <1>4
  <2> QED
    BY <2>1, <1>1, <1>4 DEF AtoiOK
<1>14. SubSeq(s, a + 1, c - 1) = D
  BY <1>8, <1>9
<1>15. Colon(s, a, c)
  BY <1>2, <1>8, <1>11, <1>12, <1>13, <1>14 DEF Colon
<1>16. ValueEnd(s, a, c) = q - 1
  BY <1>4, <1>8, <1>14 DEF ValueEnd
<1> QED
  BY <1>10, <1>15, <1>16

(* What is encoded first is a prefix of the whole. *)
LEMMA EncodedPrefix ==
  ASSUME NEW m, m \in Seq(Seq(STRING)), NEW N, N = Len(m), NEW E, E = Encode(m), NEW s, s = E[N]
  PROVE  \A k \in 0..N : Len(E[k]) <= Len(s) /\ \A j \in 1..Len(E[k]) : s[j] = E[k][j]
<1>1. /\ N \in Nat
      /\ \A k \in 1..N : E[k] = Behind(E[k - 1], m[k]) /\ m[k] \in Seq(NetByte)
      /\ \A k \in 0..N : E[k] \in Seq(NetByte)
  BY EncodeIs
<1>2. PICK h : h = Len(s) /\ h \in Nat
  <2>1. N \in 0..N
    BY <1>1
  <2> QED
    BY ONLY <2>1, <1>1, s = E[N]
<1> DEFINE Good(k) == Len(E[k]) <= h /\ \A j \in 1..Len(E[k]) : s[j] = E[k][j]
           K == {i \in 0..N : Good(N - i)}
<1>3. 0 \in K
  <2>1. N - 0 = N /\ 0 \in 0..N /\ h <= h
    BY ONLY <1>1, <1>2
  <2> QED
    BY <2>1, <1>2
<1>4. ASSUME NEW i \in 1..N, i - 1 \in K PROVE i \in K
  <2>1. PICK k : k = N - (i - 1)
    OBVIOUS
  <2>2. k \in 1..N /\ k - 1 \in 0..N /\ N - i = k - 1 /\ i \in 0..N
    BY ONLY <2>1, <1>1, i \in 1..N
  <2>3. Len(E[k]) <= h /\ \A j \in 1..Len(E[k]) : s[j] = E[k][j]
    BY <1>4, <2>1
  <2>4. PICK e, v : e = E[k - 1] /\ v = m[k] /\ e \in Seq(NetByte) /\ v \in Seq(NetByte) /\ E[k] = Behind(e, v)
    BY <1>1, <2>2
  <2>5. PICK D, a, l, n, B : D = Decimal[Len(v)] /\ a = Len(e) /\ l = Len(D) /\ n = Len(v) /\ B = E[k]
    OBVIOUS
  <2>6. Parts(B, e, v, D, a, l, n)
    BY ONLY <2>4, <2>5, BehindIs
  <2>7. Len(B) = ((a + l) + 1) + (n + 1) /\ \A j \in 1..a : B[j] = e[j]
    BY <2>6 DEF Parts
  <2>8. a \in Nat /\ n \in Nat /\ l \in Nat
    <3>1. a \in Nat /\ n \in Nat
      BY <2>4, <2>5
    <3>2. D \in Seq(DigitByte)
      BY <2>5, <3>1, DecimalIs
    <3> QED
      BY <3>1, <3>2, <2>5
  <2>9. a <= h /\ \A j \in 1..a : j \in 1..Len(B)
    <3>1. Len(B) <= h
      BY <2>3, <2>5
    <3> QED
      BY ONLY <3>1, <2>7, <2>8, <1>2
  <2>10. Good(k - 1)
    BY <2>3, <2>4, <2>5, <2>7, <2>9
  <2> QED
    BY <2>2, <2>10
<1>5. \A i \in 0..N : i \in K
  <2>1. K \in SUBSET (0..N)
    OBVIOUS
  <2>2. \A i \in 1..N : i - 1 \in K => i \in K
    BY <1>4
  <2> HIDE DEF K
  <2> QED
    BY ONLY <1>1, <1>3, <2>1, <2>2, StepByStep
<1>6. ASSUME NEW k \in 0..N PROVE Good(k)
  <2>1. N - k \in 0..N /\ N - (N - k) = k
    BY ONLY <1>1, k \in 0..N
  <2> QED
    BY <2>1, <1>5
<1> QED
  BY <1>2, <1>6

(* The netstring of v lies in s behind a, and v ends at z. *)
FrameOf(s, a, z, v) ==
  \E c : /\ Colon(s, a, c)
         /\ ValueEnd(s, a, c) = z
         /\ SubSeq(s, c + 1, z) = v

(* Where each value lies in what encodes them. *)
LEMMA EncodedFrame ==
  ASSUME NEW m, m \in NetstrMessages, NEW N, N = Len(m), NEW E, E = Encode(m), NEW s, s = E[N],
         NEW k, k \in 1..N
  PROVE  FrameOf(s, Len(E[k - 1]), Len(E[k]) - 1, m[k])
<1>1. m \in Seq(Seq(STRING)) /\ \A i \in DOMAIN m : Len(m[i]) <= MaxInt
  BY ScannersAssumption
<1>2. /\ N \in Nat
      /\ E[k] = Behind(E[k - 1], m[k]) /\ m[k] \in Seq(NetByte)
      /\ \A i \in 0..N : E[i] \in Seq(NetByte)
  BY <1>1, EncodeIs
<1>3. k - 1 \in 0..N /\ k \in 0..N /\ N \in 0..N
  BY ONLY <1>2, k \in 1..N
<1>4. Len(E[k]) <= Len(s) /\ \A j \in 1..Len(E[k]) : s[j] = E[k][j]
  <2>1. \A i \in 0..N : Len(E[i]) <= Len(s) /\ \A j \in 1..Len(E[i]) : s[j] = E[i][j]
    BY ONLY <1>1, N = Len(m), E = Encode(m), s = E[N], EncodedPrefix
  <2> QED
    BY <2>1, <1>3
<1>5. PICK e, v, q, a : e = E[k - 1] /\ v = m[k] /\ q = Len(E[k]) /\ a = Len(E[k - 1])
  OBVIOUS
<1>6. /\ s \in Seq(NetByte) /\ e \in Seq(NetByte) /\ v \in Seq(NetByte)
      /\ q = Len(Behind(e, v)) /\ q <= Len(s) /\ a = Len(e)
      /\ \A j \in 1..q : s[j] = Behind(e, v)[j]
  BY <1>2, <1>3, <1>4, <1>5
<1>7. Len(v) <= MaxInt
  <2>1. k \in DOMAIN m
    BY <1>1
  <2> QED
    BY <2>1, <1>1, <1>5
<1>8. \E c : Colon(s, a, c) /\ ValueEnd(s, a, c) = q - 1 /\ SubSeq(s, c + 1, q - 1) = v
  BY ONLY <1>6, <1>7, FrameIs
<1> QED
  BY <1>5, <1>8, Zenon DEF FrameOf

(* The results are the first of the encoded values. *)
LEMMA ResultsAre ==
  ASSUME NetHead, messages # NotEncoded, NEW N, N = Len(messages), NEW E, E = Encode(messages)
  PROVE  \A n \in 0..Len(results) :
           /\ n <= N
           /\ Start(n + 1) = Len(E[n])
           /\ n > 0 => results[n] = messages[n]
<1>1. messages \in NetstrMessages /\ stream = E[N] /\ stream \in Seq(NetByte)
  BY Zenon DEF NetHead, NetTyped
<1>2. PICK R : R = Len(results) /\ R \in Nat
  BY DEF NetHead, NetTyped
<1>3. messages \in Seq(Seq(STRING))
  BY <1>1, ScannersAssumption
<1>4. N \in Nat /\ E[0] = << >> /\ \A k \in 0..N : E[k] \in Seq(NetByte)
  BY <1>3, EncodeIs
<1>5. PICK h : h = Len(stream) /\ h \in Nat
  BY <1>1
<1> DEFINE Good(n) == n <= N /\ Start(n + 1) = Len(E[n]) /\ (n > 0 => results[n] = messages[n])
           K == {n \in 0..R : Good(n)}
<1>6. 0 \in K
  <2>1. Start(0 + 1) = 0
    BY DEF Start
  <2>2. 0 <= N /\ ~(0 > 0) /\ 0 \in 0..R
    BY ONLY <1>2, <1>4
  <2> QED
    BY <2>1, <2>2, <1>4
<1>7. ASSUME NEW n \in 1..R, n - 1 \in K PROVE n \in K
  <2>1. n \in Nat /\ n \in 0..R /\ (n - 1) + 1 = n /\ n - 1 \in Nat /\ n + 1 # 1 /\ (n + 1) - 1 = n /\ n > 0
    BY ONLY <1>2, n \in 1..R
  <2>2. n - 1 <= N /\ Start((n - 1) + 1) = Len(E[n - 1])
    BY <1>7
  <2>3. PICK a : a = Start(n)
    OBVIOUS
  <2>4. a = Len(E[n - 1]) /\ a \in Nat
    <3>1. n - 1 \in 0..N
      BY ONLY <2>1, <2>2, <1>4
    <3> QED
      BY <3>1, <2>1, <2>2, <2>3, <1>4
  <2>5. PICK e \in 1..h :
          /\ Colon(stream, a, e)
          /\ bounds[n] = ValueEnd(stream, a, e) + 1
          /\ results[n] = SubSeq(stream, e + 1, bounds[n] - 1)
    BY <2>3, <1>2, <1>5 DEF NetHead, Framed
  <2>6. e \in Nat /\ a + 2 <= e /\ e <= h
    BY <2>4, <2>5, <1>1, <1>5, ColonIs
  <2>7. n \in 1..N
    <3>1. n - 1 # N
      <4>1. SUFFICES ASSUME n - 1 = N PROVE FALSE
        OBVIOUS
      <4>2. a = h
        BY <4>1, <2>4, <1>1, <1>5
      <4> QED
        BY ONLY <4>2, <2>6, <2>4
    <3> QED
      BY ONLY <3>1, <2>1, <2>2, <1>4
  <2>8. PICK c : /\ Colon(stream, a, c)
                 /\ ValueEnd(stream, a, c) = Len(E[n]) - 1
                 /\ SubSeq(stream, c + 1, Len(E[n]) - 1) = messages[n]
    <3>1. FrameOf(stream, Len(E[n - 1]), Len(E[n]) - 1, messages[n])
      BY ONLY <2>7, <1>1, N = Len(messages), E = Encode(messages), EncodedFrame
    <3> QED
      BY <3>1, <2>4, Zenon DEF FrameOf
  <2>9. c = e
    BY <2>4, <2>5, <2>8, <1>1, ColonOnce
  <2>10. PICK g : g = Len(E[n]) /\ g \in Nat /\ n \in 0..N /\ n <= N
    <3>1. n \in 0..N /\ n <= N
      BY ONLY <2>7, <1>4
    <3> QED
      BY <3>1, <1>4
  <2>11. bounds[n] = g
    <3>1. bounds[n] = (g - 1) + 1
      BY <2>5, <2>8, <2>9, <2>10
    <3> QED
      BY ONLY <3>1, <2>10
  <2>12. Start(n + 1) = bounds[n]
    BY <2>1 DEF Start
  <2>13. results[n] = messages[n]
    BY <2>5, <2>8, <2>9, <2>10, <2>11
  <2>14. Good(n)
    BY <2>10, <2>11, <2>12, <2>13
  <2> QED
    BY <2>1, <2>14
<1>8. \A n \in 0..R : n \in K
  <2>1. K \in SUBSET (0..R)
    OBVIOUS
  <2>2. \A n \in 1..R : n - 1 \in K => n \in K
    BY <1>7
  <2> HIDE DEF K
  <2> QED
    BY ONLY <1>2, <1>6, <2>1, <2>2, StepByStep
<1> QED
  BY <1>2, <1>8

(* At the end of the stream they are all of them. *)
LEMMA AllReturned ==
  ASSUME NetHead, Mode(Start(Len(results) + 1)), messages # NotEncoded, pos = Len(stream)
  PROVE  results = messages
<1>1. PICK N, E, R : N = Len(messages) /\ E = Encode(messages) /\ R = Len(results)
  OBVIOUS
<1>2. /\ messages \in NetstrMessages /\ stream = E[N] /\ stream \in Seq(NetByte)
      /\ results \in Seq(Seq(NetByte))
  BY <1>1, Zenon DEF NetHead, NetTyped
<1>3. messages \in Seq(Seq(STRING)) /\ messages \in Seq(Seq(NetByte))
  BY <1>2, ScannersAssumption, StringsAre
<1>4. N \in Nat /\ R \in Nat /\ \A k \in 0..N : E[k] \in Seq(NetByte)
  <2>1. N \in Nat /\ \A k \in 0..N : E[k] \in Seq(NetByte)
    BY ONLY <1>1, <1>3, EncodeIs
  <2> QED
    BY <2>1, <1>1, <1>2
<1>5. \A n \in 0..R : n <= N /\ Start(n + 1) = Len(E[n]) /\ (n > 0 => results[n] = messages[n])
  BY <1>1, ResultsAre
<1>6. R \in 0..R /\ R <= N /\ Start(R + 1) = Len(E[R])
  BY <1>4, <1>5
<1>7. R = N
  <2> SUFFICES ASSUME R # N PROVE FALSE
    OBVIOUS
  <2>1. PICK k : k = R + 1
    OBVIOUS
  <2>2. k \in 1..N /\ k - 1 = R /\ k \in 0..N
    BY ONLY <2>1, <1>4, <1>6, R # N
  <2>3. PICK a : a = Start(R + 1)
    OBVIOUS
  <2>4. PICK c : Colon(stream, a, c) /\ ValueEnd(stream, a, c) = Len(E[k]) - 1
    <3>1. FrameOf(stream, Len(E[k - 1]), Len(E[k]) - 1, messages[k])
      BY ONLY <2>2, <1>1, <1>2, EncodedFrame
    <3> QED
      BY <3>1, <2>2, <2>3, <1>6, Zenon DEF FrameOf
  <2>5. Len(E[k]) <= Len(stream) /\ Len(E[k]) \in Nat
    <3>1. \A i \in 0..N : Len(E[i]) <= Len(stream) /\ \A j \in 1..Len(E[i]) : stream[j] = E[i][j]
      BY ONLY <1>1, <1>2, <1>3, EncodedPrefix
    <3> QED
      BY <3>1, <2>2, <1>4
  <2>6. a \in 0..pos /\ Mode(a)
    BY <2>3, <1>1 DEF NetHead
  <2>7. ValueEnd(stream, a, c) >= pos
    BY <2>4, <2>6, NotYet
  <2>8. Len(stream) \in Nat
    BY <1>2
  <2>9. PICK g : g = Len(E[k])
    OBVIOUS
  <2>10. g <= pos /\ g \in Nat /\ g - 1 >= pos /\ pos \in Nat
    BY <2>4, <2>5, <2>7, <2>8, <2>9
  <2> QED
    BY ONLY <2>10
<1>8. \A n \in 1..R : results[n] = messages[n]
  <2> TAKE n \in 1..R
  <2>1. n \in 0..R /\ n > 0
    BY ONLY <1>4, n \in 1..R
  <2> QED
    BY <2>1, <1>5
<1>9. PICK T : T = Seq(NetByte)
  OBVIOUS
<1>10. results \in Seq(T) /\ messages \in Seq(T) /\ Len(results) = Len(messages)
       /\ \A n \in 1..Len(results) : results[n] = messages[n]
  BY <1>1, <1>2, <1>3, <1>7, <1>8, <1>9
<1> QED
  BY ONLY <1>10, SameElements

(* The NetstrDelimiter returns the values of its input, and all of those   *)
(* that Encode has written, in their order: the byte it waits for is the   *)
(* one that ends the value whose length it has read.                       *)
THEOREM NetstringsDecoded == Spec => []NetstrDecoded
<1>1. NetInv => NetstrDecoded
  <2> SUFFICES ASSUME NetInv, kind = "netstr", ~cut
               PROVE  /\ \A n \in 1..Len(results) : Framed(n)
                      /\ \A c \in 1..Len(stream) :
                           Colon(stream, Start(Len(results) + 1), c)
                             => ValueEnd(stream, Start(Len(results) + 1), c) >= pos
                      /\ (messages # NotEncoded /\ pos = Len(stream)) => results = messages
    BY Zenon DEF NetstrDecoded, Framed
  <2>1. NetHead /\ Mode(Start(Len(results) + 1))
    BY DEF NetInv
  <2>2. PICK a : a = Start(Len(results) + 1)
    OBVIOUS
  <2>3. a \in 0..pos /\ Mode(a)
    BY <2>1, <2>2 DEF NetHead
  <2>4. \A c : Colon(stream, a, c) => ValueEnd(stream, a, c) >= pos
    BY <2>1, <2>3, NotYet
  <2>5. (messages # NotEncoded /\ pos = Len(stream)) => results = messages
    BY <2>1, AllReturned
  <2>6. \A n \in 1..Len(results) : Framed(n)
    BY <2>1 DEF NetHead
  <2> QED
    BY <2>2, <2>4, <2>5, <2>6
<1> QED
  BY <1>1, NetInit, NetInvariant, PTL DEF Spec
=============================================================================
