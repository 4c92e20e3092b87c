------------------------- MODULE QueryServerProofs -------------------------
(***************************************************************************)
(* The pages of the HTTP query server are complete, and what a client of   *)
(* the line protocol decodes are the answers to its queries: for every set *)
(* of inputs, every function from queries to results and every size of the *)
(* socket.                                                                 *)
(***************************************************************************)
EXTENDS QueryServer, FiniteSetTheorems, NaturalsInduction, WellFoundedInduction, TLAPS

Token == STRING \cup {"\n"}
Message == Seq(Token)
PageType == [status : Nat, results : Seq(Message)]

(* What the page for request n lists. *)
Wanted(n) ==
  IF input.items[n] \in DOMAIN Results THEN Results[input.items[n]] ELSE << >>

(* The sequences a request passes through.                                 *)
PageTyped ==
  /\ next \in Nat
  /\ client \in {"reading", "stalled", "gone"}
  /\ pc \in {"read", "range", "write", "closed"}
  /\ slice \in Seq(Message)
  /\ search \in [goroutine : {"none", "running", "ended"}, todo : Seq(Message), c : Seq(Message)]
  /\ sock \in Seq(PageType)
  /\ received \in Seq(PageType)
  /\ pc = "write" => out \in PageType /\ after = "read"

(* What is in the slice, in the channel and with the goroutine is, in this *)
(* order, all that the search of request next finds.                       *)
Ranging ==
  LET r == Wanted(next)
      n == Len(slice)
      m == Len(search.c)
  IN  /\ input.items[next] \in DOMAIN Results
      /\ n + m + Len(search.todo) = Len(r)
      /\ m <= 1
      /\ \A j \in 1..n : slice[j] = r[j]
      /\ \A j \in 1..m : search.c[j] = r[n + j]
      /\ \A j \in 1..Len(search.todo) : search.todo[j] = r[n + m + j]
      /\ search.goroutine = "ended" => search.todo = << >>

(* The pages received, those in the socket and the one in the making are   *)
(* those of the requests taken, one each and in order, as long as the      *)
(* client is there.                                                        *)
InTheMaking == IF pc \in {"range", "write"} THEN 1 ELSE 0

Paged ==
  /\ \A j \in 1..Len(received) : received[j].results = Wanted(j)
  /\ client # "gone" =>
       /\ Len(received) + Len(sock) + InTheMaking = next
       /\ \A j \in 1..Len(sock) : sock[j].results = Wanted(Len(received) + j)
  /\ pc = "write" => out.results = Wanted(next)
  /\ pc = "range" => Ranging

PageInv == http => PageTyped /\ Paged


-----------------------------------------------------------------------------
(* A function on 1..n is a sequence. *)
LEMMA SequenceOf ==
  ASSUME NEW S, NEW n \in Nat, NEW f \in [1..n -> S]
  PROVE  f \in Seq(S) /\ Len(f) = n
  OBVIOUS

(* The results of a search are messages. *)
LEMMA ResultsAre == \A q \in DOMAIN Results : Results[q] \in Seq(Message)
<1> SUFFICES ASSUME NEW r \in Seq(Seq(STRING)) PROVE r \in Seq(Message)
  BY ServerAssumption
<1>1. ASSUME NEW m \in Seq(STRING) PROVE m \in Message
  <2>1. Len(m) \in Nat /\ m \in [1..Len(m) -> STRING]
    OBVIOUS
  <2>2. m \in [1..Len(m) -> Token]
    BY <2>1 DEF Token
  <2> QED
    BY <2>1, <2>2 DEF Message
<1>2. Len(r) \in Nat /\ r \in [1..Len(r) -> Seq(STRING)]
  OBVIOUS
<1>3. r \in [1..Len(r) -> Message]
  BY <1>1, <1>2
<1> QED
  BY <1>2, <1>3, SequenceOf

(* What is wanted is a sequence of messages. *)
LEMMA WantedIs == \A n : Wanted(n) \in Seq(Message)
<1>1. << >> \in Seq(Message)
  OBVIOUS
<1> QED
  BY <1>1, ResultsAre DEF Wanted

(* Taking the head of a sequence. *)
LEMMA TakeHead ==
  ASSUME NEW S, NEW s \in Seq(S), s # << >>
  PROVE  /\ Head(s) \in S /\ Head(s) = s[1] /\ Tail(s) \in Seq(S)
         /\ Len(s) \in Nat /\ Len(s) > 0 /\ Len(Tail(s)) = Len(s) - 1
         /\ \A j \in 1..(Len(s) - 1) : Tail(s)[j] = s[j + 1]
  OBVIOUS

(* Appending to a sequence. *)
LEMMA AddLast ==
  ASSUME NEW S, NEW s \in Seq(S), NEW x \in S
  PROVE  /\ Append(s, x) \in Seq(S) /\ Len(s) \in Nat
         /\ Len(Append(s, x)) = Len(s) + 1
         /\ Append(s, x)[Len(s) + 1] = x
         /\ \A j \in 1..Len(s) : Append(s, x)[j] = s[j]
  OBVIOUS

(* Sequences with the same elements are equal. *)
LEMMA SameElements ==
  ASSUME NEW S, NEW s \in Seq(S), NEW t \in Seq(S), Len(s) = Len(t),
         \A j \in 1..Len(s) : s[j] = t[j]
  PROVE  s = t
  OBVIOUS

-----------------------------------------------------------------------------
(* Steps that leave the pages alone. *)
LEMMA PageFrame ==
  ASSUME PageTyped, Paged, UNCHANGED <<input, pc, next, out, after, slice, search, sock, received>>,
         client' \in {"reading", "stalled", "gone"}, client = "gone" => client' = "gone"
  PROVE  PageTyped' /\ Paged'
<1>1. PageTyped'
  BY DEF PageTyped
<1>2. Ranging' <=> Ranging
  BY DEF Ranging, Wanted
<1>3. \A n : Wanted(n)' = Wanted(n)
  BY DEF Wanted
<1>4. InTheMaking' = InTheMaking
  BY DEF InTheMaking
<1>5. Paged'
  BY <1>2, <1>3, <1>4 DEF Paged, Wanted, PageTyped
<1> QED
  BY <1>1, <1>5

(* The client reads a page. *)
LEMMA PageRead ==
  ASSUME http, PageTyped, Paged, ClientRead
  PROVE  PageTyped' /\ Paged'
<1>1. /\ client = "reading" /\ sock # << >> /\ received' = Append(received, Head(sock))
      /\ sock' = Tail(sock)
      /\ UNCHANGED <<input, client, pc, next, out, after, slice, search>>
  BY DEF ClientRead, clientVars
<1>2. sock \in Seq(PageType) /\ received \in Seq(PageType)
  BY DEF PageTyped
<1>3. /\ Head(sock) \in PageType /\ Head(sock) = sock[1] /\ sock' \in Seq(PageType)
      /\ Len(sock) \in Nat /\ Len(sock) > 0 /\ Len(sock') = Len(sock) - 1
      /\ \A j \in 1..(Len(sock) - 1) : sock'[j] = sock[j + 1]
  BY <1>1, <1>2, TakeHead
<1>4. /\ received' \in Seq(PageType) /\ Len(received) \in Nat
      /\ Len(received') = Len(received) + 1
      /\ received'[Len(received) + 1] = Head(sock)
      /\ \A j \in 1..Len(received) : received'[j] = received[j]
  BY <1>1, <1>2, <1>3, AddLast
<1>5. PageTyped'
  BY <1>1, <1>3, <1>4 DEF PageTyped
<1>6. Ranging' <=> Ranging
  BY <1>1 DEF Ranging, Wanted
<1>7. InTheMaking' = InTheMaking /\ InTheMaking \in Nat
  BY <1>1 DEF InTheMaking
<1>8. /\ Len(received) + Len(sock) + InTheMaking = next
      /\ \A j \in 1..Len(sock) : sock[j].results = Wanted(Len(received) + j)
  BY <1>1 DEF Paged
<1>9. ASSUME NEW j \in 1..Len(received') PROVE received'[j].results = Wanted(j)
  <2>1. CASE j \in 1..Len(received)
    BY <1>4, <2>1 DEF Paged
  <2>2. CASE j = Len(received) + 1
    <3>1. 1 \in 1..Len(sock)
      BY <1>3
    <3> QED
      BY <1>3, <1>4, <1>8, <2>2, <3>1
  <2> QED
    BY <1>4, <2>1, <2>2
<1>10. ASSUME NEW j \in 1..Len(sock') PROVE sock'[j].results = Wanted(Len(received') + j)
  <2>1. j + 1 \in 1..Len(sock) /\ j \in 1..(Len(sock) - 1) /\ Len(received) + (j + 1) = Len(received') + j
    BY <1>3, <1>4
  <2> QED
    BY <1>3, <1>8, <2>1
<1>11. Len(received') + Len(sock') + InTheMaking' = next'
  BY <1>1, <1>3, <1>4, <1>7, <1>8
<1>12. pc' = "write" => out'.results = Wanted(next)
  BY <1>1 DEF Paged
<1>13. \A n : Wanted(n)' = Wanted(n)
  BY <1>1 DEF Wanted
<1>14. Paged'
  BY <1>1, <1>6, <1>9, <1>10, <1>11, <1>12 DEF Paged, Wanted
<1> QED
  BY <1>5, <1>14

(* The state of a range loop after a step. *)
LEMMA RangingAfter ==
  ASSUME UNCHANGED <<input, next, slice>>,
         input.items[next] \in DOMAIN Results,
         Len(slice) + Len(search'.c) + Len(search'.todo) = Len(Wanted(next)),
         Len(search'.c) <= 1,
         \A j \in 1..Len(slice) : slice[j] = Wanted(next)[j],
         \A j \in 1..Len(search'.c) : search'.c[j] = Wanted(next)[Len(slice) + j],
         \A j \in 1..Len(search'.todo) :
            search'.todo[j] = Wanted(next)[Len(slice) + Len(search'.c) + j],
         search'.goroutine = "ended" => search'.todo = << >>
  PROVE  Ranging'
<1>1. Wanted(next)' = Wanted(next)
  BY DEF Wanted
<1> QED
  BY <1>1 DEF Ranging

(* The search hands over a result, or ends. *)
LEMMA PageSearch ==
  ASSUME PageTyped, Paged, SearchSend \/ SearchClose
  PROVE  PageTyped' /\ Paged'
<1>1. UNCHANGED <<input, client, pc, next, out, after, slice, sock, received>>
  BY DEF SearchSend, SearchClose, clientVars
<1>2. /\ search \in [goroutine : {"none", "running", "ended"}, todo : Seq(Message), c : Seq(Message)]
      /\ search.todo \in Seq(Message) /\ search.c \in Seq(Message) /\ slice \in Seq(Message)
  BY DEF PageTyped
<1>3. /\ search'.goroutine \in {"none", "running", "ended"}
      /\ search'.todo \in Seq(Message) /\ search'.c \in Seq(Message)
      /\ search' \in [goroutine : {"none", "running", "ended"}, todo : Seq(Message), c : Seq(Message)]
      /\ pc = "range" => Ranging'
  <2>1. CASE SearchSend
    <3>1. /\ search.goroutine = "running" /\ search.todo # << >> /\ search.c = << >> /\ Len(search.c) = 0
          /\ search' = [search EXCEPT !.c = <<Head(search.todo)>>, !.todo = Tail(@)]
      BY <2>1 DEF SearchSend
    <3>2. /\ search'.c = <<Head(search.todo)>> /\ search'.todo = Tail(search.todo)
          /\ search'.goroutine = "running"
      BY <1>2, <3>1
    <3>3. /\ Head(search.todo) \in Message /\ Head(search.todo) = search.todo[1]
          /\ search'.todo \in Seq(Message)
          /\ Len(search.todo) \in Nat /\ Len(search.todo) > 0 /\ Len(search'.todo) = Len(search.todo) - 1
          /\ \A j \in 1..(Len(search.todo) - 1) : search'.todo[j] = search.todo[j + 1]
      BY <1>2, <3>1, <3>2, TakeHead
    <3>4. search'.c \in Seq(Message) /\ Len(search'.c) = 1 /\ search'.c[1] = search.todo[1]
      BY <3>2, <3>3
    <3>5. search' \in [goroutine : {"none", "running", "ended"}, todo : Seq(Message), c : Seq(Message)]
      BY <1>2, <3>1, <3>2, <3>3, <3>4
    <3>6. ASSUME pc = "range" PROVE Ranging'
      <4> DEFINE r == Wanted(next)
                 n == Len(slice)
      <4>1. /\ input.items[next] \in DOMAIN Results
            /\ n + 0 + Len(search.todo) = Len(r)
            /\ \A j \in 1..n : slice[j] = r[j]
            /\ \A j \in 1..Len(search.todo) : search.todo[j] = r[n + 0 + j]
        BY <3>1, <3>6 DEF Paged, Ranging
      <4>2. n \in Nat /\ Len(r) \in Nat
        BY <1>2, WantedIs
      <4> HIDE DEF r, n
      <4>4. n + 1 + Len(search'.todo) = Len(r)
        <5>1. n + 0 + Len(search.todo) = Len(r) /\ n \in Nat
          BY <4>1, <4>2
        <5>2. Len(search.todo) \in Nat /\ Len(search'.todo) = Len(search.todo) - 1
          BY <3>3
        <5> DEFINE a == Len(search.todo)
                   b == Len(search'.todo)
                   c == Len(r)
        <5>3. n \in Nat /\ a \in Nat /\ b = a - 1 /\ n + 0 + a = c
          BY <5>1, <5>2
        <5> HIDE DEF a, b, c
        <5>4. n + 1 + b = c
          BY ONLY <5>3
        <5> QED
          BY <5>4 DEF a, b, c
      <4>5. search'.c[1] = r[n + 1]
        <5>1. 1 \in 1..Len(search.todo) /\ n + 0 + 1 = n + 1
          BY <3>3, <4>2
        <5> QED
          BY <3>4, <4>1, <5>1
      <4>6. ASSUME NEW j \in 1..Len(search'.todo) PROVE search'.todo[j] = r[n + 1 + j]
        <5>1. j + 1 \in 1..Len(search.todo) /\ j \in 1..(Len(search.todo) - 1) /\ n + 0 + (j + 1) = n + 1 + j
          BY <3>3, <4>2
        <5> QED
          BY <3>3, <4>1, <5>1
      <4>7. \A j \in 1..Len(search'.c) : search'.c[j] = r[n + j]
        <5>1. \A j \in 1..Len(search'.c) : j = 1
          BY <3>4
        <5> QED
          BY <4>5, <5>1
      <4>8. /\ n + Len(search'.c) + Len(search'.todo) = Len(r) /\ Len(search'.c) <= 1
            /\ \A j \in 1..Len(search'.todo) : search'.todo[j] = r[n + Len(search'.c) + j]
        BY <3>4, <4>4, <4>6
      <4> QED
        BY <1>1, <3>2, <4>1, <4>7, <4>8, RangingAfter DEF r, n
    <3> QED
      BY <3>2, <3>3, <3>4, <3>5, <3>6
  <2>2. CASE SearchClose
    <3>1. search.todo = << >> /\ search' = [search EXCEPT !.goroutine = "ended"]
      BY <2>2 DEF SearchClose
    <3>2. search'.c = search.c /\ search'.todo = search.todo /\ search'.goroutine = "ended"
      BY <1>2, <3>1
    <3>3. search' \in [goroutine : {"none", "running", "ended"}, todo : Seq(Message), c : Seq(Message)]
      BY <1>2, <3>1
    <3>4. ASSUME pc = "range" PROVE Ranging'
      <4>1. Ranging
        BY <3>4 DEF Paged
      <4> QED
        BY <1>1, <3>1, <3>2, <4>1, RangingAfter DEF Ranging
    <3> QED
      BY <1>2, <3>2, <3>3, <3>4
  <2> QED
    BY <2>1, <2>2
<1>4. PageTyped'
  BY <1>1, <1>3 DEF PageTyped
<1>5. InTheMaking' = InTheMaking
  BY <1>1 DEF InTheMaking
<1>6. Paged'
  BY <1>1, <1>3, <1>5 DEF Paged, Wanted
<1> QED
  BY <1>4, <1>6

(* A request is taken. *)
LEMMA PageServe ==
  ASSUME PageTyped, Paged, ServeHTTP
  PROVE  PageTyped' /\ Paged'
<1> DEFINE r == input.items[next + 1]
<1>1. /\ pc = "read" /\ next' = next + 1 /\ slice' = << >>
      /\ UNCHANGED <<input, client, sock, received>>
  BY DEF ServeHTTP, clientVars
<1>2. /\ next \in Nat /\ next' \in Nat
      /\ slice' \in Seq(Message) /\ Len(slice') = 0
  BY <1>1 DEF PageTyped
<1>w. \A n : Wanted(n)' = Wanted(n)
  BY <1>1 DEF Wanted
<1>3. CASE pc' = "write" /\ UNCHANGED search /\ out' \in PageType /\ out'.results = << >>
           /\ after' = "read" /\ r \notin DOMAIN Results
  <2>1. PageTyped'
    BY <1>1, <1>2, <1>3 DEF PageTyped
  <2>2. out'.results = Wanted(next')
    BY <1>1, <1>3 DEF Wanted
  <2>3. InTheMaking = 0 /\ InTheMaking' = 1
    BY <1>1, <1>3 DEF InTheMaking
  <2>4. client # "gone" => Len(received) + Len(sock) + 1 = next'
    <3>1. client # "gone" => Len(received) + Len(sock) + 0 = next
      BY <2>3 DEF Paged
    <3>2. Len(received) \in Nat /\ Len(sock) \in Nat
      BY DEF PageTyped
    <3> QED
      BY <1>1, <1>2, <3>1, <3>2
  <2>5. Paged'
    BY <1>1, <1>3, <2>2, <2>3, <2>4 DEF Paged, Wanted
  <2> QED
    BY <2>1, <2>5
<1>4. CASE r \in DOMAIN Results /\ SearchStarts(r)
  <2>1. pc' = "range" /\ search' = [goroutine |-> "running", todo |-> Results[r], c |-> << >>]
    BY <1>4 DEF SearchStarts
  <2>2. Results[r] \in Seq(Message) /\ << >> \in Seq(Message)
    BY <1>4, ResultsAre
  <2>3. /\ search'.todo = Results[r] /\ search'.c = << >> /\ search'.goroutine = "running"
        /\ search' \in [goroutine : {"none", "running", "ended"}, todo : Seq(Message), c : Seq(Message)]
    BY <2>1, <2>2
  <2>4. PageTyped'
    BY <1>1, <1>2, <2>1, <2>3 DEF PageTyped
  <2>5. InTheMaking = 0 /\ InTheMaking' = 1
    BY <1>1, <2>1 DEF InTheMaking
  <2>6. client # "gone" => Len(received) + Len(sock) + 1 = next'
    <3>1. client # "gone" => Len(received) + Len(sock) + 0 = next
      BY <2>5 DEF Paged
    <3>2. Len(received) \in Nat /\ Len(sock) \in Nat
      BY DEF PageTyped
    <3> QED
      BY <1>1, <1>2, <3>1, <3>2
  <2>7. Wanted(next)' = Results[r]
    BY <1>1, <1>4 DEF Wanted
  <2>8. Len(search'.c) = 0 /\ Len(Results[r]) \in Nat
    BY <2>2, <2>3
  <2>9. /\ 0 + 0 + Len(search'.todo) = Len(Results[r])
        /\ \A j \in 1..Len(search'.todo) : search'.todo[j] = Results[r][0 + 0 + j]
    BY <2>3, <2>8
  <2>10. input'.items[next'] \in DOMAIN Results
    BY <1>1, <1>4
  <2>11. Ranging'
    BY <1>2, <2>3, <2>7, <2>8, <2>9, <2>10 DEF Ranging
  <2>12. Paged'
    BY <1>1, <2>1, <2>5, <2>6, <2>11 DEF Paged, Wanted
  <2> QED
    BY <2>4, <2>12
<1>5. \A n \in {200, 400, 405, 500} : Page(n, << >>) \in PageType /\ Page(n, << >>).results = << >>
  <2>1. << >> \in Seq(Message)
    OBVIOUS
  <2> QED
    BY <2>1 DEF Page, PageType
<1> QED
  BY <1>3, <1>4, <1>5, ServerAssumption DEF ServeHTTP, Respond

(* A result goes into the slice. *)
LEMMA PageReceive ==
  ASSUME http, PageTyped, Paged, RangeReceive
  PROVE  PageTyped' /\ Paged'
<1>1. /\ pc = "range" /\ search.c # << >> /\ search' = [search EXCEPT !.c = << >>]
      /\ slice' = Append(slice, Head(search.c))
      /\ UNCHANGED <<input, client, pc, next, out, after, sock, received>>
  BY DEF RangeReceive, clientVars
<1>2. /\ search \in [goroutine : {"none", "running", "ended"}, todo : Seq(Message), c : Seq(Message)]
      /\ search.todo \in Seq(Message) /\ search.c \in Seq(Message) /\ slice \in Seq(Message)
      /\ << >> \in Seq(Message)
  BY DEF PageTyped
<1>3. /\ search'.c = << >> /\ search'.todo = search.todo /\ search'.goroutine = search.goroutine
      /\ search' \in [goroutine : {"none", "running", "ended"}, todo : Seq(Message), c : Seq(Message)]
  BY <1>1, <1>2
<1>4. Ranging
  BY <1>1 DEF Paged
<1>5. /\ Head(search.c) \in Message /\ Head(search.c) = search.c[1] /\ Len(search.c) \in Nat /\ Len(search.c) > 0
  BY <1>1, <1>2, TakeHead
<1>6. Len(search.c) = 1 /\ 1 \in 1..1
  <2> DEFINE m == Len(search.c)
  <2>1. m \in Nat /\ m > 0 /\ m <= 1
    BY <1>4, <1>5 DEF Ranging
  <2> HIDE DEF m
  <2>2. m = 1
    BY ONLY <2>1
  <2> QED
    BY <2>2 DEF m
<1> DEFINE w == Wanted(next)
           n == Len(slice)
<1>7. /\ input.items[next] \in DOMAIN Results
      /\ n + 1 + Len(search.todo) = Len(w)
      /\ \A j \in 1..n : slice[j] = w[j]
      /\ search.c[1] = w[n + 1]
      /\ \A j \in 1..Len(search.todo) : search.todo[j] = w[n + 1 + j]
      /\ search.goroutine = "ended" => search.todo = << >>
  BY <1>4, <1>6 DEF Ranging
<1>8. /\ slice' \in Seq(Message) /\ n \in Nat /\ Len(slice') = n + 1
      /\ slice'[n + 1] = w[n + 1]
      /\ \A j \in 1..n : slice'[j] = slice[j]
  BY <1>1, <1>2, <1>5, <1>7, AddLast
<1>9. Wanted(next)' = w /\ Len(search'.c) = 0 /\ Len(search.todo) \in Nat
  BY <1>1, <1>2, <1>3 DEF Wanted
<1> HIDE DEF w, n
<1>10. \A j \in 1..(n + 1) : slice'[j] = w[j]
  <2> SUFFICES ASSUME NEW j \in 1..(n + 1) PROVE slice'[j] = w[j]
    OBVIOUS
  <2>1. j \in 1..n \/ j = n + 1
    BY <1>8
  <2> QED
    BY <1>7, <1>8, <2>1
<1>11. /\ (n + 1) + 0 + Len(search'.todo) = Len(w)
       /\ \A j \in 1..Len(search'.todo) : search'.todo[j] = w[(n + 1) + 0 + j]
  <2>1. n \in Nat /\ n + 1 + 0 = n + 1
    BY <1>8
  <2> QED
    BY <1>3, <1>7, <2>1
<1>12. Ranging'
  BY <1>1, <1>3, <1>7, <1>8, <1>9, <1>10, <1>11 DEF Ranging
<1>13. PageTyped'
  BY <1>1, <1>3, <1>8 DEF PageTyped
<1>14. InTheMaking' = InTheMaking
  BY <1>1 DEF InTheMaking
<1>15. Paged'
  BY <1>1, <1>12, <1>14 DEF Paged, Wanted
<1> QED
  BY <1>13, <1>15

(* The loop ends: the page has all that was found. *)
LEMMA PageEnd ==
  ASSUME http, PageTyped, Paged, RangeEnd
  PROVE  PageTyped' /\ Paged'
<1>1. /\ pc = "range" /\ Drained /\ search' = NoSearch
      /\ out' = Page(200, slice) /\ after' = "read" /\ pc' = "write"
      /\ UNCHANGED <<input, client, next, slice, sock, received>>
  BY DEF RangeEnd, clientVars
<1>2. Ranging /\ search.goroutine = "ended" /\ search.c = << >> /\ slice \in Seq(Message)
  BY <1>1 DEF Paged, Drained, PageTyped
<1>3. search.todo = << >>
  BY <1>2 DEF Ranging
<1>4. Len(search.todo) = 0 /\ Len(search.c) = 0 /\ Len(slice) \in Nat
  BY <1>2, <1>3
<1>5. Len(slice) = Len(Wanted(next)) /\ \A j \in 1..Len(slice) : slice[j] = Wanted(next)[j]
  BY <1>2, <1>4 DEF Ranging
<1>6. slice = Wanted(next)
  BY <1>2, <1>5, WantedIs, SameElements
<1>7. out' \in PageType /\ out'.results = Wanted(next)
  BY <1>1, <1>2, <1>6 DEF Page, PageType
<1>8. search' \in [goroutine : {"none", "running", "ended"}, todo : Seq(Message), c : Seq(Message)]
  <2>1. << >> \in Seq(Message)
    OBVIOUS
  <2> QED
    BY <1>1, <2>1 DEF NoSearch
<1>9. PageTyped'
  BY <1>1, <1>7, <1>8 DEF PageTyped
<1>10. InTheMaking' = InTheMaking
  BY <1>1 DEF InTheMaking
<1>11. Paged'
  BY <1>1, <1>7, <1>10 DEF Paged, Wanted
<1> QED
  BY <1>9, <1>11

(* A page is written to the socket, or lost with the client. *)
LEMMA PageWrite ==
  ASSUME PageTyped, Paged, Write
  PROVE  PageTyped' /\ Paged'
<1>1. /\ pc = "write" /\ pc' = "read" /\ out \in PageType /\ out.results = Wanted(next)
      /\ sock \in Seq(PageType) /\ received \in Seq(PageType)
      /\ UNCHANGED <<input, client, next, out, after, slice, search, received>>
  BY DEF Write, PageTyped, Paged, clientVars
<1>2. (client = "gone" /\ sock' = sock) \/ (client # "gone" /\ sock' = Append(sock, out))
  BY DEF Write
<1>3. /\ Append(sock, out) \in Seq(PageType) /\ Len(sock) \in Nat
      /\ Len(Append(sock, out)) = Len(sock) + 1
      /\ Append(sock, out)[Len(sock) + 1] = out
      /\ \A j \in 1..Len(sock) : Append(sock, out)[j] = sock[j]
  BY <1>1, AddLast
<1>4. PageTyped'
  BY <1>1, <1>2, <1>3 DEF PageTyped
<1>5. InTheMaking = 1 /\ InTheMaking' = 0
  BY <1>1 DEF InTheMaking
<1>6. ASSUME client # "gone"
      PROVE  /\ Len(received) + Len(sock') + 0 = next
             /\ \A j \in 1..Len(sock') : sock'[j].results = Wanted(Len(received) + j)
  <2>1. /\ Len(received) + Len(sock) + 1 = next
        /\ \A j \in 1..Len(sock) : sock[j].results = Wanted(Len(received) + j)
    BY <1>5, <1>6 DEF Paged
  <2>2. sock' = Append(sock, out) /\ Len(received) \in Nat
    BY <1>1, <1>2, <1>6
  <2>3. Len(received) + Len(sock') + 0 = next
    BY <1>3, <2>1, <2>2
  <2>4. ASSUME NEW j \in 1..Len(sock') PROVE sock'[j].results = Wanted(Len(received) + j)
    <3>1. CASE j \in 1..Len(sock)
      BY <1>3, <2>1, <2>2, <3>1
    <3>2. CASE j = Len(sock) + 1
      <4>1. Len(received) + j = next
        BY <1>3, <2>1, <2>2, <3>2
      <4> QED
        BY <1>1, <1>3, <2>2, <3>2, <4>1
    <3> QED
      BY <1>3, <2>2, <3>1, <3>2
  <2> QED
    BY <2>3, <2>4
<1>7. Paged'
  BY <1>1, <1>5, <1>6 DEF Paged, Wanted
<1> QED
  BY <1>4, <1>7

(* Every step of handler, search or browser keeps the invariant of the pages. *)
LEMMA PageStep == PageInv /\ [Next]_vars => PageInv'
<1> SUFFICES ASSUME PageInv, [Next]_vars PROVE PageInv'
  OBVIOUS
<1>0. input' = input
  BY DEF Next, Handler, ClientSend, ClientFin, ClientRead, ClientTurns, SearchSend, SearchClose,
         ReadLine, ServeHTTP, RangeReceive, RangeEnd, WriteMarker, Write, ReadFails, Over, vars
<1> SUFFICES ASSUME http PROVE PageTyped' /\ Paged'
  BY <1>0 DEF PageInv, http
<1>1. PageTyped /\ Paged
  BY DEF PageInv
<1>2. CASE ClientSend \/ ClientFin \/ ClientTurns \/ Over \/ UNCHANGED vars
  <2>1. /\ UNCHANGED <<input, pc, next, out, after, slice, search, sock, received>>
        /\ client' \in {"reading", "stalled", "gone"}
        /\ client = "gone" => client' = "gone"
    BY <1>1, <1>2 DEF ClientSend, ClientFin, ClientTurns, Over, vars, clientVars, PageTyped
  <2> QED
    BY <1>1, <2>1, PageFrame
<1>3. CASE ReadFails
  <2>1. /\ pc = "read" /\ pc' = "closed"
        /\ UNCHANGED <<input, client, next, out, after, slice, search, sock, received>>
    BY <1>3 DEF ReadFails, clientVars
  <2>2. PageTyped'
    BY <1>1, <2>1 DEF PageTyped
  <2>3. InTheMaking' = InTheMaking
    BY <2>1 DEF InTheMaking
  <2>4. Paged'
    BY <1>1, <2>1, <2>3 DEF Paged, Wanted
  <2> QED
    BY <2>2, <2>4
<1>4. ~ReadLine /\ ~WriteMarker
  BY <1>1 DEF ReadLine, WriteMarker, PageTyped
<1> QED
  BY <1>1, <1>2, <1>3, <1>4, PageRead, PageSearch, PageServe, PageReceive, PageEnd, PageWrite
     DEF Next, Handler

(* A page of the HTTP server answers the request of its number and lists   *)
(* all results of its query, in their order, although ServeHTTP receives   *)
(* them one by one from a goroutine, writes the page without looking at    *)
(* the error, and browsers send ahead, stall and leave.                    *)
THEOREM PagesComplete == Spec => []PageComplete
<1>1. Init => PageInv
  <2> SUFFICES ASSUME Init PROVE PageTyped /\ Paged
    BY DEF PageInv
  <2>1. << >> \in Seq(Message) /\ << >> \in Seq(PageType) /\ Len(<< >>) = 0
    OBVIOUS
  <2>2. PageTyped
    BY <2>1 DEF Init, PageTyped, NoSearch
  <2>3. Paged
    BY <2>1 DEF Init, Paged, InTheMaking
  <2> QED
    BY <2>2, <2>3
<1>2. PageInv /\ [Next]_vars => PageInv'
  BY PageStep
<1>3. PageInv => PageComplete
  <2> SUFFICES ASSUME PageInv, http, NEW k \in DOMAIN received
               PROVE  received[k].results = Wanted(k)
    BY DEF PageComplete, Wanted
  <2>1. received \in Seq(PageType)
    BY DEF PageInv, PageTyped
  <2>2. k \in 1..Len(received)
    BY <2>1
  <2> QED
    BY <2>2 DEF PageInv, Paged
<1> QED
  BY <1>1, <1>2, <1>3, PTL DEF Spec
-----------------------------------------------------------------------------
(* The line protocol.  Where the handler is, or goes on after its write,   *)
(* and the results that it has taken from the channel for the query it     *)
(* answers.                                                                *)
Where == IF pc = "write" THEN after ELSE pc
Found == Results[input.items[next]]
Taken == Len(Found) - Len(search.c) - Len(search.todo)

LineTyped ==
  /\ input.items \in Seq(STRING)
  /\ sent \in Nat /\ next \in Nat /\ next <= sent /\ sent <= Len(input.items)
  /\ client \in {"reading", "stalled", "gone"}
  /\ pc \in {"read", "range", "marker", "write", "closed"}
  /\ pc = "write" => out \in Message /\ after \in {"read", "range", "marker"}
  /\ search \in [goroutine : {"none", "running", "ended"}, todo : Seq(Message), c : Seq(Message)]
  /\ sock \in Seq(Message)
  /\ received \in Message

(* Of what the search finds, the channel and the goroutine have what the   *)
(* handler has not taken.                                                  *)
Delivering ==
  /\ next > 0
  /\ input.items[next] \in DOMAIN Results
  /\ Len(search.c) <= 1
  /\ Taken >= 0
  /\ \A j \in 1..Len(search.c) : search.c[j] = Found[Taken + j]
  /\ \A j \in 1..Len(search.todo) : search.todo[j] = Found[Taken + Len(search.c) + j]
  /\ search.goroutine = "ended" => search.todo = << >>

(* The answers in a text s are those to the first queries among the first  *)
(* n items; all of those are answered.                                     *)
Right(s, n) ==
  \A k \in Ends(s) : \E m \in Queries(n) :
    /\ Cardinality(Queries(m)) = Cardinality({e \in Ends(s) : e <= k})
    /\ Decoded(s, k) = Answer(input.items[m])
AllAnswered(s, n) == Right(s, n) /\ Cardinality(Ends(s)) = Cardinality(Queries(n))

(* Behind the last answer of s there is no text; or there is the text t,   *)
(* from position f on, and more newlines behind it.                        *)
Idle(s) == \A j \in 1..Len(s) : s[j] = "\n" \/ \E e \in Ends(s) : j <= e
From(s, t, more, f) ==
  /\ Len(s) = f + Len(t) - 1 + more
  /\ \A e \in Ends(s) : e < f
  /\ \A j \in 1..(f - 1) : s[j] = "\n" \/ \E e \in Ends(s) : j <= e
  /\ \A j \in 1..Len(t) : s[f + j - 1] = t[j]
  /\ \A j \in (f + Len(t))..Len(s) : s[j] = "\n"
  /\ t[1] # "\n" /\ t[Len(t)] # "\n"
Saying(s, t, more) ==
  IF t = << >> THEN Idle(s) ELSE \E f \in 1..Len(s) : From(s, t, more, f)

(* What was written to the client, when the handler is at p. *)
Stage(s, p) ==
  /\ p \in {"read", "closed"} => AllAnswered(s, next) /\ Idle(s)
  /\ p = "range" => /\ AllAnswered(s, next - 1)
                    /\ Saying(s, Joined(Found)[Taken], 1)
  /\ p = "marker" => /\ next \in Queries(next)
                     /\ AllAnswered(s, next - 1)
                     /\ \E more \in {0, 1} : Saying(s, Answer(input.items[next]), more)

(* The text w was written: the client has read the first part of it, and   *)
(* the writes in the socket are the rest, cut at the positions of off.     *)
Cuts(w, off) ==
  /\ off \in [0..Len(sock) -> 0..Len(w)]
  /\ off[0] = Len(received)
  /\ off[Len(sock)] = Len(w)
  /\ \A j \in 1..Len(sock) :
       /\ off[j] = off[j - 1] + Len(sock[j])
       /\ \A x \in 1..Len(sock[j]) : w[off[j - 1] + x] = sock[j][x]
Carried(w) ==
  /\ w \in Message
  /\ \A x \in 1..Len(received) : w[x] = received[x]
  /\ \E off : Cuts(w, off)

Talk(w) == Stage(IF pc = "write" THEN w \o out ELSE w, Where)

Spoken ==
  /\ Where = "range" => Delivering
  /\ Right(received, next)
  /\ client # "gone" => \E w : Carried(w) /\ Talk(w)

LineInv == ~http => LineTyped /\ (CleanInput => Spoken)

-----------------------------------------------------------------------------
(* Least and greatest elements. *)

(* A nonempty set of natural numbers has a least element. *)
LEMMA LeastNumber ==
  ASSUME NEW S \in SUBSET Nat, S # {}
  PROVE  \E n \in S : \A m \in S : n <= m
<1>1. PICK n \in S : \A m \in S : ~(<<m, n>> \in OpToRel(<, Nat))
  BY NatLessThanWellFounded, WFMin
<1>2. \A m \in S : <<m, n>> \in OpToRel(<, Nat) <=> m < n
  BY DEF OpToRel
<1>3. \A m \in S : ~(m < n)
  BY <1>1, <1>2, Zenon
<1> QED
  BY <1>3

(* Min is the least element. *)
LEMMA MinIs ==
  ASSUME NEW S \in SUBSET Nat, S # {}
  PROVE  Min(S) \in S /\ \A m \in S : Min(S) <= m
<1>1. \E n \in S : \A m \in S : n <= m
  BY LeastNumber
<1> QED
  BY <1>1 DEF Min

(* A bounded set has a greatest element, which Max is. *)
LEMMA MaxIs ==
  ASSUME NEW n \in Nat, NEW S \in SUBSET (0..n), S # {}
  PROVE  Max(S) \in S /\ \A m \in S : m <= Max(S)
<1> DEFINE D == {x \in Nat : n - x \in S}
<1>1. D # {}
  <2>1. PICK m \in S : TRUE
    OBVIOUS
  <2>2. n - m \in Nat /\ n - (n - m) = m
    OBVIOUS
  <2> QED
    BY <2>2
<1>2. PICK x \in D : \A y \in D : x <= y
  BY <1>1, LeastNumber
<1>3. n - x \in S
  BY <1>2
<1>4. ASSUME NEW m \in S PROVE n - x >= m
  <2>1. n - m \in Nat /\ n - (n - m) = m
    OBVIOUS
  <2>2. n - m \in D
    BY <2>1
  <2>3. x <= n - m
    BY <1>2, <2>2
  <2> QED
    BY <2>3
<1>5. \E y \in S : \A m \in S : y >= m
  BY <1>3, <1>4
<1>6. Max(S) \in S /\ \A m \in S : Max(S) >= m
  BY <1>5 DEF Max
<1> QED
  BY <1>6

-----------------------------------------------------------------------------
(* What the client makes of a text, and of one that goes on. *)

(* The last position of a text that is no newline. *)
LEMMA LastTextIs ==
  ASSUME NEW s \in Message, NEW k \in 0..Len(s)
  PROVE  /\ LastText(s, k) \in 0..k
         /\ LastText(s, k) > 0 => s[LastText(s, k)] # "\n"
         /\ \A j \in (LastText(s, k) + 1)..k : s[j] = "\n"
<1> DEFINE S == {0} \cup {j \in 1..k : s[j] # "\n"}
<1>1. Len(s) \in Nat /\ k \in Nat
  BY DEF Message
<1>2. S \in SUBSET (0..k) /\ S # {}
  BY <1>1
<1>3. Max(S) \in S /\ \A m \in S : m <= Max(S)
  BY <1>1, <1>2, MaxIs
<1>4. LastText(s, k) = Max(S)
  BY DEF LastText
<1> DEFINE x == Max(S)
<1>x. x = Max(S)
  OBVIOUS
<1>5. x \in S /\ \A m \in S : m <= x
  BY <1>3
<1> HIDE DEF x
<1>6. x \in 0..k /\ (x > 0 => s[x] # "\n")
  BY <1>1, <1>5
<1>7. \A j \in (x + 1)..k : s[j] = "\n"
  <2> SUFFICES ASSUME NEW j \in (x + 1)..k, s[j] # "\n" PROVE FALSE
    OBVIOUS
  <2>1. j \in 1..k
    BY <1>1, <1>6
  <2>2. j \in S
    BY <2>1
  <2> QED
    BY <1>1, <1>5, <1>6, <2>1, <2>2
<1> QED
  BY <1>4, <1>6, <1>7, <1>x

(* It is the only such position. *)
LEMMA LastTextOnly ==
  ASSUME NEW s \in Message, NEW k \in 0..Len(s), NEW x \in 0..k,
         x > 0 => s[x] # "\n", \A j \in (x + 1)..k : s[j] = "\n"
  PROVE  LastText(s, k) = x
<1> DEFINE y == LastText(s, k)
<1>1. Len(s) \in Nat /\ k \in Nat
  BY DEF Message
<1>2. y \in 0..k /\ (y > 0 => s[y] # "\n") /\ \A j \in (y + 1)..k : s[j] = "\n"
  BY LastTextIs
<1> HIDE DEF y
<1>3. ~(x < y)
  <2> SUFFICES ASSUME x < y PROVE FALSE
    OBVIOUS
  <2>1. y \in (x + 1)..k /\ y > 0
    BY <1>1, <1>2
  <2> QED
    BY <1>2, <2>1
<1>4. ~(y < x)
  <2> SUFFICES ASSUME y < x PROVE FALSE
    OBVIOUS
  <2>1. x \in (y + 1)..k /\ x > 0
    BY <1>1, <1>2
  <2> QED
    BY <1>2, <2>1
<1>5. y = x
  BY <1>1, <1>2, <1>3, <1>4
<1> QED
  BY <1>5 DEF y

(* The text t goes on where s ends. *)
GoesOn(s, t) == Len(s) <= Len(t) /\ \A j \in 1..Len(s) : t[j] = s[j]

(* What follows does not change what was there. *)
LEMMA LastTextStays ==
  ASSUME NEW s \in Message, NEW t \in Message, GoesOn(s, t), NEW k \in 0..Len(s)
  PROVE  LastText(t, k) = LastText(s, k)
<1> DEFINE x == LastText(s, k)
<1>1. x \in 0..k /\ (x > 0 => s[x] # "\n") /\ \A j \in (x + 1)..k : s[j] = "\n"
  BY LastTextIs
<1>2. Len(s) \in Nat /\ Len(t) \in Nat /\ Len(s) <= Len(t) /\ \A j \in 1..Len(s) : t[j] = s[j]
  BY DEF Message, GoesOn
<1> HIDE DEF x
<1>3. k \in 0..Len(t)
  BY <1>2
<1>4. x > 0 => t[x] # "\n"
  BY <1>1, <1>2
<1>5. ASSUME NEW j \in (x + 1)..k PROVE t[j] = "\n"
  <2>1. j \in 1..Len(s)
    BY <1>1, <1>2
  <2> QED
    BY <1>1, <1>2, <2>1
<1>6. LastText(t, k) = x
  BY <1>1, <1>3, <1>4, <1>5, LastTextOnly
<1> QED
  BY <1>6 DEF x

(* An end is an end of the text that goes on. *)
LEMMA EndsStay ==
  ASSUME NEW s \in Message, NEW t \in Message, GoesOn(s, t)
  PROVE  \A k \in 1..Len(s) : k \in Ends(s) <=> k \in Ends(t)
<1> SUFFICES ASSUME NEW k \in 1..Len(s) PROVE k \in Ends(s) <=> k \in Ends(t)
  OBVIOUS
<1>1. Len(s) \in Nat /\ Len(t) \in Nat /\ Len(s) <= Len(t) /\ t[k] = s[k]
  BY DEF Message, GoesOn
<1>2. k \in 0..Len(s) /\ k \in 1..Len(t)
  BY <1>1
<1>3. LastText(t, k) = LastText(s, k)
  BY <1>2, LastTextStays
<1> QED
  BY <1>1, <1>2, <1>3 DEF Ends

(* Ends are positions of the text. *)
LEMMA EndsAre ==
  ASSUME NEW s \in Message
  PROVE  /\ Ends(s) \subseteq 1..Len(s) /\ Len(s) \in Nat
         /\ IsFiniteSet(Ends(s)) /\ Cardinality(Ends(s)) \in Nat
         /\ \A e \in Ends(s) : s[e] = "\n"
<1>1. Ends(s) \subseteq 1..Len(s) /\ Len(s) \in Nat /\ \A e \in Ends(s) : s[e] = "\n"
  BY DEF Ends, Message
<1>2. IsFiniteSet(1..Len(s))
  BY <1>1, FS_Interval
<1>3. IsFiniteSet(Ends(s))
  BY <1>1, <1>2, FS_Subset
<1> QED
  BY <1>1, <1>3, FS_CardinalityType

(* The ends before a position, and those up to it, stay. *)
LEMMA CountStays ==
  ASSUME NEW s \in Message, NEW t \in Message, GoesOn(s, t), NEW k \in 1..Len(s)
  PROVE  /\ {e \in Ends(t) : e <= k} = {e \in Ends(s) : e <= k}
         /\ {e \in Ends(t) : e < k} = {e \in Ends(s) : e < k}
<1>1. Ends(s) \subseteq 1..Len(s) /\ Len(s) \in Nat /\ Ends(t) \subseteq 1..Len(t) /\ Len(t) \in Nat
  BY EndsAre
<1>2. \A e \in 1..Len(s) : e \in Ends(s) <=> e \in Ends(t)
  BY EndsStay
<1>3. ASSUME NEW e PROVE (e \in Ends(t) /\ e <= k) <=> (e \in Ends(s) /\ e <= k)
  BY <1>1, <1>2
<1>4. ASSUME NEW e PROVE (e \in Ends(t) /\ e < k) <=> (e \in Ends(s) /\ e < k)
  BY <1>1, <1>2
<1> QED
  BY <1>3, <1>4

(* The greatest end before a position. *)
Previous(s, k) == Max({0} \cup {e \in Ends(s) : e < k})

(* It is an end, or zero if there is none, and no end lies between. *)
LEMMA PreviousIs ==
  ASSUME NEW s \in Message, NEW k \in 1..Len(s)
  PROVE  /\ Previous(s, k) \in 0..(k - 1)
         /\ Previous(s, k) > 0 => Previous(s, k) \in Ends(s)
         /\ \A e \in Ends(s) : e < k => e <= Previous(s, k)
<1> DEFINE S == {0} \cup {e \in Ends(s) : e < k}
<1>1. Ends(s) \subseteq 1..Len(s) /\ Len(s) \in Nat
  BY EndsAre
<1>2. S \in SUBSET (0..(k - 1)) /\ S # {} /\ k - 1 \in Nat
  BY <1>1
<1>3. Max(S) \in S /\ \A m \in S : m <= Max(S)
  BY <1>2, MaxIs
<1>4. Previous(s, k) = Max(S)
  BY DEF Previous
<1> DEFINE x == Max(S)
<1>5. x \in S /\ (\A m \in S : m <= x) /\ x = Previous(s, k)
  BY <1>3, <1>4
<1> HIDE DEF x
<1>6. x \in 0..(k - 1) /\ (x > 0 => x \in Ends(s))
  BY <1>2, <1>5
<1>7. \A e \in Ends(s) : e < k => e <= x
  BY <1>5
<1> QED
  BY <1>5, <1>6, <1>7

(* The text behind it. *)
Texts(s, k) == {j \in (Previous(s, k) + 1)..k : s[j] # "\n"}

(* What is decoded, by these two. *)
LEMMA DecodedIs ==
  ASSUME NEW s, NEW k
  PROVE  Decoded(s, k) =
           IF Texts(s, k) = {} THEN << >>
           ELSE SubSeq(s, Min(Texts(s, k)), Max(Texts(s, k)))
BY DEF Decoded, Texts, Previous

(* The first and the last text of an answer are in it. *)
LEMMA TextsAre ==
  ASSUME NEW s \in Message, NEW k \in 1..Len(s), Texts(s, k) # {}
  PROVE  /\ Min(Texts(s, k)) \in Texts(s, k) /\ Max(Texts(s, k)) \in Texts(s, k)
         /\ \A j \in Texts(s, k) : Min(Texts(s, k)) <= j /\ j <= Max(Texts(s, k))
         /\ Texts(s, k) \subseteq 1..k
<1>1. Previous(s, k) \in 0..(k - 1)
  BY PreviousIs
<1>2. k \in Nat /\ k \in 1..Len(s)
  BY DEF Message
<1>3. Texts(s, k) \subseteq 1..k
  BY <1>1, <1>2 DEF Texts
<1>4. Texts(s, k) \in SUBSET (0..k) /\ Texts(s, k) \in SUBSET Nat
  BY <1>2, <1>3
<1>5. Max(Texts(s, k)) \in Texts(s, k) /\ \A j \in Texts(s, k) : j <= Max(Texts(s, k))
  BY <1>2, <1>4, MaxIs
<1>6. Min(Texts(s, k)) \in Texts(s, k) /\ \A j \in Texts(s, k) : Min(Texts(s, k)) <= j
  BY <1>4, MinIs
<1> QED
  BY <1>3, <1>5, <1>6

(* An answer that has ended stays what it is. *)
LEMMA DecodedStays ==
  ASSUME NEW s \in Message, NEW t \in Message, GoesOn(s, t), NEW k \in 1..Len(s)
  PROVE  Decoded(t, k) = Decoded(s, k)
<1>1. Len(s) \in Nat /\ Len(t) \in Nat /\ Len(s) <= Len(t) /\ \A j \in 1..Len(s) : t[j] = s[j]
  BY DEF Message, GoesOn
<1>2. Previous(t, k) = Previous(s, k)
  <2>1. {e \in Ends(t) : e < k} = {e \in Ends(s) : e < k}
    BY CountStays
  <2> QED
    BY <2>1, Zenon DEF Previous
<1>3. Previous(s, k) \in 0..(k - 1)
  BY PreviousIs
<1>4. Texts(t, k) = Texts(s, k)
  BY <1>1, <1>2, <1>3 DEF Texts
<1>5. CASE Texts(s, k) = {}
  BY <1>4, <1>5, DecodedIs
<1>6. CASE Texts(s, k) # {}
  <2> DEFINE a == Min(Texts(s, k))
             b == Max(Texts(s, k))
  <2>1. a \in Texts(s, k) /\ b \in Texts(s, k) /\ Texts(s, k) \subseteq 1..k
    BY <1>6, TextsAre
  <2>2. Decoded(t, k) = SubSeq(t, a, b) /\ Decoded(s, k) = SubSeq(s, a, b)
    BY <1>4, <1>6, DecodedIs
  <2> HIDE DEF a, b
  <2>3. a \in 1..Len(s) /\ b \in 1..Len(s)
    BY <1>1, <2>1
  <2>4. SubSeq(t, a, b) = SubSeq(s, a, b)
    BY <1>1, <2>3 DEF Message
  <2> QED
    BY <2>2, <2>4
<1> QED
  BY <1>5, <1>6

(* Nothing between the ends is the empty answer. *)
LEMMA DecodedNone ==
  ASSUME NEW s \in Message, NEW k \in 1..Len(s),
         \A j \in 1..k : s[j] = "\n" \/ \E e \in Ends(s) : e < k /\ j <= e
  PROVE  Decoded(s, k) = << >>
<1>1. Ends(s) \subseteq 1..Len(s) /\ Len(s) \in Nat
  BY EndsAre
<1> DEFINE p == Previous(s, k)
<1>2. p \in 0..(k - 1) /\ \A e \in Ends(s) : e < k => e <= p
  BY PreviousIs
<1>3. Texts(s, k) = {j \in (p + 1)..k : s[j] # "\n"}
  BY DEF Texts
<1> HIDE DEF p
<1>4. Texts(s, k) = {}
  BY <1>1, <1>2, <1>3
<1> QED
  BY <1>4, DecodedIs

(* A text t behind the last end before k is the answer. *)
LEMMA DecodedText ==
  ASSUME NEW s \in Message, NEW k \in 1..Len(s), NEW t \in Message, NEW f \in 1..k,
         t # << >>, f + Len(t) - 1 <= k,
         \A e \in Ends(s) : e < k => e < f,
         \A j \in 1..(f - 1) : s[j] = "\n" \/ \E e \in Ends(s) : e < k /\ j <= e,
         \A j \in 1..Len(t) : s[f + j - 1] = t[j],
         \A j \in (f + Len(t))..k : s[j] = "\n",
         t[1] # "\n", t[Len(t)] # "\n"
  PROVE  Decoded(s, k) = t
<1>1. Ends(s) \subseteq 1..Len(s) /\ Len(s) \in Nat
  BY EndsAre
<1>2. Len(t) \in Nat /\ Len(t) >= 1
  BY DEF Message
<1> DEFINE p == Previous(s, k)
           l == f + Len(t) - 1
<1>3. p \in 0..(k - 1) /\ (p > 0 => p \in Ends(s)) /\ \A e \in Ends(s) : e < k => e <= p
  BY PreviousIs
<1>4. Texts(s, k) = {j \in (p + 1)..k : s[j] # "\n"}
  BY DEF Texts
<1> HIDE DEF p
<1>5. p < f
  BY <1>1, <1>3
<1>6. s[f] # "\n" /\ s[l] # "\n"
  <2>1. s[f + 1 - 1] = t[1] /\ s[f + Len(t) - 1] = t[Len(t)]
    BY <1>2
  <2>2. f + 1 - 1 = f
    OBVIOUS
  <2> QED
    BY <2>1, <2>2
<1>7. l \in Nat /\ f <= l /\ l <= k
  BY <1>2
<1>8. f \in Texts(s, k) /\ l \in Texts(s, k)
  BY <1>3, <1>4, <1>5, <1>6, <1>7
<1>9. ASSUME NEW j \in Texts(s, k) PROVE f <= j /\ j <= l
  <2>1. j \in (p + 1)..k /\ s[j] # "\n" /\ j \in Nat
    BY <1>3, <1>4, <1>9
  <2>2. ~(j < f)
    <3> SUFFICES ASSUME j < f PROVE FALSE
      OBVIOUS
    <3>1. j \in 1..(f - 1)
      BY <1>3, <2>1
    <3>2. PICK e \in Ends(s) : e < k /\ j <= e
      BY <2>1, <3>1
    <3> QED
      BY <1>1, <1>3, <2>1, <3>2
  <2>3. ~(j > l)
    <3> SUFFICES ASSUME j > l PROVE FALSE
      OBVIOUS
    <3>1. j \in (f + Len(t))..k
      BY <1>2, <2>1
    <3> QED
      BY <2>1, <3>1
  <2> QED
    BY <2>1, <2>2, <2>3, <1>7
<1> DEFINE a == Min(Texts(s, k))
           b == Max(Texts(s, k))
<1>10. Texts(s, k) # {}
  BY <1>8
<1>11. a \in Texts(s, k) /\ b \in Texts(s, k) /\ \A j \in Texts(s, k) : a <= j /\ j <= b
  BY <1>10, TextsAre
<1>12. Decoded(s, k) = SubSeq(s, a, b)
  BY <1>10, DecodedIs
<1> HIDE DEF a, b
<1>13. a = f /\ b = l
  <2>1. a \in Nat /\ b \in Nat
    BY <1>3, <1>4, <1>11
  <2>2. f <= a /\ a <= f /\ l <= b /\ b <= l
    BY <1>8, <1>9, <1>11
  <2>3. f \in Nat /\ l \in Nat
    BY <1>7
  <2> QED
    BY ONLY <2>1, <2>2, <2>3
<1>14. SubSeq(s, f, l) = t
  <2> DEFINE u == SubSeq(s, f, l)
  <2>1. u \in Message /\ Len(u) = Len(t) /\ \A j \in 1..Len(t) : u[j] = s[f + j - 1]
    BY <1>1, <1>2, <1>7 DEF Message
  <2> HIDE DEF u
  <2>2. \A j \in 1..Len(t) : u[j] = t[j]
    BY <2>1
  <2>3. u = t
    BY <2>1, <2>2 DEF Message
  <2> QED
    BY <2>3 DEF u
<1> QED
  BY <1>12, <1>13, <1>14

(* A text with a write behind it. *)
LEMMA WithWrite ==
  ASSUME NEW s \in Message, NEW w \in Message
  PROVE  /\ s \o w \in Message /\ GoesOn(s, s \o w)
         /\ Len(s) \in Nat /\ Len(w) \in Nat /\ Len(s \o w) = Len(s) + Len(w)
         /\ \A j \in 1..Len(s) : (s \o w)[j] = s[j]
         /\ \A j \in 1..Len(w) : (s \o w)[Len(s) + j] = w[j]
BY DEF Message, GoesOn

(* A write in which no newline is its first element or follows another one *)
(* ends no answer.                                                         *)
LEMMA NoNewEnds ==
  ASSUME NEW s \in Message, NEW w \in Message,
         \A j \in 1..Len(w) : w[j] = "\n" => j > 1 /\ w[j - 1] # "\n"
  PROVE  Ends(s \o w) = Ends(s)
<1> DEFINE t == s \o w
<1>1. /\ t \in Message /\ GoesOn(s, t)
      /\ Len(s) \in Nat /\ Len(w) \in Nat /\ Len(t) = Len(s) + Len(w)
      /\ \A j \in 1..Len(w) : t[Len(s) + j] = w[j]
  BY WithWrite
<1> HIDE DEF t
<1>2. Ends(s) \subseteq 1..Len(s) /\ Ends(t) \subseteq 1..Len(t) /\ \A e \in Ends(t) : t[e] = "\n"
  BY <1>1, EndsAre
<1>3. \A k \in 1..Len(s) : k \in Ends(s) <=> k \in Ends(t)
  BY <1>1, EndsStay
<1>4. ASSUME NEW k \in Ends(t), k > Len(s) PROVE FALSE
  <2> DEFINE j == k - Len(s)
  <2>1. k \in 1..Len(t) /\ t[k] = "\n" /\ k \in Nat
    BY <1>1, <1>2, <1>4
  <2>2. j \in 1..Len(w) /\ k = Len(s) + j
    BY <1>1, <1>4, <2>1
  <2> HIDE DEF j
  <2>3. j > 1 /\ w[j - 1] # "\n"
    BY <1>1, <2>1, <2>2
  <2>4. j - 1 \in 1..Len(w)
    BY <1>1, <2>2, <2>3
  <2>5. t[Len(s) + (j - 1)] = w[j - 1]
    BY <1>1, <2>4
  <2>6. Len(s) + (j - 1) = k - 1 /\ k - 1 \in 0..k /\ k \in 0..Len(t) /\ k - 1 > 0
    BY <1>1, <2>1, <2>2, <2>3
  <2>7. t[k - 1] # "\n"
    BY <2>3, <2>5, <2>6
  <2>8. \A i \in ((k - 1) + 1)..k : t[i] = "\n"
    <3>1. \A i \in ((k - 1) + 1)..k : i = k
      BY <2>1
    <3> QED
      BY <2>1, <3>1
  <2>9. LastText(t, k) = k - 1
    BY <1>1, <2>6, <2>7, <2>8, LastTextOnly
  <2>10. (k - (k - 1)) % 2 = 1
    <3>1. k - (k - 1) = 1
      BY <2>1
    <3> QED
      BY <3>1
  <2> QED
    BY <1>4, <2>9, <2>10 DEF Ends
<1>5. \A k \in Ends(t) : k \in 1..Len(s)
  BY <1>1, <1>2, <1>4
<1>6. Ends(t) = Ends(s)
  BY <1>2, <1>3, <1>5
<1> QED
  BY <1>6 DEF t

(* The marker ends one answer, wherever it comes. *)
LEMMA MarkerEnds ==
  ASSUME NEW s \in Message
  PROVE  \E k \in {Len(s) + 1, Len(s) + 2} : Ends(s \o EndOfResults) = Ends(s) \cup {k}
<1> DEFINE t == s \o EndOfResults
           x == LastText(s, Len(s))
<1>1. EndOfResults \in Message /\ Len(EndOfResults) = 2 /\ \A j \in 1..2 : EndOfResults[j] = "\n"
  <2>a. "\n" \in Token
    BY DEF Token
  <2>1. EndOfResults \in Seq(Token) /\ Len(EndOfResults) = 2
    BY <2>a DEF EndOfResults
  <2>2. EndOfResults[1] = "\n" /\ EndOfResults[2] = "\n"
    BY DEF EndOfResults
  <2>3. \A j \in 1..2 : j = 1 \/ j = 2
    OBVIOUS
  <2> QED
    BY <2>1, <2>2, <2>3 DEF Message
<1>2. /\ t \in Message /\ GoesOn(s, t) /\ Len(s) \in Nat /\ Len(t) = Len(s) + 2
      /\ (\A j \in 1..Len(s) : t[j] = s[j]) /\ \A j \in 1..2 : t[Len(s) + j] = "\n"
  <2>1. /\ t \in Message /\ GoesOn(s, t) /\ Len(s) \in Nat
        /\ Len(t) = Len(s) + Len(EndOfResults)
        /\ (\A j \in 1..Len(s) : t[j] = s[j])
        /\ \A j \in 1..Len(EndOfResults) : t[Len(s) + j] = EndOfResults[j]
    BY <1>1, WithWrite
  <2> HIDE DEF t
  <2> QED
    BY <1>1, <2>1
<1>3. x \in 0..Len(s) /\ (x > 0 => s[x] # "\n") /\ \A j \in (x + 1)..Len(s) : s[j] = "\n"
  BY <1>2, LastTextIs
<1>4. \A k \in 1..Len(s) : k \in Ends(s) <=> k \in Ends(t)
  BY <1>2, EndsStay
<1>5. Ends(s) \subseteq 1..Len(s) /\ Ends(t) \subseteq 1..Len(t)
  BY <1>2, EndsAre
<1> HIDE DEF t, x
<1>6. ASSUME NEW k \in {Len(s) + 1, Len(s) + 2} PROVE k \in Ends(t) <=> ((k - x) % 2 = 0)
  <2>1. k \in 1..Len(t) /\ k \in 0..Len(t) /\ x \in 0..k
    BY <1>2, <1>3
  <2>2. ASSUME NEW j \in (x + 1)..k PROVE t[j] = "\n"
    <3>1. CASE j <= Len(s)
      BY <1>2, <1>3, <2>1, <3>1
    <3>2. CASE j > Len(s)
      <4>1. j - Len(s) \in 1..2 /\ Len(s) + (j - Len(s)) = j
        BY <1>2, <1>3, <2>1, <3>2
      <4> QED
        BY <1>2, <4>1
    <3> QED
      BY <1>2, <1>3, <3>1, <3>2
  <2>3. x > 0 => t[x] # "\n"
    BY <1>2, <1>3
  <2>4. LastText(t, k) = x
    BY <1>2, <2>1, <2>2, <2>3, LastTextOnly
  <2>5. t[k] = "\n"
    <3>1. k \in (x + 1)..k
      BY <1>2, <1>3, <2>1
    <3> QED
      BY <2>2, <3>1
  <2> QED
    BY <2>1, <2>4, <2>5 DEF Ends
<1>a. Len(s) + 1 \in Ends(t) <=> ((Len(s) + 1) - x) % 2 = 0
  BY <1>6, Zenon
<1>b. Len(s) + 2 \in Ends(t) <=> ((Len(s) + 2) - x) % 2 = 0
  BY <1>6, Zenon
<1>7. ((Len(s) + 1) - x) % 2 = 0 <=> ~(((Len(s) + 2) - x) % 2 = 0)
  <2> DEFINE y == (Len(s) + 1) - x
  <2>1. y \in Nat /\ (Len(s) + 2) - x = y + 1
    BY <1>2, <1>3
  <2> HIDE DEF y
  <2>2. y % 2 = 0 <=> ~((y + 1) % 2 = 0)
    BY <2>1
  <2> QED
    BY <2>1, <2>2 DEF y
<1>8. \A k \in 1..Len(t) : k \in 1..Len(s) \/ k = Len(s) + 1 \/ k = Len(s) + 2
  BY <1>2
<1>9. CASE ((Len(s) + 1) - x) % 2 = 0
  <2>1. Len(s) + 1 \in Ends(t) /\ Len(s) + 2 \notin Ends(t)
    BY <1>a, <1>b, <1>7, <1>9
  <2>2. Ends(t) = Ends(s) \cup {Len(s) + 1}
    BY <1>4, <1>5, <1>8, <2>1
  <2> QED
    BY <2>2 DEF t
<1>10. CASE ~(((Len(s) + 1) - x) % 2 = 0)
  <2>1. Len(s) + 1 \notin Ends(t) /\ Len(s) + 2 \in Ends(t)
    BY <1>a, <1>b, <1>7, <1>10
  <2>2. Ends(t) = Ends(s) \cup {Len(s) + 2}
    BY <1>4, <1>5, <1>8, <2>1
  <2> QED
    BY <2>2 DEF t
<1> QED
  BY <1>9, <1>10

-----------------------------------------------------------------------------
(* The queries taken, and their answers. *)

(* The queries of the input are finitely many. *)
LEMMA QueriesAre ==
  ASSUME NEW n \in Nat
  PROVE  Queries(n) \subseteq 1..n /\ IsFiniteSet(Queries(n)) /\ Cardinality(Queries(n)) \in Nat
<1>1. Queries(n) \subseteq 1..n
  BY DEF Queries
<1>2. IsFiniteSet(1..n)
  BY FS_Interval
<1>3. IsFiniteSet(Queries(n))
  BY <1>1, <1>2, FS_Subset
<1> QED
  BY <1>1, <1>3, FS_CardinalityType

(* One more item is one more query, or none. *)
LEMMA QueriesNext ==
  ASSUME NEW n \in Nat, n > 0
  PROVE  /\ Queries(n - 1) \subseteq Queries(n)
         /\ n \in Queries(n) =>
              Cardinality(Queries(n)) = Cardinality(Queries(n - 1)) + 1
         /\ n \notin Queries(n) => Queries(n) = Queries(n - 1)
<1>1. \A m : m \in 1..n <=> (m \in 1..(n - 1) \/ m = n)
  OBVIOUS
<1>2. Queries(n - 1) \subseteq Queries(n)
  BY <1>1 DEF Queries
<1>3. n \notin Queries(n) => Queries(n) = Queries(n - 1)
  BY <1>1 DEF Queries
<1>4. n \in Queries(n) => Queries(n) = Queries(n - 1) \cup {n}
  BY <1>1 DEF Queries
<1>5. n - 1 \in Nat
  OBVIOUS
<1>6. IsFiniteSet(Queries(n - 1)) /\ n \notin Queries(n - 1)
  <2>1. IsFiniteSet(Queries(n - 1)) /\ Queries(n - 1) \subseteq 1..(n - 1)
    BY <1>5, QueriesAre
  <2> QED
    BY <2>1
<1>7. Cardinality(Queries(n - 1) \cup {n}) = Cardinality(Queries(n - 1)) + 1
  BY <1>6, FS_AddElement
<1> QED
  BY <1>2, <1>3, <1>4, <1>7

(* The answers of a part of a right text are right. *)
LEMMA RightBefore ==
  ASSUME NEW s \in Message, NEW t \in Message, GoesOn(s, t), NEW n, Right(t, n)
  PROVE  Right(s, n)
<1> SUFFICES ASSUME NEW k \in Ends(s)
             PROVE  \E m \in Queries(n) :
                      /\ Cardinality(Queries(m)) = Cardinality({e \in Ends(s) : e <= k})
                      /\ Decoded(s, k) = Answer(input.items[m])
  BY DEF Right
<1>1. k \in 1..Len(s)
  BY EndsAre
<1>2. k \in Ends(t)
  BY <1>1, EndsStay
<1>3. {e \in Ends(t) : e <= k} = {e \in Ends(s) : e <= k}
  BY <1>1, CountStays
<1>4. Decoded(t, k) = Decoded(s, k)
  BY <1>1, DecodedStays
<1>5. PICK m \in Queries(n) : /\ Cardinality(Queries(m)) = Cardinality({e \in Ends(t) : e <= k})
                              /\ Decoded(t, k) = Answer(input.items[m])
  BY <1>2 DEF Right
<1> QED
  BY <1>3, <1>4, <1>5

(* A right text that ends no further answer stays right. *)
LEMMA RightAfter ==
  ASSUME NEW s \in Message, NEW t \in Message, GoesOn(s, t), Ends(t) = Ends(s), NEW n, Right(s, n)
  PROVE  Right(t, n)
<1> SUFFICES ASSUME NEW k \in Ends(t)
             PROVE  \E m \in Queries(n) :
                      /\ Cardinality(Queries(m)) = Cardinality({e \in Ends(t) : e <= k})
                      /\ Decoded(t, k) = Answer(input.items[m])
  BY DEF Right
<1>1. k \in 1..Len(s) /\ k \in Ends(s)
  BY EndsAre
<1>2. Decoded(t, k) = Decoded(s, k)
  BY <1>1, DecodedStays
<1>3. PICK m \in Queries(n) : /\ Cardinality(Queries(m)) = Cardinality({e \in Ends(s) : e <= k})
                              /\ Decoded(s, k) = Answer(input.items[m])
  BY <1>1 DEF Right
<1> QED
  BY <1>2, <1>3

(* Right answers are right when one more item is taken. *)
LEMMA RightMore ==
  ASSUME NEW n \in Nat, n > 0, NEW s, Right(s, n - 1)
  PROVE  Right(s, n)
BY QueriesNext DEF Right

(* The text is all answered when the answer to the last item ends. *)
LEMMA RightEnd ==
  ASSUME NEW n \in Nat, n \in Queries(n), n > 0,
         NEW s \in Message, NEW t \in Message, GoesOn(s, t), AllAnswered(s, n - 1),
         NEW k \in Nat, k > Len(s), k <= Len(t), Ends(t) = Ends(s) \cup {k},
         Decoded(t, k) = Answer(input.items[n])
  PROVE  AllAnswered(t, n)
<1>1. Ends(s) \subseteq 1..Len(s) /\ Len(s) \in Nat /\ IsFiniteSet(Ends(s))
  BY EndsAre
<1>2. Right(s, n - 1) /\ Cardinality(Ends(s)) = Cardinality(Queries(n - 1))
  BY DEF AllAnswered
<1>3. Right(s, n)
  BY <1>2, RightMore
<1>4. Cardinality(Queries(n)) = Cardinality(Queries(n - 1)) + 1
  BY QueriesNext
<1>5. k \notin Ends(s)
  BY <1>1
<1>6. Cardinality(Ends(t)) = Cardinality(Ends(s)) + 1
  BY <1>1, <1>5, FS_AddElement
<1>7. Right(t, n)
  <2> SUFFICES ASSUME NEW e \in Ends(t)
               PROVE  \E m \in Queries(n) :
                        /\ Cardinality(Queries(m)) = Cardinality({x \in Ends(t) : x <= e})
                        /\ Decoded(t, e) = Answer(input.items[m])
    BY DEF Right
  <2>1. CASE e = k
    <3>1. {x \in Ends(t) : x <= e} = Ends(t)
      BY <1>1, <2>1
    <3>2. Cardinality(Queries(n)) = Cardinality({x \in Ends(t) : x <= e})
      BY <1>2, <1>4, <1>6, <3>1
    <3> QED
      BY <2>1, <3>2
  <2>2. CASE e # k
    <3>1. e \in Ends(s) /\ e \in 1..Len(s)
      BY <1>1, <2>2
    <3>2. {x \in Ends(t) : x <= e} = {x \in Ends(s) : x <= e}
      BY <3>1, CountStays
    <3>3. Decoded(t, e) = Decoded(s, e)
      BY <3>1, DecodedStays
    <3>4. PICK m \in Queries(n) : /\ Cardinality(Queries(m)) = Cardinality({x \in Ends(s) : x <= e})
                                  /\ Decoded(s, e) = Answer(input.items[m])
      BY <1>3, <3>1 DEF Right
    <3> QED
      BY <3>2, <3>3, <3>4
  <2> QED
    BY <2>1, <2>2
<1> QED
  BY <1>2, <1>4, <1>6, <1>7 DEF AllAnswered

-----------------------------------------------------------------------------
(* The text of an answer. *)

(* The step of the recursion of Joined. *)
Link(m, f, k) ==
  IF k = 0 THEN << >>
  ELSE IF k = 1 THEN m[1]
  ELSE f[k - 1] \o <<"\n">> \o m[k]

(* The first results can be joined. *)
LEMMA JoinedExists ==
  ASSUME NEW m \in Seq(Message), NEW n \in 0..Len(m)
  PROVE  \E f \in [0..n -> Message] : \A k \in 0..n : f[k] = Link(m, f, k)
<1> DEFINE Good(x) == \E f \in [0..x -> Message] : \A k \in 0..x : f[k] = Link(m, f, k)
           Bad == {x \in 0..Len(m) : ~Good(x)}
<1> SUFFICES ASSUME Bad # {} PROVE FALSE
  OBVIOUS
<1>1. Len(m) \in Nat /\ \A k \in 1..Len(m) : m[k] \in Message
  OBVIOUS
<1>2. Bad \in SUBSET Nat
  BY <1>1
<1>3. PICK x \in Bad : \A y \in Bad : x <= y
  BY <1>2, LeastNumber
<1>4. x \in 0..Len(m) /\ ~Good(x)
  BY <1>3
<1>5. << >> \in Message /\ <<"\n">> \in Message
  BY DEF Message, Token
<1>6. CASE x = 0
  <2> DEFINE f == [k \in 0..0 |-> << >>]
  <2>1. f \in [0..0 -> Message]
    BY <1>5
  <2>2. \A k \in 0..0 : f[k] = Link(m, f, k)
    BY DEF Link
  <2>3. Good(0)
    BY <2>1, <2>2
  <2> QED
    BY <1>4, <1>6, <2>3
<1>7. CASE x > 0
  <2>1. x - 1 \in 0..Len(m) /\ x \in 1..Len(m)
    BY <1>1, <1>4, <1>7
  <2>2. Good(x - 1)
    <3>a. x \in Nat /\ x - 1 < x
      BY <1>1, <1>4
    <3>1. x - 1 \notin Bad
      <4>1. x - 1 \in Bad => x <= x - 1
        BY <1>3, Zenon
      <4> QED
        BY ONLY <3>a, <4>1
    <3> QED
      BY <2>1, <3>1
  <2>3. PICK g \in [0..(x - 1) -> Message] : \A k \in 0..(x - 1) : g[k] = Link(m, g, k)
    BY <2>2
  <2> DEFINE f == [k \in 0..x |-> IF k = x THEN Link(m, g, x) ELSE g[k]]
  <2>4. Link(m, g, x) \in Message
    <3>1. CASE x = 1
      BY <1>1, <2>1, <3>1 DEF Link
    <3>2. CASE x > 1
      <4>1. x - 1 \in 0..(x - 1)
        BY <1>1, <2>1, <3>2
      <4>2. g[x - 1] \in Message
        BY <2>3, <4>1
      <4>3. g[x - 1] \o <<"\n">> \in Message
        BY <1>5, <4>2 DEF Message
      <4>4. (g[x - 1] \o <<"\n">>) \o m[x] \in Message
        BY <1>1, <2>1, <4>3 DEF Message
      <4> QED
        BY <1>1, <2>1, <3>2, <4>4 DEF Link
    <3> QED
      BY <2>1, <1>1, <3>1, <3>2
  <2>5. f \in [0..x -> Message]
    BY <2>1, <2>3, <2>4
  <2>6. ASSUME NEW k \in 0..x PROVE f[k] = Link(m, f, k)
    <3>1. k > 1 => f[k - 1] = g[k - 1]
      <4> SUFFICES ASSUME k > 1 PROVE f[k - 1] = g[k - 1]
        OBVIOUS
      <4>1. k - 1 \in 0..x /\ k - 1 # x
        BY <2>1
      <4> QED
        BY <4>1
    <3>2. Link(m, f, k) = Link(m, g, k)
      BY <3>1, <1>4 DEF Link
    <3>3. f[k] = Link(m, g, k)
      <4>1. CASE k = x
        BY <4>1
      <4>2. CASE k # x
        <5>1. k \in 0..(x - 1)
          BY <1>1, <1>4, <4>2
        <5> QED
          BY <2>3, <4>2, <5>1
      <4> QED
        BY <4>1, <4>2
    <3> QED
      BY <3>2, <3>3
  <2>7. Good(x)
    BY <2>5, <2>6
  <2> QED
    BY <1>4, <2>7
<1> QED
  BY <1>1, <1>4, <1>6, <1>7

(* Joined is what its definition says. *)
LEMMA JoinedIs ==
  ASSUME NEW m \in Seq(Message)
  PROVE  /\ Joined(m)[0] = << >>
         /\ Len(m) >= 1 => Joined(m)[1] = m[1]
         /\ \A k \in 2..Len(m) : Joined(m)[k] = (Joined(m)[k - 1] \o <<"\n">>) \o m[k]
         /\ \A k \in 0..Len(m) : Joined(m)[k] \in Message
<1> DEFINE n == Len(m)
           J == Joined(m)
<1>1. n \in Nat /\ n \in 0..Len(m) /\ \A k \in 1..n : m[k] \in Message
  OBVIOUS
<1>2. PICK f \in [0..n -> Message] : \A k \in 0..n : f[k] = Link(m, f, k)
  BY <1>1, JoinedExists
<1>3. f = [k \in 0..n |-> Link(m, f, k)]
  BY <1>2
<1>4. J = [k \in 0..n |-> Link(m, J, k)]
  BY <1>3 DEF Joined, Link
<1> HIDE DEF J, n
<1>5. \A k \in 0..n : J[k] = Link(m, J, k)
  BY <1>4, Zenon
<1>6. J[0] = << >> /\ (n >= 1 => J[1] = m[1])
  BY <1>1, <1>5 DEF Link
<1>7. ASSUME NEW k \in 2..n PROVE J[k] = (J[k - 1] \o <<"\n">>) \o m[k]
  <2>1. k \in 0..n /\ k # 0 /\ k # 1
    BY <1>1
  <2> QED
    BY <1>5, <2>1, Zenon DEF Link
<1>8. \A k \in 0..n : J[k] \in Message
  <2> DEFINE Bad == {k \in 0..n : J[k] # f[k]}
  <2> SUFFICES ASSUME Bad # {} PROVE FALSE
    BY <1>2
  <2>1. Bad \in SUBSET Nat
    BY <1>1
  <2>2. PICK k \in Bad : \A j \in Bad : k <= j
    BY <2>1, LeastNumber
  <2>3. k \in 0..n /\ J[k] # f[k] /\ k \in Nat
    BY <1>1, <2>2
  <2>4. k > 0 => J[k - 1] = f[k - 1]
    <3> SUFFICES ASSUME k > 0, J[k - 1] # f[k - 1] PROVE FALSE
      OBVIOUS
    <3>1. k - 1 \in 0..n
      BY <1>1, <2>3
    <3>2. k - 1 \in Bad
      BY <3>1
    <3> QED
      BY <2>2, <2>3, <3>2
  <2>5. Link(m, J, k) = Link(m, f, k)
    BY <2>3, <2>4 DEF Link
  <2> QED
    BY <1>2, <1>5, <2>3, <2>5
<1> QED
  BY <1>6, <1>7, <1>8 DEF J, n

(* A clean message, written with its newline, ends no answer and goes on   *)
(* with the one that is being given.                                       *)
LEMMA SayMore ==
  ASSUME NEW s \in Message, NEW m \in Message, Clean(m), NEW t \in Message, Saying(s, t, 1),
         NEW u \in Message, u = IF t = << >> THEN m ELSE (t \o <<"\n">>) \o m
  PROVE  /\ Append(m, "\n") \in Message
         /\ Ends(s \o Append(m, "\n")) = Ends(s)
         /\ Saying(s \o Append(m, "\n"), u, 1)
<1> DEFINE w == Append(m, "\n")
           x == s \o w
<1>1. /\ Len(m) \in Nat /\ Len(m) >= 1 /\ m[1] # "\n" /\ m[Len(m)] # "\n"
      /\ \A j \in 1..(Len(m) - 1) : m[j] # "\n" \/ m[j + 1] # "\n"
  BY DEF Clean, Message
<1>2. /\ w \in Message /\ Len(w) = Len(m) + 1 /\ w[Len(m) + 1] = "\n"
      /\ \A j \in 1..Len(m) : w[j] = m[j]
  BY DEF Message, Token
<1> HIDE DEF w
<1>3. ASSUME NEW j \in 1..Len(w), w[j] = "\n" PROVE j > 1 /\ w[j - 1] # "\n"
  <2>1. CASE j = Len(m) + 1
    BY <1>1, <1>2, <2>1
  <2>2. CASE j # Len(m) + 1
    <3>1. j \in 1..Len(m) /\ m[j] = "\n"
      BY <1>1, <1>2, <1>3, <2>2
    <3>2. j > 1
      BY <1>1, <3>1
    <3>3. j - 1 \in 1..(Len(m) - 1) /\ (j - 1) + 1 = j /\ j - 1 \in 1..Len(m)
      BY <1>1, <3>1, <3>2
    <3>4. m[j - 1] # "\n"
      BY <1>1, <3>1, <3>3
    <3> QED
      BY <1>2, <3>2, <3>3, <3>4
  <2> QED
    BY <2>1, <2>2
<1>4. Ends(x) = Ends(s)
  BY <1>2, <1>3, NoNewEnds
<1>5. /\ x \in Message /\ Len(s) \in Nat /\ Len(x) = (Len(s) + Len(m)) + 1
      /\ \A j \in 1..Len(s) : x[j] = s[j]
      /\ \A j \in 1..Len(m) : x[Len(s) + j] = m[j]
      /\ x[(Len(s) + Len(m)) + 1] = "\n"
  <2>1. /\ x \in Message /\ Len(s) \in Nat /\ Len(x) = Len(s) + Len(w)
        /\ \A j \in 1..Len(s) : x[j] = s[j]
        /\ \A j \in 1..Len(w) : x[Len(s) + j] = w[j]
    BY <1>2, WithWrite
  <2> HIDE DEF x
  <2>2. Len(x) = (Len(s) + Len(m)) + 1
    BY <1>1, <1>2, <2>1
  <2>3. \A j \in 1..Len(m) : x[Len(s) + j] = m[j]
    BY <1>1, <1>2, <2>1
  <2>4. x[Len(s) + (Len(m) + 1)] = "\n"
    BY <1>1, <1>2, <2>1
  <2>5. Len(s) + (Len(m) + 1) = (Len(s) + Len(m)) + 1
    BY <1>1, <2>1
  <2> QED
    BY <2>1, <2>2, <2>3, <2>4, <2>5
<1>6. Ends(s) \subseteq 1..Len(s)
  BY EndsAre
<1> HIDE DEF x
<1>7. CASE t = << >>
  <2>1. u = m /\ Idle(s)
    BY <1>7 DEF Saying
  <2> DEFINE f == Len(s) + 1
  <2>2. f \in 1..Len(x)
    BY <1>1, <1>5
  <2>a. Len(u) = Len(m)
    BY <2>1
  <2>3. Len(x) = f + Len(u) - 1 + 1
    BY ONLY <1>1, <1>5, <2>a
  <2>4. \A e \in Ends(x) : e < f
    BY <1>4, <1>5, <1>6
  <2>5. \A j \in 1..(f - 1) : x[j] = "\n" \/ \E e \in Ends(x) : j <= e
    BY <1>4, <1>5, <2>1 DEF Idle
  <2>6. ASSUME NEW j \in 1..Len(u) PROVE x[f + j - 1] = u[j]
    <3>1. f + j - 1 = Len(s) + j
      BY <1>5
    <3> QED
      BY <1>5, <2>1, <3>1
  <2>7. ASSUME NEW j \in (f + Len(u))..Len(x) PROVE x[j] = "\n"
    <3>a. j \in (f + Len(u))..Len(x)
      BY <2>7
    <3>1. j = (Len(s) + Len(m)) + 1
      <4>1. Len(s) \in Nat /\ Len(m) \in Nat /\ Len(x) = (Len(s) + Len(m)) + 1 /\ Len(u) = Len(m)
        BY <1>1, <1>5, <2>a
      <4> QED
        BY ONLY <3>a, <4>1
    <3> QED
      BY <1>5, <3>1
  <2>8. u # << >> /\ u[1] # "\n" /\ u[Len(u)] # "\n"
    BY <1>1, <2>1
  <2>9. From(x, u, 1, f)
    BY <2>3, <2>4, <2>5, <2>6, <2>7, <2>8 DEF From
  <2>10. Saying(x, u, 1)
    BY <2>2, <2>8, <2>9 DEF Saying
  <2> QED
    BY <1>2, <1>4, <2>10 DEF x, w
<1>8. CASE t # << >>
  <2>1. PICK f \in 1..Len(s) : From(s, t, 1, f)
    BY <1>8 DEF Saying
  <2>2. Len(t) \in Nat /\ Len(t) >= 1
    BY <1>8 DEF Message
  <2>3. /\ Len(u) = (Len(t) + 1) + Len(m)
        /\ \A j \in 1..Len(t) : u[j] = t[j]
        /\ u[Len(t) + 1] = "\n"
        /\ \A j \in 1..Len(m) : u[(Len(t) + 1) + j] = m[j]
    <3>1. <<"\n">> \in Message /\ Len(<<"\n">>) = 1 /\ <<"\n">>[1] = "\n"
      BY DEF Message, Token
    <3> DEFINE v == t \o <<"\n">>
    <3>2. /\ v \in Message /\ Len(v) = Len(t) + 1 /\ v[Len(t) + 1] = "\n"
          /\ \A j \in 1..Len(t) : v[j] = t[j]
      BY <2>2, <3>1, WithWrite
    <3>3. u = v \o m
      BY <1>8
    <3> HIDE DEF v
    <3>a. /\ Len(v \o m) = Len(v) + Len(m)
          /\ \A j \in 1..Len(v) : (v \o m)[j] = v[j]
          /\ \A j \in 1..Len(m) : (v \o m)[Len(v) + j] = m[j]
      BY <3>2, WithWrite
    <3>4. /\ Len(u) = Len(v) + Len(m)
          /\ \A j \in 1..Len(v) : u[j] = v[j]
          /\ \A j \in 1..Len(m) : u[Len(v) + j] = m[j]
      BY ONLY <3>3, <3>a, Zenon
    <3> QED
      BY <2>2, <3>2, <3>4
  <2>4. /\ Len(s) = f + Len(t) - 1 + 1
        /\ \A e \in Ends(s) : e < f
        /\ \A j \in 1..(f - 1) : s[j] = "\n" \/ \E e \in Ends(s) : j <= e
        /\ \A j \in 1..Len(t) : s[f + j - 1] = t[j]
        /\ \A j \in (f + Len(t))..Len(s) : s[j] = "\n"
        /\ t[1] # "\n"
    BY <2>1 DEF From
  <2>5. f \in Nat /\ f >= 1 /\ Len(s) = f + Len(t) /\ f \in 1..Len(x)
    BY <1>1, <1>5, <2>2, <2>4
  <2>6. Len(x) = f + Len(u) - 1 + 1
    BY <1>1, <1>5, <2>2, <2>3, <2>5
  <2>7. ASSUME NEW j \in 1..(f - 1) PROVE x[j] = "\n" \/ \E e \in Ends(x) : j <= e
    <3>1. j \in 1..Len(s)
      BY ONLY <2>2, <2>5, j \in 1..(f - 1)
    <3>2. x[j] = s[j]
      BY <1>5, <3>1
    <3>3. s[j] = "\n" \/ \E e \in Ends(s) : j <= e
      BY <2>4
    <3> QED
      BY <1>4, <3>2, <3>3
  <2>8. ASSUME NEW j \in 1..Len(u) PROVE x[f + j - 1] = u[j]
    <3>1. CASE j <= Len(t)
      <4>1. j \in 1..Len(t) /\ f + j - 1 \in 1..Len(s)
        BY <1>1, <2>2, <2>3, <2>5, <3>1
      <4> QED
        BY <1>5, <2>3, <2>4, <4>1
    <3>2. CASE j = Len(t) + 1
      <4>1. f + j - 1 = Len(s) /\ Len(s) \in (f + Len(t))..Len(s) /\ Len(s) \in 1..Len(s)
        BY <2>2, <2>5, <3>2
      <4> QED
        BY <1>5, <2>3, <2>4, <3>2, <4>1
    <3>3. CASE j > Len(t) + 1
      <4> DEFINE i == j - (Len(t) + 1)
      <4>1. i \in 1..Len(m) /\ f + j - 1 = Len(s) + i /\ j = (Len(t) + 1) + i
        BY <1>1, <2>2, <2>3, <2>5, <3>3
      <4> HIDE DEF i
      <4>2. x[Len(s) + i] = m[i] /\ u[(Len(t) + 1) + i] = m[i]
        BY <1>5, <2>3, <4>1
      <4> QED
        BY <4>1, <4>2
    <3> QED
      BY <1>1, <2>2, <2>3, <3>1, <3>2, <3>3
  <2>9. ASSUME NEW j \in (f + Len(u))..Len(x) PROVE x[j] = "\n"
    <3>a. j \in (f + Len(u))..Len(x)
      BY <2>9
    <3>1. j = (Len(s) + Len(m)) + 1
      <4>1. /\ Len(t) \in Nat /\ Len(m) \in Nat /\ Len(x) = (Len(s) + Len(m)) + 1
            /\ Len(u) = (Len(t) + 1) + Len(m) /\ f \in Nat /\ Len(s) = f + Len(t)
        BY <1>1, <1>5, <2>2, <2>3, <2>5
      <4> QED
        BY ONLY <3>a, <4>1
    <3> QED
      BY <1>5, <3>1
  <2>10. u # << >> /\ u[1] # "\n" /\ u[Len(u)] # "\n"
    <3>1. u[1] = t[1]
      BY <2>2, <2>3
    <3>2. u[(Len(t) + 1) + Len(m)] = m[Len(m)]
      BY <1>1, <2>3
    <3>3. u # << >>
      BY <1>1, <2>2, <2>3
    <3> QED
      BY <1>1, <2>3, <2>4, <3>1, <3>2, <3>3
  <2>11. From(x, u, 1, f)
    BY <1>4, <2>4, <2>6, <2>7, <2>8, <2>9, <2>10 DEF From
  <2>12. Saying(x, u, 1)
    BY <2>5, <2>10, <2>11 DEF Saying
  <2> QED
    BY <1>2, <1>4, <2>12 DEF x, w
<1> QED
  BY <1>7, <1>8

(* The text of an error, behind answers that have ended. *)
LEMMA SayError ==
  ASSUME NEW s \in Message, Idle(s)
  PROVE  /\ <<ErrorText>> \in Message
         /\ Ends(s \o <<ErrorText>>) = Ends(s)
         /\ Saying(s \o <<ErrorText>>, <<ErrorText>>, 0)
<1> DEFINE w == <<ErrorText>>
           x == s \o w
           f == Len(s) + 1
<1>1. w \in Message /\ Len(w) = 1 /\ w[1] = ErrorText /\ w[1] # "\n" /\ w # << >>
  BY ServerAssumption DEF Message, Token
<1> HIDE DEF w
<1>2. \A j \in 1..Len(w) : w[j] = "\n" => j > 1 /\ w[j - 1] # "\n"
  <2>1. \A j \in 1..Len(w) : j = 1
    BY <1>1
  <2> QED
    BY <1>1, <2>1
<1>3. Ends(x) = Ends(s)
  BY <1>1, <1>2, NoNewEnds
<1>4. /\ x \in Message /\ Len(s) \in Nat /\ Len(x) = Len(s) + Len(w)
      /\ \A j \in 1..Len(s) : x[j] = s[j]
      /\ \A j \in 1..Len(w) : x[Len(s) + j] = w[j]
  BY <1>1, WithWrite
<1> HIDE DEF x
<1>5. Ends(s) \subseteq 1..Len(s)
  BY EndsAre
<1>6. f \in 1..Len(x) /\ Len(x) = f + Len(w) - 1 + 0
  BY <1>1, <1>4
<1>7. \A e \in Ends(x) : e < f
  BY <1>3, <1>4, <1>5
<1>8. \A j \in 1..(f - 1) : x[j] = "\n" \/ \E e \in Ends(x) : j <= e
  BY <1>3, <1>4 DEF Idle
<1>9. ASSUME NEW j \in 1..Len(w) PROVE x[f + j - 1] = w[j]
  <2>1. f + j - 1 = Len(s) + j
    BY <1>1, <1>4
  <2> QED
    BY <1>4, <2>1
<1>10. \A j \in (f + Len(w))..Len(x) : x[j] = "\n"
  <2>1. ASSUME NEW j \in (f + Len(w))..Len(x) PROVE FALSE
    <3>1. Len(x) = Len(s) + 1 /\ Len(w) = 1 /\ Len(s) \in Nat
      BY <1>1, <1>4
    <3> QED
      BY <2>1, <3>1
  <2> QED
    BY <2>1
<1>11. From(x, w, 0, f)
  BY <1>1, <1>6, <1>7, <1>8, <1>9, <1>10 DEF From
<1>12. Saying(x, w, 0)
  BY <1>1, <1>6, <1>11 DEF Saying
<1> QED
  BY <1>1, <1>3, <1>12 DEF x, w

(* The marker ends the answer that was given. *)
LEMMA SayMarker ==
  ASSUME NEW s \in Message, NEW t \in Message, NEW more \in {0, 1}, Saying(s, t, more)
  PROVE  /\ EndOfResults \in Message
         /\ Idle(s \o EndOfResults)
         /\ \E k \in Nat : /\ k > Len(s) /\ k <= Len(s \o EndOfResults)
                           /\ Ends(s \o EndOfResults) = Ends(s) \cup {k}
                           /\ Decoded(s \o EndOfResults, k) = t
<1> DEFINE w == EndOfResults
           x == s \o w
<1>1. w \in Message /\ Len(w) = 2 /\ \A j \in 1..2 : w[j] = "\n"
  <2>1. "\n" \in Token
    BY DEF Token
  <2>2. w \in Seq(Token) /\ Len(w) = 2 /\ w[1] = "\n" /\ w[2] = "\n"
    BY <2>1 DEF EndOfResults
  <2>3. \A j \in 1..2 : j = 1 \/ j = 2
    OBVIOUS
  <2> QED
    BY <2>2, <2>3 DEF Message
<1>2. PICK k \in {Len(s) + 1, Len(s) + 2} : Ends(x) = Ends(s) \cup {k}
  BY MarkerEnds
<1> HIDE DEF w
<1>3. /\ x \in Message /\ Len(s) \in Nat /\ Len(x) = Len(s) + Len(w)
      /\ \A j \in 1..Len(s) : x[j] = s[j]
      /\ \A j \in 1..Len(w) : x[Len(s) + j] = w[j]
  BY <1>1, WithWrite
<1> HIDE DEF x
<1>4. Len(x) = Len(s) + 2 /\ \A j \in 1..2 : x[Len(s) + j] = "\n"
  BY <1>1, <1>3
<1>5. ASSUME NEW j \in (Len(s) + 1)..Len(x) PROVE x[j] = "\n"
  <2>1. j - Len(s) \in 1..2 /\ Len(s) + (j - Len(s)) = j
    BY <1>3, <1>4
  <2> QED
    BY <1>4, <2>1
<1>6. k \in Nat /\ k > Len(s) /\ k <= Len(x) /\ k \in 1..Len(x) /\ k \in Ends(x)
  BY <1>2, <1>3, <1>4
<1>7. Ends(s) \subseteq 1..Len(s)
  BY EndsAre
<1>8. \A e \in Ends(x) : e < k => e \in Ends(s)
  BY <1>2, <1>6
<1>9. \A e \in Ends(s) : e \in Ends(x) /\ e < k
  BY <1>2, <1>3, <1>6, <1>7
<1>10. Idle(x)
  <2> SUFFICES ASSUME NEW j \in 1..Len(x) PROVE x[j] = "\n" \/ \E e \in Ends(x) : j <= e
    BY DEF Idle
  <2>1. CASE j <= k
    BY <1>6, <2>1
  <2>2. CASE j > k
    BY <1>3, <1>5, <1>6, <2>2
  <2> QED
    BY <1>6, <2>1, <2>2
<1>11. Decoded(x, k) = t
  <2>1. CASE t = << >>
    <3>1. Idle(s)
      BY <2>1 DEF Saying
    <3>2. ASSUME NEW j \in 1..k PROVE x[j] = "\n" \/ \E e \in Ends(x) : e < k /\ j <= e
      <4>1. CASE j <= Len(s)
        <5>1. j \in 1..Len(s)
          BY <1>3, <4>1
        <5>2. s[j] = "\n" \/ \E e \in Ends(s) : j <= e
          BY <3>1, <5>1 DEF Idle
        <5> QED
          BY <1>3, <1>9, <5>1, <5>2
      <4>2. CASE j > Len(s)
        BY <1>3, <1>5, <1>6, <4>2
      <4> QED
        BY <1>3, <4>1, <4>2
    <3> QED
      BY <1>3, <1>6, <2>1, <3>2, DecodedNone
  <2>2. CASE t # << >>
    <3>1. PICK f \in 1..Len(s) : From(s, t, more, f)
      BY <2>2 DEF Saying
    <3>2. /\ Len(s) = f + Len(t) - 1 + more
          /\ \A e \in Ends(s) : e < f
          /\ \A j \in 1..(f - 1) : s[j] = "\n" \/ \E e \in Ends(s) : j <= e
          /\ \A j \in 1..Len(t) : s[f + j - 1] = t[j]
          /\ \A j \in (f + Len(t))..Len(s) : s[j] = "\n"
          /\ t[1] # "\n" /\ t[Len(t)] # "\n"
      BY <3>1 DEF From
    <3>3. Len(t) \in Nat /\ Len(t) >= 1 /\ f \in Nat /\ f >= 1 /\ f <= Len(s) /\ more \in {0, 1}
      BY <2>2 DEF Message
    <3>4. f \in 1..k /\ f + Len(t) - 1 <= k /\ f + Len(t) - 1 <= Len(s)
      <4>1. Len(s) = f + Len(t) - 1 + more /\ Len(s) \in Nat /\ k \in Nat /\ k > Len(s)
        BY <1>3, <1>6, <3>2
      <4> QED
        BY ONLY <3>3, <4>1
    <3>5. \A e \in Ends(x) : e < k => e < f
      BY <1>8, <3>2
    <3>6. ASSUME NEW j \in 1..(f - 1) PROVE x[j] = "\n" \/ \E e \in Ends(x) : e < k /\ j <= e
      <4>1. j \in 1..Len(s)
        BY <1>3, <3>3
      <4>2. s[j] = "\n" \/ \E e \in Ends(s) : j <= e
        BY <3>2
      <4> QED
        BY <1>3, <1>9, <4>1, <4>2
    <3>7. ASSUME NEW j \in 1..Len(t) PROVE x[f + j - 1] = t[j]
      <4>1. f + j - 1 \in 1..Len(s)
        BY <1>3, <3>3, <3>4
      <4>2. x[f + j - 1] = s[f + j - 1]
        BY <1>3, <4>1
      <4> QED
        BY <3>2, <4>2
    <3>8. ASSUME NEW j \in (f + Len(t))..k PROVE x[j] = "\n"
      <4>1. CASE j <= Len(s)
        <5>1. j \in (f + Len(t))..Len(s) /\ j \in 1..Len(s)
          BY <1>3, <1>6, <3>3, <4>1
        <5> QED
          BY <1>3, <3>2, <5>1
      <4>2. CASE j > Len(s)
        <5>1. j \in (Len(s) + 1)..Len(x)
          BY <1>3, <1>6, <3>3, <4>2
        <5> QED
          BY <1>5, <5>1
      <4> QED
        BY <1>3, <1>6, <3>3, <4>1, <4>2
    <3>9. t[1] # "\n" /\ t[Len(t)] # "\n" /\ t # << >>
      BY <2>2, <3>2
    <3> QED
      <4>1. x \in Message /\ k \in 1..Len(x) /\ f \in 1..k /\ t # << >> /\ f + Len(t) - 1 <= k
        BY <1>3, <1>6, <3>4, <3>9
      <4>2. \A j \in 1..(f - 1) : x[j] = "\n" \/ \E e \in Ends(x) : e < k /\ j <= e
        BY <3>6
      <4>3. \A j \in 1..Len(t) : x[f + j - 1] = t[j]
        BY <3>7
      <4>4. \A j \in (f + Len(t))..k : x[j] = "\n"
        BY <3>8
      <4> QED
        BY ONLY t \in Message, <4>1, <3>5, <4>2, <4>3, <4>4, <3>9, DecodedText
  <2> QED
    BY <2>1, <2>2
<1>12. \E i \in Nat : i > Len(s) /\ i <= Len(x) /\ Ends(x) = Ends(s) \cup {i} /\ Decoded(x, i) = t
  BY <1>2, <1>6, <1>11
<1> QED
  BY <1>1, <1>10, <1>12 DEF x, w

-----------------------------------------------------------------------------
(* The text that was written, in the socket. *)

(* What the client has read is the first part of it. *)
LEMMA CarriedIs ==
  ASSUME LineTyped, NEW w, Carried(w)
  PROVE  w \in Message /\ received \in Message /\ GoesOn(received, w)
<1>1. w \in Message /\ \A x \in 1..Len(received) : w[x] = received[x]
  BY DEF Carried
<1>2. PICK off : Cuts(w, off)
  BY DEF Carried
<1>3. received \in Message /\ sock \in Seq(Message) /\ Len(sock) \in Nat
  BY DEF LineTyped
<1>4. off \in [0..Len(sock) -> 0..Len(w)] /\ off[0] = Len(received)
  BY <1>2 DEF Cuts
<1>5. off[0] \in 0..Len(w)
  BY <1>3, <1>4
<1>6. Len(received) <= Len(w)
  BY <1>1, <1>3, <1>4, <1>5 DEF Message
<1> QED
  BY <1>1, <1>3, <1>6 DEF GoesOn

(* The client reads the first write in the socket. *)
LEMMA CarriedRead ==
  ASSUME LineTyped, ~http, ClientRead, NEW w, Carried(w)
  PROVE  Carried(w)' /\ received' \in Message /\ GoesOn(received', w)
<1>1. received' = received \o Head(sock) /\ sock' = Tail(sock) /\ sock # << >>
  BY DEF ClientRead
<1>2. w \in Message /\ \A x \in 1..Len(received) : w[x] = received[x]
  BY DEF Carried
<1>3. PICK off : Cuts(w, off)
  BY DEF Carried
<1>4. received \in Message /\ sock \in Seq(Message)
  BY DEF LineTyped
<1> DEFINE h == Head(sock)
           n == Len(sock)
<1>5. /\ h \in Message /\ h = sock[1] /\ sock' \in Seq(Message)
      /\ n \in Nat /\ n > 0 /\ Len(sock') = n - 1
      /\ \A j \in 1..(n - 1) : sock'[j] = sock[j + 1]
  BY <1>1, <1>4, TakeHead
<1>6. /\ received' \in Message /\ Len(received) \in Nat /\ Len(h) \in Nat
      /\ Len(received') = Len(received) + Len(h)
      /\ \A j \in 1..Len(received) : received'[j] = received[j]
      /\ \A j \in 1..Len(h) : received'[Len(received) + j] = h[j]
  BY <1>1, <1>4, <1>5, WithWrite
<1>7. /\ off \in [0..n -> 0..Len(w)] /\ off[0] = Len(received) /\ off[n] = Len(w)
      /\ \A j \in 1..n : /\ off[j] = off[j - 1] + Len(sock[j])
                         /\ \A x \in 1..Len(sock[j]) : w[off[j - 1] + x] = sock[j][x]
  BY <1>3 DEF Cuts
<1> HIDE DEF h, n
<1>8. off[1] = Len(received') /\ \A x \in 1..Len(h) : w[Len(received) + x] = h[x]
  <2>1. 1 \in 1..n /\ 1 - 1 = 0
    BY <1>5
  <2>2. off[1] = off[0] + Len(sock[1]) /\ \A x \in 1..Len(sock[1]) : w[off[0] + x] = sock[1][x]
    BY <1>7, <2>1
  <2> QED
    BY <1>5, <1>6, <1>7, <2>2
<1>9. ASSUME NEW x \in 1..Len(received') PROVE w[x] = received'[x]
  <2>1. CASE x <= Len(received)
    <3>1. x \in 1..Len(received)
      BY <1>6, <2>1
    <3> QED
      BY <1>2, <1>6, <3>1
  <2>2. CASE x > Len(received)
    <3>1. x - Len(received) \in 1..Len(h) /\ Len(received) + (x - Len(received)) = x
      BY <1>6, <2>2
    <3>2. w[x] = h[x - Len(received)] /\ received'[x] = h[x - Len(received)]
      BY <1>6, <1>8, <3>1
    <3> QED
      BY <3>2
  <2> QED
    BY <1>6, <2>1, <2>2
<1> DEFINE new == [j \in 0..(n - 1) |-> off[j + 1]]
<1>10. new \in [0..(n - 1) -> 0..Len(w)] /\ new[0] = Len(received') /\ new[n - 1] = Len(w)
  <2>1. \A j \in 0..(n - 1) : j + 1 \in 0..n
    BY <1>5
  <2>2. new \in [0..(n - 1) -> 0..Len(w)]
    BY <1>7, <2>1
  <2>3. 0 \in 0..(n - 1) /\ n - 1 \in 0..(n - 1) /\ 0 + 1 = 1 /\ (n - 1) + 1 = n
    BY <1>5
  <2> QED
    BY <1>7, <1>8, <2>2, <2>3
<1>11. ASSUME NEW j \in 1..(n - 1)
       PROVE  /\ new[j] = new[j - 1] + Len(sock'[j])
              /\ \A x \in 1..Len(sock'[j]) : w[new[j - 1] + x] = sock'[j][x]
  <2>1. j + 1 \in 1..n /\ (j + 1) - 1 = j /\ j - 1 \in 0..(n - 1) /\ j \in 0..(n - 1) /\ (j - 1) + 1 = j
    BY <1>5
  <2>2. new[j] = off[j + 1] /\ new[j - 1] = off[j]
    BY <2>1
  <2>3. sock'[j] = sock[j + 1]
    BY <1>5
  <2>4. /\ off[j + 1] = off[j] + Len(sock[j + 1])
        /\ \A x \in 1..Len(sock[j + 1]) : w[off[j] + x] = sock[j + 1][x]
    BY <1>7, <2>1
  <2> HIDE DEF new
  <2> QED
    BY <2>2, <2>3, <2>4
<1> HIDE DEF new
<1>12. PICK cut : cut = new
  OBVIOUS
<1>13. /\ cut \in [0..Len(sock') -> 0..Len(w)] /\ cut[0] = Len(received') /\ cut[Len(sock')] = Len(w)
       /\ \A j \in 1..Len(sock') : /\ cut[j] = cut[j - 1] + Len(sock'[j])
                                   /\ \A x \in 1..Len(sock'[j]) : w[cut[j - 1] + x] = sock'[j][x]
  BY <1>5, <1>10, <1>11, <1>12
<1>14. Cuts(w, cut)'
  BY <1>13 DEF Cuts
<1>15. Len(received') <= Len(w)
  <2>1. 0 \in 0..(n - 1)
    BY <1>5
  <2>2. new[0] \in 0..Len(w)
    BY <1>10, <2>1
  <2>3. Len(w) \in Nat
    BY <1>2 DEF Message
  <2> QED
    BY <1>10, <2>2, <2>3
<1> QED
  BY <1>2, <1>5, <1>6, <1>9, <1>14, <1>15 DEF Carried, GoesOn

(* A write is put behind the others. *)
LEMMA CarriedWrite ==
  ASSUME LineTyped, NEW w, Carried(w), out \in Message, sock' = Append(sock, out),
         received' = received, NEW v, v = w \o out
  PROVE  Carried(v)' /\ sock' \in Seq(Message)
<1>1. w \in Message /\ \A x \in 1..Len(received) : w[x] = received[x]
  BY DEF Carried
<1>2. PICK off : Cuts(w, off)
  BY DEF Carried
<1>3. received \in Message /\ sock \in Seq(Message) /\ GoesOn(received, w)
  BY CarriedIs DEF LineTyped
<1> DEFINE n == Len(sock)
<1>4. /\ sock' \in Seq(Message) /\ n \in Nat /\ Len(sock') = n + 1
      /\ sock'[n + 1] = out /\ \A j \in 1..n : sock'[j] = sock[j]
  BY <1>3, AddLast
<1>5. /\ v \in Message /\ Len(w) \in Nat /\ Len(out) \in Nat /\ Len(v) = Len(w) + Len(out)
      /\ \A j \in 1..Len(w) : v[j] = w[j]
      /\ \A j \in 1..Len(out) : v[Len(w) + j] = out[j]
  BY <1>1, WithWrite
<1>6. /\ off \in [0..n -> 0..Len(w)] /\ off[0] = Len(received) /\ off[n] = Len(w)
      /\ \A j \in 1..n : /\ off[j] = off[j - 1] + Len(sock[j])
                         /\ \A x \in 1..Len(sock[j]) : w[off[j - 1] + x] = sock[j][x]
  BY <1>2 DEF Cuts
<1> HIDE DEF n
<1>7. ASSUME NEW x \in 1..Len(received') PROVE v[x] = received'[x]
  <2>1. x \in 1..Len(received) /\ x \in 1..Len(w)
    BY <1>3, <1>5 DEF GoesOn, Message
  <2> QED
    BY <1>1, <1>5, <2>1
<1> DEFINE new == [j \in 0..(n + 1) |-> IF j = n + 1 THEN Len(v) ELSE off[j]]
<1>8. new \in [0..(n + 1) -> 0..Len(v)] /\ new[0] = Len(received') /\ new[n + 1] = Len(v)
  <2>1. \A j \in 0..(n + 1) : j # n + 1 => j \in 0..n
    BY <1>4
  <2>2. \A j \in 0..n : off[j] \in 0..Len(v)
    <3>1. \A i \in 0..Len(w) : i \in 0..Len(v)
      BY <1>5
    <3> QED
      BY <1>6, <3>1
  <2>3. Len(v) \in 0..Len(v)
    BY <1>5
  <2>4. new \in [0..(n + 1) -> 0..Len(v)]
    BY <2>1, <2>2, <2>3
  <2>5. 0 \in 0..(n + 1) /\ 0 # n + 1 /\ n + 1 \in 0..(n + 1)
    BY <1>4
  <2> QED
    BY <1>6, <2>4, <2>5
<1>9. ASSUME NEW j \in 1..(n + 1)
      PROVE  /\ new[j] = new[j - 1] + Len(sock'[j])
             /\ \A x \in 1..Len(sock'[j]) : v[new[j - 1] + x] = sock'[j][x]
  <2>1. j \in 0..(n + 1) /\ j - 1 \in 0..(n + 1) /\ j - 1 # n + 1 /\ j - 1 \in 0..n
    BY <1>4
  <2>2. new[j - 1] = off[j - 1]
    BY <2>1
  <2>3. CASE j = n + 1
    <3>1. new[j] = Len(v) /\ sock'[j] = out /\ j - 1 = n
      BY <1>4, <2>1, <2>3
    <3> HIDE DEF new
    <3>2. new[j - 1] = Len(w)
      BY <1>6, <2>2, <3>1
    <3> QED
      BY <1>5, <3>1, <3>2
  <2>4. CASE j # n + 1
    <3>1. j \in 1..n
      BY <1>4, <2>1, <2>4
    <3>2. new[j] = off[j] /\ sock'[j] = sock[j]
      BY <1>4, <2>1, <2>4, <3>1
    <3>3. off[j] = off[j - 1] + Len(sock[j]) /\ \A x \in 1..Len(sock[j]) : w[off[j - 1] + x] = sock[j][x]
      BY <1>6, <3>1
    <3>4. off[j] \in 0..Len(w) /\ off[j - 1] \in 0..Len(w) /\ Len(sock[j]) \in Nat
      <4>1. j \in 0..n /\ sock[j] \in Message
        BY <1>3, <1>4, <3>1 DEF n
      <4>2. Len(sock[j]) \in Nat
        BY <4>1 DEF Message
      <4>3. off[j] \in 0..Len(w) /\ off[j - 1] \in 0..Len(w)
        BY <1>6, <2>1, <4>1
      <4> QED
        BY <4>2, <4>3
    <3>5. ASSUME NEW x \in 1..Len(sock[j]) PROVE v[off[j - 1] + x] = sock[j][x]
      <4>1. off[j - 1] + x \in 1..Len(w)
        <5>1. x \in 1..Len(sock[j]) /\ Len(w) \in Nat /\ off[j] = off[j - 1] + Len(sock[j])
          BY <1>5, <3>3, <3>5
        <5> QED
          BY ONLY <3>4, <5>1
      <4> QED
        BY <1>5, <3>3, <4>1
    <3> HIDE DEF new
    <3> QED
      BY <2>2, <3>2, <3>3, <3>5
  <2> QED
    BY <2>3, <2>4
<1> HIDE DEF new
<1>10. PICK cut : cut = new
  OBVIOUS
<1>11. /\ cut \in [0..Len(sock') -> 0..Len(v)] /\ cut[0] = Len(received') /\ cut[Len(sock')] = Len(v)
       /\ \A j \in 1..Len(sock') : /\ cut[j] = cut[j - 1] + Len(sock'[j])
                                   /\ \A x \in 1..Len(sock'[j]) : v[cut[j - 1] + x] = sock'[j][x]
  BY <1>4, <1>8, <1>9, <1>10
<1>12. Cuts(v, cut)'
  BY <1>11 DEF Cuts
<1> QED
  BY <1>4, <1>5, <1>7, <1>12 DEF Carried

-----------------------------------------------------------------------------
(* The steps of the line protocol. *)

(* The answers that are right depend on the input alone. *)
LEMMA SameAnswers ==
  ASSUME input' = input
  PROVE  /\ \A n : Queries(n)' = Queries(n)
         /\ \A s, n : Right(s, n)' <=> Right(s, n)
         /\ \A s, n : AllAnswered(s, n)' <=> AllAnswered(s, n)
         /\ CleanInput' <=> CleanInput
<1>1. \A n : Queries(n)' = Queries(n)
  BY DEF Queries
<1>2. \A s, n : Right(s, n)' <=> Right(s, n)
  BY <1>1 DEF Right
<1>3. \A s, n : AllAnswered(s, n)' <=> AllAnswered(s, n)
  BY <1>1, <1>2 DEF AllAnswered
<1>4. CleanInput' <=> CleanInput
  BY <1>1 DEF CleanInput
<1> QED
  BY <1>1, <1>2, <1>3, <1>4

(* All answers written so far are right. *)
LEMMA TalkRight ==
  ASSUME LineTyped, Spoken, NEW w \in Message, Talk(w)
  PROVE  Right(w, next)
<1> DEFINE s == IF pc = "write" THEN w \o out ELSE w
<1>1. /\ next \in Nat /\ pc \in {"read", "range", "marker", "write", "closed"}
      /\ pc = "write" => out \in Message /\ after \in {"read", "range", "marker"}
  BY DEF LineTyped
<1>2. s \in Message /\ GoesOn(w, s)
  <2>1. CASE pc = "write"
    BY <1>1, <2>1, WithWrite
  <2>2. CASE pc # "write"
    BY <2>2 DEF GoesOn, Message
  <2> QED
    BY <2>1, <2>2
<1>3. Stage(s, Where)
  BY DEF Talk
<1> HIDE DEF s
<1>4. Where \in {"read", "range", "marker", "closed"}
  BY <1>1 DEF Where
<1>5. Right(s, next)
  <2>1. CASE Where \in {"read", "closed"}
    BY <1>3, <2>1 DEF Stage, AllAnswered
  <2>2. CASE Where = "range"
    <3>1. Right(s, next - 1) /\ next > 0
      BY <1>3, <2>2 DEF Stage, AllAnswered, Spoken, Delivering
    <3> QED
      BY <1>1, <3>1, RightMore
  <2>3. CASE Where = "marker"
    <3>1. Right(s, next - 1) /\ next \in Queries(next)
      BY <1>3, <2>3 DEF Stage, AllAnswered
    <3>2. next > 0
      BY <1>1, <3>1, QueriesAre
    <3> QED
      BY <1>1, <3>1, <3>2, RightMore
  <2> QED
    BY <1>4, <2>1, <2>2, <2>3
<1> QED
  BY <1>2, <1>5, RightBefore

(* A step of the client other than reading. *)
LEMMA LineClient ==
  ASSUME LineTyped, ClientSend \/ ClientFin \/ ClientTurns
  PROVE  LineTyped' /\ (Spoken => Spoken')
<1>1. UNCHANGED <<input, pc, next, out, after, search, sock, received>> /\ client # "gone"
  BY DEF ClientSend, ClientFin, ClientTurns
<1>2. LineTyped'
  <2>1. CASE ClientSend
    BY <2>1 DEF ClientSend, LineTyped
  <2>2. CASE ClientFin \/ ClientTurns
    BY <2>2 DEF ClientFin, ClientTurns, LineTyped
  <2> QED
    BY <2>1, <2>2
<1>3. Where' = Where /\ Found' = Found /\ Taken' = Taken /\ (Delivering' <=> Delivering)
  BY <1>1 DEF Where, Found, Taken, Delivering
<1>4. \A s, n : (Right(s, n)' <=> Right(s, n)) /\ (AllAnswered(s, n)' <=> AllAnswered(s, n))
  BY <1>1, SameAnswers
<1>5. \A w : Carried(w)' <=> Carried(w)
  BY <1>1 DEF Carried, Cuts
<1>6. \A w : Talk(w)' <=> Talk(w)
  <2>1. next' = next /\ input' = input /\ Queries(next)' = Queries(next)
    BY <1>1, SameAnswers
  <2>2. \A s, p : Stage(s, p)' <=> Stage(s, p)
    BY <1>3, <1>4, <2>1 DEF Stage, Answer
  <2> QED
    BY <1>1, <1>3, <2>2 DEF Talk
<1>7. Spoken => Right(received, next)'
  BY <1>1, <1>4 DEF Spoken
<1> QED
  BY <1>1, <1>2, <1>3, <1>5, <1>6, <1>7 DEF Spoken

(* The client reads. *)
LEMMA LineClientRead ==
  ASSUME LineTyped, ~http, ClientRead
  PROVE  LineTyped' /\ (Spoken => Spoken')
<1>1. /\ UNCHANGED <<input, sent, fin, client, pc, next, out, after, search>>
      /\ client = "reading"
  BY DEF ClientRead, clientVars
<1>2. received' \in Message /\ sock' \in Seq(Message)
  <2>1. received' = received \o Head(sock) /\ sock' = Tail(sock) /\ sock # << >>
    BY DEF ClientRead
  <2>2. received \in Message /\ sock \in Seq(Message)
    BY DEF LineTyped
  <2>3. Head(sock) \in Message /\ Tail(sock) \in Seq(Message)
    BY <2>1, <2>2, TakeHead
  <2> QED
    BY <2>1, <2>2, <2>3, WithWrite
<1>3. LineTyped'
  BY <1>1, <1>2 DEF LineTyped
<1>4. ASSUME Spoken PROVE Spoken'
  <2>1. PICK w : Carried(w) /\ Talk(w)
    BY <1>1, <1>4 DEF Spoken
  <2>2. Carried(w)'
    BY <2>1, CarriedRead
  <2>3. Where' = Where /\ Found' = Found /\ Taken' = Taken /\ (Delivering' <=> Delivering)
    BY <1>1 DEF Where, Found, Taken, Delivering
  <2>4. /\ \A s, n : (Right(s, n)' <=> Right(s, n)) /\ (AllAnswered(s, n)' <=> AllAnswered(s, n))
        /\ next' = next /\ input' = input /\ Queries(next)' = Queries(next)
    BY <1>1, SameAnswers
  <2>5. \A s, p : Stage(s, p)' <=> Stage(s, p)
    BY <2>3, <2>4 DEF Stage, Answer
  <2>6. Talk(w)'
    BY <1>1, <2>1, <2>3, <2>5 DEF Talk
  <2>7. w \in Message /\ Right(w, next)
    <3>1. w \in Message
      BY <2>1 DEF Carried
    <3> QED
      BY <1>4, <2>1, <3>1, TalkRight
  <2>8. GoesOn(received', w)
    BY <2>1, CarriedRead
  <2>9. PICK r : r = received'
    OBVIOUS
  <2>10. Right(r, next)
    BY <1>2, <2>7, <2>8, <2>9, RightBefore
  <2>11. Right(received, next)'
    BY <2>4, <2>9, <2>10
  <2> QED
    BY <1>4, <2>2, <2>3, <2>6, <2>11 DEF Spoken
<1> QED
  BY <1>3, <1>4

(* What the channel and the goroutine hold of f, from behind t on. *)
Offers(c, todo, f, t) ==
  /\ \A j \in 1..Len(c) : c[j] = f[t + j]
  /\ \A j \in 1..Len(todo) : todo[j] = f[(t + Len(c)) + j]



(* The goroutine of the search sends a result, or ends. *)
LEMMA LineSearch ==
  ASSUME LineTyped, SearchSend \/ SearchClose
  PROVE  LineTyped' /\ (Spoken => Spoken')
<1>1. UNCHANGED <<input, sent, fin, client, pc, next, out, after, sock, received>>
  BY DEF SearchSend, SearchClose, clientVars
<1>2. /\ search \in [goroutine : {"none", "running", "ended"}, todo : Seq(Message), c : Seq(Message)]
      /\ search.todo \in Seq(Message) /\ search.c \in Seq(Message)
      /\ Len(search.c) \in Nat /\ Len(search.todo) \in Nat
  BY DEF LineTyped
<1> DEFINE n == Len(search.todo)
           m == Len(search.c)
<1>3. /\ search' \in [goroutine : {"none", "running", "ended"}, todo : Seq(Message), c : Seq(Message)]
      /\ Len(search'.c) + Len(search'.todo) = m + n
      /\ Len(search.c) <= 1 => Len(search'.c) <= 1
      /\ \A f : \A t \in Nat : Offers(search.c, search.todo, f, t) => Offers(search'.c, search'.todo, f, t)
      /\ (search.goroutine = "ended" => search.todo = << >>)
           => (search'.goroutine = "ended" => search'.todo = << >>)
      /\ Len(search'.c) \in Nat /\ Len(search'.todo) \in Nat
  <2>1. CASE SearchSend
    <3>1. /\ search.goroutine = "running" /\ search.todo # << >> /\ search.c = << >>
          /\ search' = [search EXCEPT !.c = <<Head(search.todo)>>, !.todo = Tail(@)]
      BY <2>1 DEF SearchSend
    <3>2. /\ search'.goroutine = "running" /\ search'.c = <<Head(search.todo)>>
          /\ search'.todo = Tail(search.todo)
      BY <1>2, <3>1
    <3>3. /\ Head(search.todo) \in Message /\ Head(search.todo) = search.todo[1]
          /\ search'.todo \in Seq(Message)
          /\ n \in Nat /\ n > 0 /\ Len(search'.todo) = n - 1
          /\ \A j \in 1..(n - 1) : search'.todo[j] = search.todo[j + 1]
      BY <1>2, <3>1, <3>2, TakeHead
    <3>4. search'.c \in Seq(Message) /\ Len(search'.c) = 1 /\ search'.c[1] = search.todo[1] /\ m = 0
      BY <3>1, <3>2, <3>3
    <3>5. search' \in [goroutine : {"none", "running", "ended"}, todo : Seq(Message), c : Seq(Message)]
      BY <1>2, <3>1, <3>2, <3>3, <3>4
    <3>6. ASSUME NEW f, NEW t \in Nat, Offers(search.c, search.todo, f, t)
          PROVE  Offers(search'.c, search'.todo, f, t)
      <4>a. \A j \in 1..n : search.todo[j] = f[(t + m) + j]
        BY <3>6 DEF Offers
      <4>1. search.todo[1] = f[t + 1]
        <5>1. 1 \in 1..n /\ (t + m) + 1 = t + 1
          BY <3>3, <3>4
        <5> QED
          BY <4>a, <5>1
      <4>2. ASSUME NEW j \in 1..Len(search'.c) PROVE search'.c[j] = f[t + j]
        <5>1. j = 1
          BY <3>4
        <5> QED
          BY <3>4, <4>1, <5>1
      <4>3. ASSUME NEW j \in 1..Len(search'.todo) PROVE search'.todo[j] = f[(t + Len(search'.c)) + j]
        <5>1. j \in 1..(n - 1) /\ j + 1 \in 1..n /\ (t + m) + (j + 1) = (t + Len(search'.c)) + j
          BY <3>3, <3>4
        <5>2. search.todo[j + 1] = f[(t + m) + (j + 1)]
          BY <4>a, <5>1
        <5> QED
          BY <3>3, <5>1, <5>2
      <4> QED
        BY <4>2, <4>3 DEF Offers
    <3>7. Len(search'.c) + Len(search'.todo) = m + n /\ Len(search'.c) \in Nat /\ Len(search'.todo) \in Nat
      BY <3>3, <3>4
    <3>8. search'.goroutine # "ended" /\ Len(search'.c) <= 1
      BY <3>2, <3>4
    <3> QED
      BY <3>5, <3>6, <3>7, <3>8
  <2>2. CASE SearchClose
    <3>1. search.todo = << >> /\ search' = [search EXCEPT !.goroutine = "ended"]
      BY <2>2 DEF SearchClose
    <3>2. search'.todo = search.todo /\ search'.c = search.c
      BY <1>2, <3>1
    <3>3. search' \in [goroutine : {"none", "running", "ended"}, todo : Seq(Message), c : Seq(Message)]
      BY <1>2, <3>1
    <3> QED
      BY <1>2, <3>1, <3>2, <3>3
  <2> QED
    BY <2>1, <2>2
<1>4. LineTyped'
  BY <1>1, <1>3 DEF LineTyped
<1>5. ASSUME Spoken PROVE Spoken'
  <2>1. Where' = Where /\ Found' = Found
    BY <1>1 DEF Where, Found
  <2>2. Where = "range" => Len(Found) \in Nat
    <3> SUFFICES ASSUME Where = "range" PROVE Len(Found) \in Nat
      OBVIOUS
    <3>1. input.items[next] \in DOMAIN Results
      BY <1>5 DEF Spoken, Delivering
    <3>2. Found \in Seq(Message)
      BY <3>1, ResultsAre DEF Found
    <3> QED
      BY <3>2
  <2>3. Where = "range" => Taken' = Taken
    <3> SUFFICES ASSUME Where = "range" PROVE Taken' = Taken
      OBVIOUS
    <3>1. Taken' = Len(Found) - Len(search'.c) - Len(search'.todo)
      BY <2>1 DEF Taken
    <3>2. Taken = Len(Found) - m - n
      BY DEF Taken
    <3>3. Len(Found) \in Nat /\ m \in Nat /\ n \in Nat /\ Len(search'.c) \in Nat /\ Len(search'.todo) \in Nat
      BY <1>2, <1>3, <2>2
    <3>4. Len(search'.c) + Len(search'.todo) = m + n
      BY <1>3
    <3> QED
      <4>1. Len(Found) - Len(search'.c) - Len(search'.todo) = Len(Found) - m - n
        <5>1. PICK l : l = Len(Found)
          OBVIOUS
        <5>2. PICK a, b : a = Len(search'.c) /\ b = Len(search'.todo)
          OBVIOUS
        <5>3. PICK c, d : c = m /\ d = n
          OBVIOUS
        <5>4. l \in Nat /\ a \in Nat /\ b \in Nat /\ c \in Nat /\ d \in Nat
          BY <3>3, <5>1, <5>2, <5>3
        <5>5. a + b = c + d
          BY <3>4, <5>2, <5>3
        <5>6. l - a - b = l - c - d
          BY ONLY <5>4, <5>5
        <5> QED
          BY <5>1, <5>2, <5>3, <5>6
      <4> QED
        BY <3>1, <3>2, <4>1
  <2>4. Where = "range" => Delivering'
    <3> SUFFICES ASSUME Where = "range" PROVE Delivering'
      OBVIOUS
    <3>1. Delivering /\ Taken' = Taken
      BY <1>5, <2>3 DEF Spoken
    <3>2. Taken \in Nat
      <4>1. Taken = Len(Found) - m - n /\ Taken >= 0
        BY <3>1 DEF Taken, Delivering
      <4> QED
        BY <1>2, <2>2, <4>1
    <3>3. Offers(search.c, search.todo, Found, Taken)
      BY <3>1 DEF Delivering, Offers
    <3>4. /\ \A j \in 1..Len(search'.c) : search'.c[j] = Found[Taken + j]
          /\ \A j \in 1..Len(search'.todo) : search'.todo[j] = Found[(Taken + Len(search'.c)) + j]
      <4>1. Offers(search'.c, search'.todo, Found, Taken)
        BY <1>3, <3>2, <3>3
      <4> QED
        BY <4>1 DEF Offers
    <3>5. Len(search'.c) <= 1 /\ (search'.goroutine = "ended" => search'.todo = << >>)
      BY <1>3, <3>1 DEF Delivering
    <3>6. next' > 0 /\ input'.items[next'] \in DOMAIN Results /\ Taken' >= 0
      BY <1>1, <3>1 DEF Delivering
    <3> QED
      BY <2>1, <3>1, <3>4, <3>5, <3>6 DEF Delivering
  <2>5. /\ \A s, k : (Right(s, k)' <=> Right(s, k)) /\ (AllAnswered(s, k)' <=> AllAnswered(s, k))
        /\ next' = next /\ input' = input /\ Queries(next)' = Queries(next)
    BY <1>1, SameAnswers
  <2>6. \A s : Stage(s, Where) => Stage(s, Where)'
    BY <2>1, <2>3, <2>5 DEF Stage, Answer
  <2>7. \A w : Talk(w) => Talk(w)'
    BY <1>1, <2>1, <2>6 DEF Talk
  <2>8. \A w : Carried(w)' <=> Carried(w)
    BY <1>1 DEF Carried, Cuts
  <2>9. Right(received, next)'
    BY <1>1, <1>5, <2>5 DEF Spoken
  <2> QED
    BY <1>1, <1>5, <2>1, <2>4, <2>7, <2>8, <2>9 DEF Spoken
<1> QED
  BY <1>4, <1>5

(* An answer that has ended, when no query follows. *)
LEMMA NoQuery ==
  ASSUME NEW n \in Nat, n + 1 \notin Queries(n + 1), NEW s, AllAnswered(s, n)
  PROVE  AllAnswered(s, n + 1)
<1>1. n + 1 \in Nat /\ n + 1 > 0 /\ (n + 1) - 1 = n
  OBVIOUS
<1>2. Queries(n + 1) = Queries(n)
  BY <1>1, QueriesNext
<1> QED
  BY <1>2 DEF AllAnswered, Right

(* A text that ends no further answer. *)
LEMMA AnsweredAfter ==
  ASSUME NEW s \in Message, NEW t \in Message, GoesOn(s, t), Ends(t) = Ends(s), NEW n,
         AllAnswered(s, n)
  PROVE  AllAnswered(t, n)
BY RightAfter DEF AllAnswered

(* The handler takes a line. *)
LEMMA LineReadLine ==
  ASSUME LineTyped, ReadLine
  PROVE  LineTyped' /\ (Spoken => Spoken')
<1> DEFINE line == input.items[next + 1]
<1>1. /\ UNCHANGED <<input, sent, fin, client, sock, received>>
      /\ pc = "read" /\ next < sent /\ line # "partial" /\ next' = next + 1
      /\ \/ line = "blank" /\ UNCHANGED <<pc, out, after, search>>
         \/ line = BadQuery /\ SearchFails
         \/ line \in DOMAIN Results /\ SearchStarts(line)
  BY DEF ReadLine, clientVars
<1>2. /\ next \in Nat /\ sent \in Nat /\ next' \in Nat /\ next' <= sent
      /\ next + 1 \in 1..(next + 1) /\ (next + 1) - 1 = next /\ next + 1 > 0
  BY <1>1 DEF LineTyped
<1>3. LineTyped'
  <2>1. CASE line = "blank" /\ UNCHANGED <<pc, out, after, search>>
    BY <1>1, <1>2, <2>1 DEF LineTyped
  <2>2. CASE line = BadQuery /\ SearchFails
    <3>1. <<ErrorText>> \in Message
      BY ServerAssumption DEF Message, Token
    <3> QED
      BY <1>1, <1>2, <2>2, <3>1 DEF LineTyped, SearchFails
  <2>3. CASE line \in DOMAIN Results /\ SearchStarts(line)
    <3>1. Results[line] \in Seq(Message) /\ << >> \in Seq(Message)
      BY <2>3, ResultsAre
    <3>2. search' \in [goroutine : {"none", "running", "ended"}, todo : Seq(Message), c : Seq(Message)]
      BY <2>3, <3>1 DEF SearchStarts
    <3> QED
      BY <1>1, <1>2, <2>3, <3>2 DEF LineTyped, SearchStarts
  <2> QED
    BY <1>1, <2>1, <2>2, <2>3
<1>4. ASSUME Spoken PROVE Spoken'
  <2>1. /\ \A s, n : (Right(s, n)' <=> Right(s, n)) /\ (AllAnswered(s, n)' <=> AllAnswered(s, n))
        /\ \A n : Queries(n)' = Queries(n)
    BY <1>1, SameAnswers
  <2>2. Right(received, next)'
    <3>1. Right(received, next)
      BY <1>4 DEF Spoken
    <3>2. Right(received, next + 1)
      BY <1>2, <3>1, RightMore
    <3> QED
      BY <1>1, <2>1, <3>2
  <2>3. \A w : Carried(w)' <=> Carried(w)
    BY <1>1 DEF Carried, Cuts
  <2>4. ASSUME NEW w, Carried(w), Talk(w)
        PROVE  w \in Message /\ AllAnswered(w, next) /\ Idle(w)
    <3>1. w \in Message
      BY <2>4 DEF Carried
    <3>2. Stage(w, "read")
      BY <1>1, <2>4 DEF Talk, Where
    <3> QED
      BY <3>1, <3>2 DEF Stage
  <2>5. CASE line = "blank" /\ UNCHANGED <<pc, out, after, search>>
    <3>1. Where' = "read" /\ pc' = "read"
      BY <1>1, <2>5 DEF Where
    <3>2. next + 1 \notin Queries(next + 1)
      BY <2>5, ServerAssumption DEF Queries
    <3>3. ASSUME NEW w, Carried(w), Talk(w) PROVE Talk(w)'
      <4>1. AllAnswered(w, next + 1) /\ Idle(w)
        BY <1>2, <2>4, <3>2, <3>3, NoQuery
      <4>2. Stage(w, "read")'
        BY <1>1, <2>1, <4>1 DEF Stage
      <4> QED
        BY <3>1, <4>2 DEF Talk
    <3> QED
      BY <1>1, <1>4, <2>2, <2>3, <3>1, <3>3 DEF Spoken
  <2>6. CASE line = BadQuery /\ SearchFails
    <3>1. Where' = "marker" /\ pc' = "write" /\ out' = <<ErrorText>>
      BY <2>6 DEF Where, SearchFails
    <3>2. next + 1 \in Queries(next + 1)
      BY <1>2, <2>6 DEF Queries
    <3>3. ASSUME NEW w, Carried(w), Talk(w) PROVE Talk(w)'
      <4>1. PICK u : u = w \o <<ErrorText>>
        OBVIOUS
      <4>2. w \in Message /\ AllAnswered(w, next) /\ Idle(w)
        BY <2>4, <3>3
      <4>3. /\ <<ErrorText>> \in Message /\ Ends(u) = Ends(w) /\ Saying(u, <<ErrorText>>, 0)
        BY <4>1, <4>2, SayError
      <4>4. u \in Message /\ GoesOn(w, u)
        BY <4>1, <4>2, <4>3, WithWrite
      <4>5. AllAnswered(u, next)
        BY <4>2, <4>3, <4>4, AnsweredAfter
      <4>6. (next \in Queries(next) /\ AllAnswered(u, next - 1))'
        BY <1>1, <1>2, <2>1, <3>2, <4>5
      <4>7. Answer(input'.items[next']) = <<ErrorText>>
        BY <1>1, <2>6 DEF Answer
      <4>8. Stage(u, "marker")'
        BY <4>3, <4>6, <4>7 DEF Stage
      <4> QED
        BY <3>1, <4>1, <4>8 DEF Talk
    <3> QED
      BY <1>1, <1>4, <2>2, <2>3, <3>1, <3>3 DEF Spoken
  <2>7. CASE line \in DOMAIN Results /\ SearchStarts(line)
    <3>1. Where' = "range" /\ pc' = "range" /\ search' = [goroutine |-> "running", todo |-> Results[line], c |-> << >>]
      BY <2>7 DEF Where, SearchStarts
    <3>2. Results[line] \in Seq(Message)
      BY <2>7, ResultsAre
    <3>3. Found' = Results[line]
      BY <1>1 DEF Found
    <3>4. search'.c = << >> /\ search'.todo = Results[line] /\ search'.goroutine = "running"
      BY <3>1
    <3>5. Taken' = 0
      <4>1. Taken' = Len(Results[line]) - Len(<< >>) - Len(Results[line])
        BY <3>3, <3>4 DEF Taken
      <4>2. Len(<< >>) = 0 /\ Len(Results[line]) \in Nat
        BY <3>2
      <4> QED
        BY <4>1, <4>2
    <3>6. Delivering'
      <4>1. next' > 0 /\ input'.items[next'] \in DOMAIN Results
        BY <1>1, <1>2, <2>7
      <4>2. \A j \in 1..Len(search'.c) : search'.c[j] = Found'[Taken' + j]
        BY <3>4
      <4>3. \A j \in 1..Len(search'.todo) : search'.todo[j] = Found'[Taken' + Len(search'.c) + j]
        <5>1. ASSUME NEW j \in 1..Len(Results[line]) PROVE 0 + Len(<< >>) + j = j
          <6>1. Len(<< >>) = 0 /\ j \in Nat
            BY <3>2
          <6> QED
            BY <6>1
        <5> QED
          BY <3>3, <3>4, <3>5, <5>1
      <4>4. Len(search'.c) <= 1 /\ Taken' >= 0 /\ search'.goroutine # "ended"
        BY <3>4, <3>5
      <4> QED
        BY <4>1, <4>2, <4>3, <4>4 DEF Delivering
    <3>7. ASSUME NEW w, Carried(w), Talk(w) PROVE Talk(w)'
      <4>1. AllAnswered(w, next) /\ Idle(w)
        BY <2>4, <3>7
      <4>2. AllAnswered(w, next - 1)'
        BY <1>1, <1>2, <2>1, <4>1
      <4>3. Joined(Found')[Taken'] = << >>
        BY <3>2, <3>3, <3>5, JoinedIs
      <4>4. Saying(w, Joined(Found')[Taken'], 1)
        BY <4>1, <4>3 DEF Saying
      <4>5. Stage(w, "range")'
        BY <4>2, <4>4 DEF Stage
      <4> QED
        BY <3>1, <4>5 DEF Talk
    <3> QED
      BY <1>1, <1>4, <2>2, <2>3, <3>1, <3>6, <3>7 DEF Spoken
  <2> QED
    BY <1>1, <2>5, <2>6, <2>7
<1> QED
  BY <1>3, <1>4

(* The loop takes a result and writes it. *)
LEMMA LineReceive ==
  ASSUME LineTyped, ~http, RangeReceive
  PROVE  LineTyped' /\ (CleanInput /\ Spoken => Spoken')
<1> DEFINE m == Head(search.c)
<1>1. /\ UNCHANGED <<input, sent, fin, client, next, sock, received>>
      /\ pc = "range" /\ search.c # << >>
      /\ search' = [search EXCEPT !.c = << >>]
      /\ out' = Append(m, "\n") /\ after' = "range" /\ pc' = "write"
  BY DEF RangeReceive, clientVars
<1>2. /\ search \in [goroutine : {"none", "running", "ended"}, todo : Seq(Message), c : Seq(Message)]
      /\ search.todo \in Seq(Message) /\ search.c \in Seq(Message)
      /\ Len(search.c) \in Nat /\ Len(search.todo) \in Nat /\ next \in Nat
  BY DEF LineTyped
<1>3. m \in Message /\ m = search.c[1] /\ Len(search.c) > 0
  BY <1>1, <1>2, TakeHead
<1>4. /\ search'.c = << >> /\ search'.todo = search.todo /\ search'.goroutine = search.goroutine
      /\ search' \in [goroutine : {"none", "running", "ended"}, todo : Seq(Message), c : Seq(Message)]
  <2>1. << >> \in Seq(Message)
    OBVIOUS
  <2>2. search' \in [goroutine : {"none", "running", "ended"}, todo : Seq(Message), c : Seq(Message)]
    BY <1>1, <1>2, <2>1
  <2> QED
    BY <1>1, <1>2, <2>2
<1> HIDE DEF m
<1>5. out' \in Message
  <2>1. "\n" \in Token
    BY DEF Token
  <2> QED
    BY <1>1, <1>3, <2>1 DEF Message
<1>6. LineTyped'
  BY <1>1, <1>4, <1>5 DEF LineTyped
<1>7. ASSUME CleanInput, Spoken PROVE Spoken'
  <2>1. Where = "range" /\ Where' = "range"
    BY <1>1 DEF Where
  <2>2. Delivering
    BY <1>7, <2>1 DEF Spoken
  <2> DEFINE q == input.items[next]
  <2>3. q \in DOMAIN Results /\ Found = Results[q] /\ Found' = Found /\ Found \in Seq(Message)
    BY <1>1, <2>2, ResultsAre DEF Found, Delivering
  <2>4. Len(search.c) = 1 /\ Len(<< >>) = 0
    <3>1. Len(search.c) <= 1
      BY <2>2 DEF Delivering
    <3>2. Len(search.c) = 1
      <4>1. PICK l : l = Len(search.c)
        OBVIOUS
      <4>2. l \in Nat /\ l > 0 /\ l <= 1
        BY <1>2, <1>3, <3>1, <4>1
      <4>3. l = 1
        BY ONLY <4>2
      <4> QED
        BY <4>1, <4>3
    <3> QED
      BY <3>2
  <2>5. Taken \in Nat /\ Taken' = Taken + 1 /\ Taken + 1 <= Len(Found) /\ Len(Found) \in Nat
    <3>1. Taken = Len(Found) - 1 - Len(search.todo) /\ Taken >= 0
      BY <2>2, <2>4 DEF Taken, Delivering
    <3>2. Taken' = Len(Found) - 0 - Len(search.todo)
      BY <1>4, <2>3, <2>4 DEF Taken
    <3>3. Len(Found) \in Nat
      BY <2>3
    <3>4. PICK l, d : l = Len(Found) /\ d = Len(search.todo)
      OBVIOUS
    <3>5. l \in Nat /\ d \in Nat /\ Taken = l - 1 - d /\ Taken >= 0 /\ Taken' = l - 0 - d
      BY <1>2, <3>1, <3>2, <3>3, <3>4
    <3>6. Taken \in Nat /\ Taken' = Taken + 1 /\ Taken + 1 <= l
      BY ONLY <3>5
    <3> QED
      BY <3>3, <3>4, <3>6
  <2>6. m = Found[Taken + 1]
    <3>1. 1 \in 1..Len(search.c)
      BY <2>4
    <3>2. search.c[1] = Found[Taken + 1]
      BY <2>2, <3>1 DEF Delivering
    <3> QED
      BY <1>3, <3>2
  <2>7. Delivering'
    <3>1. next' > 0 /\ input'.items[next'] \in DOMAIN Results /\ Len(search'.c) <= 1 /\ Taken' >= 0
      BY <1>1, <1>4, <2>2, <2>4, <2>5 DEF Delivering
    <3>2. \A j \in 1..Len(search'.c) : search'.c[j] = Found'[Taken' + j]
      BY <1>4, <2>4
    <3>3. ASSUME NEW j \in 1..Len(search.todo) PROVE search.todo[j] = Found[(Taken' + 0) + j]
      <4>1. search.todo[j] = Found[(Taken + 1) + j]
        BY <2>2, <2>4 DEF Delivering
      <4>2. (Taken' + 0) + j = (Taken + 1) + j
        BY <2>5
      <4> QED
        BY <4>1, <4>2
    <3>4. \A j \in 1..Len(search'.todo) : search'.todo[j] = Found'[Taken' + Len(search'.c) + j]
      BY <1>4, <2>3, <2>4, <3>3
    <3>5. search'.goroutine = "ended" => search'.todo = << >>
      BY <1>4, <2>2 DEF Delivering
    <3> QED
      BY <3>1, <3>2, <3>4, <3>5 DEF Delivering
  <2>8. Clean(m)
    <3>1. next \in Queries(Len(input.items)) /\ q # BadQuery
      <4>1. next \in 1..Len(input.items)
        BY <2>2 DEF LineTyped, Delivering
      <4> QED
        BY <2>3, <4>1, ServerAssumption DEF Queries
    <3>2. Taken + 1 \in DOMAIN Results[q]
      <4>1. Taken + 1 \in 1..Len(Found)
        BY <2>5
      <4> QED
        BY <2>3, <4>1
    <3>3. Clean(Results[q][Taken + 1])
      BY <1>7, <3>1, <3>2 DEF CleanInput
    <3> QED
      BY <2>3, <2>6, <3>3
  <2> DEFINE J == Joined(Found)
  <2>9. /\ J[Taken] \in Message /\ J[Taken + 1] \in Message
        /\ J[Taken + 1] = IF J[Taken] = << >> THEN m ELSE (J[Taken] \o <<"\n">>) \o m
    <3>1. /\ J[0] = << >>
          /\ Len(Found) >= 1 => J[1] = Found[1]
          /\ \A k \in 2..Len(Found) : J[k] = (J[k - 1] \o <<"\n">>) \o Found[k]
          /\ \A k \in 0..Len(Found) : J[k] \in Message
      BY <2>3, JoinedIs
    <3> HIDE DEF J
    <3>2. Taken \in 0..Len(Found) /\ Taken + 1 \in 0..Len(Found)
      BY <2>5
    <3>3. CASE Taken = 0
      <4>1. Taken + 1 = 1 /\ Len(Found) >= 1
        BY <2>5, <3>3
      <4> QED
        BY <2>6, <3>1, <3>2, <3>3, <4>1
    <3>4. CASE Taken > 0
      <4>1. Taken + 1 \in 2..Len(Found) /\ (Taken + 1) - 1 = Taken
        BY <2>5, <3>4
      <4>2. J[Taken] # << >>
        <5>1. CASE Taken = 1
          <6>1. J[1] = Found[1] /\ 1 \in DOMAIN Results[q]
            <7>1. Len(Found) >= 1 /\ 1 \in 1..Len(Found)
              BY <2>5, <5>1
            <7> QED
              BY <2>3, <3>1, <7>1
          <6>2. next \in Queries(Len(input.items)) /\ q # BadQuery
            <7>1. next \in 1..Len(input.items)
              BY <2>2 DEF LineTyped, Delivering
            <7> QED
              BY <2>3, <7>1, ServerAssumption DEF Queries
          <6>3. Clean(Results[q][1])
            BY <1>7, <6>1, <6>2 DEF CleanInput
          <6> QED
            BY <2>3, <5>1, <6>1, <6>3 DEF Clean
        <5>2. CASE Taken > 1
          <6>1. Taken \in 2..Len(Found) /\ Taken - 1 \in 0..Len(Found) /\ Taken \in 1..Len(Found)
            BY <2>5, <5>2
          <6>2. J[Taken] = (J[Taken - 1] \o <<"\n">>) \o Found[Taken]
            BY <3>1, <6>1
          <6>3. J[Taken - 1] \in Message /\ Found[Taken] \in Message /\ <<"\n">> \in Message /\ Len(<<"\n">>) = 1
            <7>1. <<"\n">> \in Message /\ Len(<<"\n">>) = 1
              BY DEF Message, Token
            <7>2. J[Taken - 1] \in Message /\ Found[Taken] \in Message
              BY <2>3, <3>1, <6>1
            <7> QED
              BY <7>1, <7>2
          <6>4. /\ J[Taken - 1] \o <<"\n">> \in Message
                /\ Len(J[Taken - 1] \o <<"\n">>) = Len(J[Taken - 1]) + 1 /\ Len(J[Taken - 1]) \in Nat
            BY <6>3, WithWrite
          <6>5. /\ Len((J[Taken - 1] \o <<"\n">>) \o Found[Taken]) =
                     Len(J[Taken - 1] \o <<"\n">>) + Len(Found[Taken])
                /\ Len(Found[Taken]) \in Nat
            BY <6>3, <6>4, WithWrite
          <6>6. Len(J[Taken]) = (Len(J[Taken - 1]) + 1) + Len(Found[Taken])
            BY <6>2, <6>4, <6>5
          <6>7. Len(J[Taken]) # 0
            <7>1. PICK a, b : a = Len(J[Taken - 1]) /\ b = Len(Found[Taken])
              OBVIOUS
            <7>2. a \in Nat /\ b \in Nat /\ Len(J[Taken]) = (a + 1) + b
              BY <6>4, <6>5, <6>6, <7>1
            <7> QED
              BY ONLY <7>2
          <6> QED
            BY <2>4, <6>7
        <5> QED
          BY <2>5, <3>4, <5>1, <5>2
      <4> QED
        BY <2>6, <3>1, <3>2, <4>1, <4>2
    <3> QED
      BY <2>5, <3>3, <3>4
  <2> HIDE DEF J
  <2>10. /\ \A s, n : (Right(s, n)' <=> Right(s, n)) /\ (AllAnswered(s, n)' <=> AllAnswered(s, n))
    BY <1>1, SameAnswers
  <2>11. Right(received, next)'
    BY <1>1, <1>7, <2>10 DEF Spoken
  <2>12. \A w : Carried(w)' <=> Carried(w)
    BY <1>1 DEF Carried, Cuts
  <2>13. ASSUME NEW w, Carried(w), Talk(w) PROVE Talk(w)'
    <3>1. w \in Message
      BY <2>13 DEF Carried
    <3>2. Stage(w, "range")
      BY <1>1, <2>1, <2>13 DEF Talk
    <3>3. AllAnswered(w, next - 1) /\ Saying(w, J[Taken], 1)
      BY <3>2 DEF Stage, J
    <3>4. PICK u : u = w \o Append(m, "\n")
      OBVIOUS
    <3>5. /\ Append(m, "\n") \in Message /\ Ends(u) = Ends(w) /\ Saying(u, J[Taken + 1], 1)
      BY <1>3, <2>8, <2>9, <3>1, <3>3, <3>4, SayMore
    <3>6. u \in Message /\ GoesOn(w, u)
      BY <3>1, <3>4, <3>5, WithWrite
    <3>7. AllAnswered(u, next - 1)
      BY <3>1, <3>3, <3>5, <3>6, AnsweredAfter
    <3>8. AllAnswered(u, next - 1)'
      BY <1>1, <2>10, <3>7
    <3>9. Saying(u, Joined(Found')[Taken'], 1)
      BY <2>3, <2>5, <3>5 DEF J
    <3>10. Stage(u, "range")'
      BY <3>8, <3>9 DEF Stage
    <3>11. u = w \o out'
      BY <1>1, <3>4
    <3> QED
      BY <1>1, <2>1, <3>10, <3>11 DEF Talk
  <2> QED
    BY <1>1, <1>7, <2>7, <2>11, <2>12, <2>13 DEF Spoken
<1> QED
  BY <1>6, <1>7

(* The loop ends: all results were written. *)
LEMMA LineRangeEnd ==
  ASSUME LineTyped, ~http, RangeEnd
  PROVE  LineTyped' /\ (Spoken => Spoken')
<1>1. /\ UNCHANGED <<input, sent, fin, client, next, out, after, sock, received>>
      /\ pc = "range" /\ pc' = "marker" /\ Drained /\ search' = NoSearch
  BY DEF RangeEnd, clientVars
<1>2. search' \in [goroutine : {"none", "running", "ended"}, todo : Seq(Message), c : Seq(Message)]
  <2>1. << >> \in Seq(Message)
    OBVIOUS
  <2> QED
    BY <1>1, <2>1 DEF NoSearch
<1>3. LineTyped'
  BY <1>1, <1>2 DEF LineTyped
<1>4. ASSUME Spoken PROVE Spoken'
  <2>1. Where = "range" /\ Where' = "marker"
    BY <1>1 DEF Where
  <2>2. Delivering
    BY <1>4, <2>1 DEF Spoken
  <2> DEFINE q == input.items[next]
  <2>3. q \in DOMAIN Results /\ Found = Results[q] /\ Found \in Seq(Message)
    BY <2>2, ResultsAre DEF Found, Delivering
  <2>4. Taken = Len(Found)
    <3>1. search.c = << >> /\ search.todo = << >>
      BY <1>1, <2>2 DEF Drained, Delivering
    <3>2. Taken = Len(Found) - Len(<< >>) - Len(<< >>)
      BY <3>1 DEF Taken
    <3>3. Len(<< >>) = 0 /\ Len(Found) \in Nat
      BY <2>3
    <3> QED
      BY <3>2, <3>3
  <2>5. Answer(q) = Joined(Found)[Taken]
    BY <2>3, <2>4, ServerAssumption DEF Answer
  <2>6. next \in Queries(next)
    BY <2>2, <2>3 DEF Queries, LineTyped, Delivering
  <2>7. /\ \A s, n : (Right(s, n)' <=> Right(s, n)) /\ (AllAnswered(s, n)' <=> AllAnswered(s, n))
        /\ next' = next /\ input' = input /\ Queries(next)' = Queries(next)
    BY <1>1, SameAnswers
  <2>8. Right(received, next)'
    BY <1>1, <1>4, <2>7 DEF Spoken
  <2>9. \A w : Carried(w)' <=> Carried(w)
    BY <1>1 DEF Carried, Cuts
  <2>10. ASSUME NEW w, Talk(w) PROVE Talk(w)'
    <3>1. Stage(w, "range")
      BY <1>1, <2>1, <2>10 DEF Talk
    <3>2. AllAnswered(w, next - 1) /\ Saying(w, Answer(q), 1)
      BY <2>5, <3>1 DEF Stage
    <3>3. (AllAnswered(w, next - 1) /\ next \in Queries(next))'
      BY <2>6, <2>7, <3>2
    <3>4. \E more \in {0, 1} : Saying(w, Answer(q), more)
      BY <3>2
    <3>5. Stage(w, "marker")'
      BY <2>7, <3>3, <3>4 DEF Stage, Answer
    <3> QED
      BY <1>1, <2>1, <3>5 DEF Talk
  <2> QED
    BY <1>1, <1>4, <2>1, <2>8, <2>9, <2>10 DEF Spoken
<1> QED
  BY <1>3, <1>4

(* The handler writes the marker. *)
LEMMA LineMarker ==
  ASSUME LineTyped, WriteMarker
  PROVE  LineTyped' /\ (Spoken => Spoken')
<1>1. /\ UNCHANGED <<input, sent, fin, client, next, search, sock, received>>
      /\ pc = "marker" /\ pc' = "write" /\ out' = EndOfResults /\ after' = "read"
  BY DEF WriteMarker, clientVars
<1>2. EndOfResults \in Message
  <2>1. "\n" \in Token
    BY DEF Token
  <2> QED
    BY <2>1 DEF EndOfResults, Message
<1>3. LineTyped'
  BY <1>1, <1>2 DEF LineTyped
<1>4. ASSUME Spoken PROVE Spoken'
  <2>1. Where = "marker" /\ Where' = "read"
    BY <1>1 DEF Where
  <2>2. /\ \A s, n : (Right(s, n)' <=> Right(s, n)) /\ (AllAnswered(s, n)' <=> AllAnswered(s, n))
    BY <1>1, SameAnswers
  <2>3. Right(received, next)'
    BY <1>1, <1>4, <2>2 DEF Spoken
  <2>4. \A w : Carried(w)' <=> Carried(w)
    BY <1>1 DEF Carried, Cuts
  <2> DEFINE q == input.items[next]
  <2>5. ASSUME NEW w, Carried(w), Talk(w) PROVE Talk(w)'
    <3>1. w \in Message
      BY <2>5 DEF Carried
    <3>2. Stage(w, "marker")
      BY <1>1, <2>1, <2>5 DEF Talk
    <3>3. next \in Queries(next) /\ AllAnswered(w, next - 1)
      BY <3>2 DEF Stage
    <3>4. PICK more \in {0, 1} : Saying(w, Answer(q), more)
      BY <3>2 DEF Stage
    <3>5. next \in Nat /\ next > 0
      <4>1. next \in Nat
        BY DEF LineTyped
      <4> QED
        BY <3>3, <4>1, QueriesAre
    <3>6. Answer(q) \in Message
      <4>1. CASE q = BadQuery
        <5>1. <<ErrorText>> \in Message
          BY ServerAssumption DEF Message, Token
        <5> QED
          BY <4>1, <5>1 DEF Answer
      <4>2. CASE q # BadQuery
        <5>1. q \in DOMAIN Results
          BY <3>3, <4>2 DEF Queries
        <5>2. Results[q] \in Seq(Message) /\ Len(Results[q]) \in 0..Len(Results[q])
          BY <5>1, ResultsAre
        <5> QED
          BY <4>2, <5>2, JoinedIs DEF Answer
      <4> QED
        BY <4>1, <4>2
    <3>7. PICK u : u = w \o EndOfResults
      OBVIOUS
    <3>8. /\ Idle(u)
          /\ \E k \in Nat : /\ k > Len(w) /\ k <= Len(u) /\ Ends(u) = Ends(w) \cup {k}
                            /\ Decoded(u, k) = Answer(q)
      BY <3>1, <3>4, <3>6, <3>7, SayMarker
    <3>9. u \in Message /\ GoesOn(w, u)
      BY <1>2, <3>1, <3>7, WithWrite
    <3>10. AllAnswered(u, next)
      BY <3>1, <3>3, <3>5, <3>8, <3>9, RightEnd
    <3>11. AllAnswered(u, next)'
      BY <1>1, <2>2, <3>10
    <3>12. Stage(u, "read")'
      BY <3>8, <3>11 DEF Stage
    <3>13. u = w \o out'
      BY <1>1, <3>7
    <3> QED
      BY <1>1, <2>1, <3>12, <3>13 DEF Talk
  <2> QED
    BY <1>1, <1>4, <2>1, <2>3, <2>4, <2>5 DEF Spoken
<1> QED
  BY <1>3, <1>4

(* A write reaches the socket, or is lost with the client. *)
LEMMA LineWrite ==
  ASSUME LineTyped, Write
  PROVE  LineTyped' /\ (Spoken => Spoken')
<1>1. /\ UNCHANGED <<input, sent, fin, client, next, out, after, search, received>>
      /\ pc = "write" /\ pc' = after
      /\ (client = "gone" /\ sock' = sock) \/ (client # "gone" /\ sock' = Append(sock, out))
  BY DEF Write, clientVars
<1>2. out \in Message /\ after \in {"read", "range", "marker"} /\ sock \in Seq(Message)
  BY <1>1 DEF LineTyped
<1>3. sock' \in Seq(Message)
  BY <1>1, <1>2, AddLast
<1>4. LineTyped'
  BY <1>1, <1>2, <1>3 DEF LineTyped
<1>5. ASSUME Spoken PROVE Spoken'
  <2>1. Where = after /\ Where' = after /\ pc' # "write"
    BY <1>1, <1>2 DEF Where
  <2>2. Found' = Found /\ Taken' = Taken /\ (Delivering' <=> Delivering)
    BY <1>1 DEF Found, Taken, Delivering
  <2>3. /\ \A s, n : (Right(s, n)' <=> Right(s, n)) /\ (AllAnswered(s, n)' <=> AllAnswered(s, n))
        /\ next' = next /\ input' = input /\ Queries(next)' = Queries(next)
    BY <1>1, SameAnswers
  <2>4. Right(received, next)'
    BY <1>1, <1>5, <2>3 DEF Spoken
  <2>5. CASE client = "gone"
    BY <1>1, <1>5, <2>1, <2>2, <2>4, <2>5 DEF Spoken
  <2>6. CASE client # "gone" /\ sock' = Append(sock, out)
    <3>1. PICK w : Carried(w) /\ Talk(w)
      BY <1>5, <2>6 DEF Spoken
    <3>2. PICK v : v = w \o out
      OBVIOUS
    <3>3. Carried(v)'
      BY <1>1, <1>2, <2>6, <3>1, <3>2, CarriedWrite
    <3>4. Stage(v, after)
      BY <1>1, <2>1, <3>1, <3>2 DEF Talk
    <3>5. \A s, p : Stage(s, p)' <=> Stage(s, p)
      BY <2>2, <2>3 DEF Stage, Answer
    <3>6. Stage(v, after)'
      BY <1>1, <3>4, <3>5
    <3>7. Talk(v)'
      BY <1>1, <2>1, <3>6 DEF Talk
    <3> QED
      BY <1>1, <1>5, <2>1, <2>2, <2>4, <3>3, <3>7 DEF Spoken
  <2> QED
    BY <1>1, <2>5, <2>6
<1> QED
  BY <1>4, <1>5

(* The connection is closed. *)
LEMMA LineReadFails ==
  ASSUME LineTyped, ReadFails
  PROVE  LineTyped' /\ (Spoken => Spoken')
<1>1. /\ UNCHANGED <<input, sent, fin, client, next, out, after, search, sock, received>>
      /\ pc = "read" /\ pc' = "closed"
  BY DEF ReadFails, clientVars
<1>2. LineTyped'
  BY <1>1 DEF LineTyped
<1>3. ASSUME Spoken PROVE Spoken'
  <2>1. Where = "read" /\ Where' = "closed"
    BY <1>1 DEF Where
  <2>2. \A s, n : (Right(s, n)' <=> Right(s, n)) /\ (AllAnswered(s, n)' <=> AllAnswered(s, n))
    BY <1>1, SameAnswers
  <2>3. Right(received, next)'
    BY <1>1, <1>3, <2>2 DEF Spoken
  <2>4. \A w : Carried(w)' <=> Carried(w)
    BY <1>1 DEF Carried, Cuts
  <2>5. ASSUME NEW w, Talk(w) PROVE Talk(w)'
    <3>1. AllAnswered(w, next) /\ Idle(w)
      BY <1>1, <2>1, <2>5 DEF Talk, Stage
    <3>2. AllAnswered(w, next)'
      BY <1>1, <2>2, <3>1
    <3>3. Stage(w, "closed")'
      BY <3>1, <3>2 DEF Stage
    <3> QED
      BY <1>1, <2>1, <3>3 DEF Talk
  <2> QED
    BY <1>1, <1>3, <2>1, <2>3, <2>4, <2>5 DEF Spoken
<1> QED
  BY <1>2, <1>3

(* Every step preserves the invariant of the line protocol. *)
LEMMA LineStep == LineInv /\ [Next]_vars => LineInv'
<1> SUFFICES ASSUME LineInv, [Next]_vars, ~http' PROVE LineTyped' /\ (CleanInput' => Spoken')
  BY DEF LineInv
<1>1. input' = input /\ ~http /\ (CleanInput' <=> CleanInput)
  <2>1. input' = input
    BY DEF Next, vars, Handler, Over, ClientSend, ClientFin, ClientRead, ClientTurns, SearchSend,
           SearchClose, ReadLine, ServeHTTP, RangeReceive, RangeEnd, WriteMarker, Write, ReadFails
  <2> QED
    BY <2>1, SameAnswers DEF http
<1>2. LineTyped /\ (CleanInput => Spoken)
  BY <1>1 DEF LineInv
<1> SUFFICES LineTyped' /\ (CleanInput /\ Spoken => Spoken')
  BY <1>1, <1>2
<1>3. CASE ClientSend \/ ClientFin \/ ClientTurns
  BY <1>2, <1>3, LineClient
<1>4. CASE ClientRead
  BY <1>1, <1>2, <1>4, LineClientRead
<1>5. CASE SearchSend \/ SearchClose
  BY <1>2, <1>5, LineSearch
<1>6. CASE ReadLine
  BY <1>2, <1>6, LineReadLine
<1>7. CASE RangeReceive
  BY <1>1, <1>2, <1>7, LineReceive
<1>8. CASE RangeEnd
  BY <1>1, <1>2, <1>8, LineRangeEnd
<1>9. CASE WriteMarker
  BY <1>2, <1>9, LineMarker
<1>10. CASE Write
  BY <1>2, <1>10, LineWrite
<1>11. CASE ReadFails
  BY <1>2, <1>11, LineReadFails
<1>12. CASE UNCHANGED vars
  <2>1. UNCHANGED <<input, sent, fin, client, pc, next, out, after, search, sock, received>>
    BY <1>12 DEF vars, clientVars
  <2>2. LineTyped'
    BY <1>2, <2>1 DEF LineTyped
  <2>3. ASSUME Spoken PROVE Spoken'
    <3>1. Where' = Where /\ Found' = Found /\ Taken' = Taken /\ (Delivering' <=> Delivering)
      BY <2>1 DEF Where, Found, Taken, Delivering
    <3>2. /\ \A s, n : (Right(s, n)' <=> Right(s, n)) /\ (AllAnswered(s, n)' <=> AllAnswered(s, n))
          /\ next' = next /\ input' = input /\ Queries(next)' = Queries(next)
      BY <2>1, SameAnswers
    <3>3. \A s, p : Stage(s, p)' <=> Stage(s, p)
      BY <3>1, <3>2 DEF Stage, Answer
    <3>4. \A w : (Carried(w)' <=> Carried(w)) /\ (Talk(w)' <=> Talk(w))
      <4>1. \A w : Carried(w)' <=> Carried(w)
        BY <2>1 DEF Carried, Cuts
      <4>2. \A w : Talk(w)' <=> Talk(w)
        BY <2>1, <3>1, <3>3 DEF Talk
      <4> QED
        BY <4>1, <4>2
    <3>5. Right(received, next)'
      BY <2>1, <2>3, <3>2 DEF Spoken
    <3> QED
      BY <2>1, <2>3, <3>1, <3>4, <3>5 DEF Spoken
  <2> QED
    BY <2>2, <2>3
<1>13. ~ServeHTTP
  BY <1>1 DEF ServeHTTP
<1> QED
  BY <1>3, <1>4, <1>5, <1>6, <1>7, <1>8, <1>9, <1>10, <1>11, <1>12, <1>13
     DEF Next, Handler, Over

(* Initially nothing was said. *)
LEMMA LineInit == Init => LineInv
<1> SUFFICES ASSUME Init, ~http PROVE LineTyped /\ Spoken
  BY DEF LineInv
<1>1. /\ input \in Inputs /\ sent = 0 /\ client = "reading" /\ pc = "read" /\ next = 0
      /\ out = << >> /\ after = "read" /\ search = NoSearch /\ sock = << >> /\ received = << >>
  BY DEF Init
<1>2. input.items \in Seq(STRING)
  BY <1>1, ServerAssumption
<1>3. << >> \in Message /\ << >> \in Seq(Message) /\ Len(<< >>) = 0
  BY DEF Message
<1>4. LineTyped
  <2>1. search \in [goroutine : {"none", "running", "ended"}, todo : Seq(Message), c : Seq(Message)]
    BY <1>1, <1>3 DEF NoSearch
  <2>2. 0 <= Len(input.items)
    BY <1>2
  <2> QED
    BY <1>1, <1>2, <1>3, <2>1, <2>2 DEF LineTyped
<1>5. Ends(<< >>) = {}
  <2>1. Ends(<< >>) \subseteq 1..Len(<< >>)
    BY <1>3, EndsAre
  <2> QED
    BY <1>3, <2>1
<1>6. Queries(0) = {}
  BY DEF Queries
<1>7. Right(<< >>, 0) /\ AllAnswered(<< >>, 0) /\ Idle(<< >>)
  <2>1. Right(<< >>, 0)
    BY <1>5 DEF Right
  <2>2. AllAnswered(<< >>, 0)
    BY <1>5, <1>6, <2>1 DEF AllAnswered
  <2>3. Idle(<< >>)
    BY <1>3 DEF Idle
  <2> QED
    BY <2>1, <2>2, <2>3
<1>8. Where = "read"
  BY <1>1 DEF Where
<1>9. Carried(<< >>)
  <2> DEFINE off == [j \in 0..0 |-> 0]
  <2>1. off \in [0..0 -> 0..0] /\ off[0] = 0
    OBVIOUS
  <2>2. Cuts(<< >>, off)
    BY <1>1, <1>3, <2>1 DEF Cuts
  <2> QED
    BY <1>1, <1>3, <2>2 DEF Carried
<1>10. Talk(<< >>)
  BY <1>1, <1>7, <1>8 DEF Talk, Stage
<1>11. Spoken
  BY <1>1, <1>7, <1>8, <1>9, <1>10 DEF Spoken
<1> QED
  BY <1>4, <1>11

(* What a client of the line protocol decodes from what it has read are    *)
(* the answers to its queries, whole, in order and one each, for messages  *)
(* without empty lines: although handleConnection takes the results one by *)
(* one from a goroutine, writes each by itself and the marker after them,  *)
(* never looks at an error of a write, and clients send ahead, stall and   *)
(* leave.                                                                  *)
THEOREM AnswersAreDecoded == Spec => []AnswersDecoded
<1>1. Init => LineInv
  BY LineInit
<1>2. LineInv /\ [Next]_vars => LineInv'
  BY LineStep
<1>3. LineInv => AnswersDecoded
  BY DEF LineInv, Spoken, Right, AnswersDecoded
<1> QED
  BY <1>1, <1>2, <1>3, PTL DEF Spec
=============================================================================
