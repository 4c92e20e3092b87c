---------------------------- MODULE QueryServer ----------------------------
(***************************************************************************)
(* A connection to one of the query servers: handleConnection of server.go *)
(* (lines in, results and an end marker out) or ServeHTTP of               *)
(* server_http.go (a request in, a page out), the goroutine of             *)
(* Engine.Search whose results the handler receives, and the client, which *)
(* may send ahead of the answers, stop reading, or go away at any time.    *)
(*                                                                         *)
(* Text is a sequence of tokens, one per line of text and one per newline. *)
(* The socket holds a bounded number of writes; a write blocks while it is *)
(* full, and fails when the client is gone, which both handlers ignore.    *)
(* What a search finds is EngineSearch's subject: here it is a constant.   *)
(***************************************************************************)
EXTENDS Integers, Sequences, FiniteSets, FiniteSetsExt

CONSTANTS Inputs,    \* what a client may send: [proto, items]
          Results,   \* a function: the messages that satisfy a query
          BadQuery,  \* a query for which Search returns an error
          ErrorText, \* the text of that error
          SockCap,   \* bound: writes a client's socket holds
          MaxItems   \* bound: lines or requests of a client

ASSUME ServerAssumption ==
  /\ \A conn \in Inputs : conn.items \in Seq(STRING)
  /\ \A q \in DOMAIN Results : Results[q] \in Seq(Seq(STRING))
  /\ ErrorText \in STRING \ {"\n"}
  /\ BadQuery \notin DOMAIN Results
  /\ {BadQuery} \cup DOMAIN Results \subseteq
       STRING \ {"GET", "HEAD", "PUT", "emptyPOST", "malformedPOST", "blank", "partial"}

VARIABLES
  input,     \* what the client of this connection sends
  sent,      \* lines or requests it has sent
  fin,       \* has it said that it sends no more?
  client,    \* "reading", "stalled" or "gone"
  pc,        \* the handler: "read", "range" (over the results), "marker",
             \* "write", or "closed"
  next,      \* lines or requests the handler has taken
  out,       \* what the handler is writing
  after,     \* where it goes on after that write
  slice,     \* resultSlice of ServeHTTP
  search,    \* the search: its goroutine, what it still has, its channel
  sock,      \* writes the client has not read
  received   \* what the client has read: the pages, or all text so far

clientVars == <<sent, fin, client>>
vars == <<input, clientVars, pc, next, out, after, slice, search, sock, received>>

http == input.proto = "http"
NoSearch == [goroutine |-> "none", todo |-> << >>, c |-> << >>]

Init ==
  /\ input \in Inputs
  /\ sent = 0 /\ fin = FALSE /\ client = "reading"
  /\ pc = "read" /\ next = 0
  /\ out = << >> /\ after = "read"
  /\ slice = << >>
  /\ search = NoSearch
  /\ sock = << >> /\ received = << >>

-----------------------------------------------------------------------------
(* Deviations from the code, one per plausible bug, part of no             *)
(* specification.                                                          *)

(* One newline marks the end of the results. *)
OneNewline == <<"\n">>

(* An error is not followed by the end marker. *)
SearchFailsNoMarker ==
  /\ out' = <<ErrorText>> /\ after' = "read" /\ pc' = "write"
  /\ UNCHANGED search

(* The handler takes an empty channel for the end of the results. *)
DrainedWhenEmpty == search.c = << >>

(* The handler returns when a write fails. *)
WriteReturnsOnError ==
  /\ pc = "write"
  /\ \/ client = "gone" /\ pc' = "closed" /\ UNCHANGED sock
     \/ client # "gone" /\ Len(sock) < SockCap /\ sock' = Append(sock, out) /\ pc' = after
  /\ UNCHANGED <<input, clientVars, next, out, after, slice, search, received>>

-----------------------------------------------------------------------------
(* The client. *)
ClientSend ==
  /\ client # "gone" /\ ~fin
  /\ sent < Len(input.items)
  /\ sent' = sent + 1
  /\ UNCHANGED <<input, fin, client, pc, next, out, after, slice, search, sock, received>>

ClientFin ==
  /\ client # "gone" /\ ~fin
  /\ fin' = TRUE
  /\ UNCHANGED <<input, sent, client, pc, next, out, after, slice, search, sock, received>>

ClientRead ==
  /\ client = "reading"
  /\ sock # << >>
  /\ received' = IF http THEN Append(received, Head(sock)) ELSE received \o Head(sock)
  /\ sock' = Tail(sock)
  /\ UNCHANGED <<input, clientVars, pc, next, out, after, slice, search>>

ClientTurns ==
  /\ client # "gone"
  /\ client' \in {"reading", "stalled", "gone"} \ {client}
  /\ UNCHANGED <<input, sent, fin, pc, next, out, after, slice, search, sock, received>>

-----------------------------------------------------------------------------
(* The goroutine of Engine.Search: the channel holds one result. *)
SearchSend ==
  /\ search.goroutine = "running"
  /\ search.todo # << >> /\ search.c = << >>
  /\ search' = [search EXCEPT !.c = <<Head(search.todo)>>, !.todo = Tail(@)]
  /\ UNCHANGED <<input, clientVars, pc, next, out, after, slice, sock, received>>

SearchClose ==
  /\ search.goroutine = "running"
  /\ search.todo = << >>
  /\ search' = [search EXCEPT !.goroutine = "ended"]
  /\ UNCHANGED <<input, clientVars, pc, next, out, after, slice, sock, received>>

-----------------------------------------------------------------------------
(* Searcher.Search is called: it returns an error, or a channel that the   *)
(* handler ranges over.                                                    *)
SearchStarts(q) ==
  /\ search' = [goroutine |-> "running", todo |-> Results[q], c |-> << >>]
  /\ pc' = "range"
  /\ UNCHANGED <<out, after>>

SearchFails ==
  /\ out' = <<ErrorText>> /\ after' = "marker" /\ pc' = "write"
  /\ UNCHANGED search

(* ReadString returns a line; an empty one is passed over.  A line whose   *)
(* newline has not come is not returned.                                   *)
ReadLine ==
  /\ ~http /\ pc = "read" /\ next < sent
  /\ LET line == input.items[next + 1]
     IN  /\ line # "partial"
         /\ next' = next + 1
         /\ \/ line = "blank" /\ UNCHANGED <<pc, out, after, search>>
            \/ line = BadQuery /\ SearchFails
            \/ line \in DOMAIN Results /\ SearchStarts(line)
  /\ UNCHANGED <<input, clientVars, slice, sock, received>>

(* ServeHTTP up to the loop over the results. *)
Page(status, results) == [status |-> status, results |-> results]
Respond(page) ==
  /\ out' = page /\ after' = "read" /\ pc' = "write"
  /\ UNCHANGED search

ServeHTTP ==
  /\ http /\ pc = "read" /\ next < sent
  /\ next' = next + 1
  /\ slice' = << >>
  /\ LET r == input.items[next + 1]
     IN  \/ r \in {"GET", "HEAD", "emptyPOST"} /\ Respond(Page(200, << >>))
         \/ r = "malformedPOST" /\ Respond(Page(400, << >>))
         \/ r = BadQuery /\ Respond(Page(500, << >>))
         \/ r = "PUT" /\ Respond(Page(405, << >>))
         \/ r \in DOMAIN Results /\ SearchStarts(r)
  /\ UNCHANGED <<input, clientVars, sock, received>>

(* The loop receives a result, and writes it (server.go 86-88) or puts it  *)
(* into the slice (server_http.go 97-99).                                  *)
RangeReceive ==
  /\ pc = "range"
  /\ search.c # << >>
  /\ search' = [search EXCEPT !.c = << >>]
  /\ \/ /\ http
        /\ slice' = Append(slice, Head(search.c))
        /\ UNCHANGED <<pc, out, after>>
     \/ /\ ~http
        /\ out' = Append(Head(search.c), "\n") /\ after' = "range" /\ pc' = "write"
        /\ UNCHANGED slice
  /\ UNCHANGED <<input, clientVars, next, sock, received>>

(* The loop ends when the channel is closed and empty. *)
Drained == search.goroutine = "ended" /\ search.c = << >>

RangeEnd ==
  /\ pc = "range"
  /\ Drained
  /\ \/ /\ http
        /\ out' = Page(200, slice) /\ after' = "read" /\ pc' = "write"
     \/ /\ ~http
        /\ pc' = "marker"
        /\ UNCHANGED <<out, after>>
  /\ search' = NoSearch
  /\ UNCHANGED <<input, clientVars, next, slice, sock, received>>

(* "Send two newlines to indicate end-of-results." *)
EndOfResults == <<"\n", "\n">>

WriteMarker ==
  /\ pc = "marker"
  /\ out' = EndOfResults /\ after' = "read" /\ pc' = "write"
  /\ UNCHANGED <<input, clientVars, next, slice, search, sock, received>>

(* A write blocks while the socket is full and is lost when the client is  *)
(* gone; nobody looks at its error.                                        *)
Write ==
  /\ pc = "write"
  /\ \/ client = "gone" /\ UNCHANGED sock
     \/ client # "gone" /\ Len(sock) < SockCap /\ sock' = Append(sock, out)
  /\ pc' = after
  /\ UNCHANGED <<input, clientVars, next, out, after, slice, search, received>>

(* The read fails: the client has gone, perhaps with lines unread, or has  *)
(* said that nothing more comes, and a partial line is thrown away.        *)
ReadFails ==
  /\ pc = "read"
  /\ \/ client = "gone"
     \/ fin /\ next = sent
     \/ fin /\ next < sent /\ input.items[next + 1] = "partial"
  /\ pc' = "closed"
  /\ UNCHANGED <<input, clientVars, next, out, after, slice, search, sock, received>>

Handler ==
  ReadLine \/ ServeHTTP \/ RangeReceive \/ RangeEnd \/ WriteMarker \/ Write \/ ReadFails

Over == pc = "closed" /\ client = "gone" /\ UNCHANGED vars

Next ==
  \/ ClientSend \/ ClientFin \/ ClientRead \/ ClientTurns
  \/ SearchSend \/ SearchClose
  \/ Handler
  \/ Over

(* Both goroutines are scheduled, and a client that is not stalled reads.  *)
(* Nothing obliges a client to send, to stay or to go on reading.          *)
Spec ==
  /\ Init /\ [][Next]_vars
  /\ WF_vars(Handler) /\ WF_vars(SearchSend \/ SearchClose) /\ WF_vars(ClientRead)

-----------------------------------------------------------------------------
(* The queries among the first n items of the input. *)
Queries(n) ==
  {m \in 1..n : input.items[m] = BadQuery \/ input.items[m] \in DOMAIN Results}

(* The text of the answer to a query: the messages, a newline between each *)
(* two; and that of its first k messages.                                  *)
Joined(msgs) ==
  LET text[k \in 0..Len(msgs)] ==
        IF k = 0 THEN << >>
        ELSE IF k = 1 THEN msgs[1]
        ELSE text[k - 1] \o <<"\n">> \o msgs[k]
  IN  text
Answer(q) ==
  IF q = BadQuery THEN <<ErrorText>> ELSE Joined(Results[q])[Len(Results[q])]

(* How a client finds the answers in what it has read: two newlines in a   *)
(* row end one.  A result's own newline before the marker is the first of  *)
(* the two, and the marker's second one is the first byte the client sees  *)
(* of the next answer.                                                     *)
LastText(s, k) == Max({0} \cup {j \in 1..k : s[j] # "\n"})
Ends(s) == {k \in 1..Len(s) : s[k] = "\n" /\ (k - LastText(s, k)) % 2 = 0}

(* The answer that ends at k, without the newlines around it. *)
Decoded(s, k) ==
  LET previous == Max({0} \cup {e \in Ends(s) : e < k})
      text == {j \in (previous + 1)..k : s[j] # "\n"}
  IN  IF text = {} THEN << >> ELSE SubSeq(s, Min(text), Max(text))

(* A message without an empty line that a client could take for the marker *)
(* or for a part of it.                                                    *)
Clean(msg) ==
  /\ msg # << >> /\ msg[1] # "\n" /\ msg[Len(msg)] # "\n"
  /\ \A i \in 1..(Len(msg) - 1) : msg[i] # "\n" \/ msg[i + 1] # "\n"

CleanInput ==
  \A n \in Queries(Len(input.items)) :
    input.items[n] # BadQuery =>
      \A m \in DOMAIN Results[input.items[n]] : Clean(Results[input.items[n]][m])

(* What a client of the line protocol decodes are the answers to its       *)
(* queries, whole, in order and one each, also if it sends ahead, if a     *)
(* query has no result or fails, or if it sends empty lines, provided that *)
(* no message has an empty line.                                           *)
AnswersDecoded ==
  (~http /\ CleanInput) =>
    \A k \in Ends(received) : \E n \in Queries(next) :
      /\ Cardinality(Queries(n)) = Cardinality({e \in Ends(received) : e <= k})
      /\ Decoded(received, k) = Answer(input.items[n])

(* A page that a browser gets answers the request of its number and, for a *)
(* query, lists every result, in order; no other page lists any.           *)
PageComplete ==
  http => \A i \in DOMAIN received :
    LET r == input.items[i]
    IN  received[i].results = IF r \in DOMAIN Results THEN Results[r] ELSE << >>

(* A search does not outlive the interest in it: its goroutine ends even   *)
(* if the client goes away in the middle of the results.  Only a client of *)
(* the line protocol that stays connected and does not read can hold it.   *)
SearchReleased ==
  []<>(search.goroutine # "running" \/ (~http /\ client = "stalled"))

(* Every query that was sent is answered in the end to a client that keeps *)
(* reading.                                                                *)
Answered ==
  \A n \in 1..MaxItems :
    (CleanInput /\ sent >= n)
      ~> (\/ client # "reading"
          \/ IF http THEN Len(received) >= n
             ELSE Cardinality(Ends(received)) >= Cardinality(Queries(n)))
=============================================================================
