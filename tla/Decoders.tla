------------------------------ MODULE Decoders ------------------------------
(***************************************************************************)
(* The parts of the program that only turn text into something: those of   *)
(* module Scanners, and the parser of queries, which no server uses yet.   *)
(* The parser is called once on a sequence of tokens; its result is        *)
(* compared with a grammar.                                                *)
(***************************************************************************)
EXTENDS Scanners, Query

CONSTANT TokenSequences  \* the sequences of tokens for the parser

(* kind is also "parser". *)
ParserInit ==
  /\ kind = "parser" /\ stream \in TokenSequences
  /\ messages = NotEncoded
  /\ pos = 0
  /\ d = << >>
  /\ results = << >> /\ bounds = << >>
  /\ resets = 0 /\ cut = FALSE /\ eof = FALSE

ParseAll ==
  /\ kind = "parser"
  /\ results = << >>
  /\ results' = <<Parse(stream, 1)>>
  /\ UNCHANGED <<kind, messages, stream, pos, d, bounds, resets, cut, eof>>

DecodersInit == Init \/ ParserInit
DecodersNext ==
  \/ Next
  \/ ParseAll
  \/ kind = "parser" /\ results # << >> /\ UNCHANGED vars

DecodersSpec == DecodersInit /\ [][DecodersNext]_vars

-----------------------------------------------------------------------------
NoWS(t) == SelectSeq(t, LAMBDA tok : tok # "WS")

(* The parser accepts exactly the queries of the grammar, wherever there   *)
(* is white space, the empty one, and what begins with a query and a       *)
(* closing parenthesis that nothing opens.                                 *)
QueryAccepted ==
  (kind = "parser" /\ results # << >>) =>
    (results[1].err <=> NoWS(stream) # << >> /\ QueryEnds(NoWS(stream)) = {})

(* An accepted query without white space becomes the tree of the           *)
(* operators' precedences, grouped to the left, unless it uses both OR and *)
(* NOT: Parse compares an operator with the root only.                     *)
TreeByPrecedence ==
  (/\ kind = "parser" /\ results # << >>
   /\ "WS" \notin {stream[i] : i \in DOMAIN stream}
   /\ ~({"OR", "NOT"} \subseteq {stream[i] : i \in DOMAIN stream}))
   => \A k \in QueryEnds(stream) : results[1].expr = Tree(stream, 1, k)
=============================================================================
