----------------------------- MODULE MCDecoders -----------------------------
(***************************************************************************)
(* The decoders for TLC.  Netstrings: every pair of values of at most two  *)
(* bytes, separators among them, one of ten, and every stream of up to     *)
(* five bytes.  An int ends at 12, so that a length of two digits can      *)
(* overflow.  RFC5424: every arrangement of four pieces behind a newline,  *)
(* among them headers with one, three or four digits and malformed ones.   *)
(* Queries: every text of up to five pieces, every sequence of up to six   *)
(* tokens (four with white space) and every chain of up to five terms.     *)
(***************************************************************************)
EXTENDS Decoders

Tuples(S, n) == UNION {[1..k -> S] : k \in 0..n}

MCMaxInt == 12
MCNetstrMessages ==
  Tuples(Tuples({"1", ":", ";", "x"}, 2), 2) \cup {<<[k \in 1..10 |-> "1"], <<":">>>>}
MCNetstrStreams == Tuples({"0", "1", "3", ":", ";", "x"}, 5)

Header(n) == <<"<">> \o [k \in 1..n |-> "digit"] \o <<">", "digit", " ">>
Pieces == {Header(1), Header(3), Header(4), <<"text">>, <<"\r", "\n">>,
           <<"\n">>, <<"<", "digit", "text", ">", "digit", " ">>, <<"<">>}

MCRfcStreams ==
  {<<"\n">> \o p[1] \o p[2] \o p[3] \o p[4] : p \in [1..4 -> Pieces]}

MCTexts == Tuples({"term", "and", "ws", "nul", ":", "("}, 5)
Tokens == {"STRING", "AND", "OR", "NOT", "COLON", "LPAREN", "RPAREN"}
Chain(ops) ==  \* STRING, operator, STRING, operator, ..., STRING
  [i \in 1..(2 * Len(ops) + 1) |-> IF i % 2 = 1 THEN "STRING" ELSE ops[i \div 2]]
MCTokenSequences ==
  Tuples(Tokens, 6) \cup {Chain(ops) : ops \in Tuples({"AND", "OR", "NOT"}, 4)}
  \cup {t \in Tuples(Tokens \cup {"WS"}, 4) :
          \A i \in 1..(Len(t) - 1) : t[i] # "WS" \/ t[i + 1] # "WS"}
=============================================================================
