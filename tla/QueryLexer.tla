----------------------------- MODULE QueryLexer -----------------------------
(***************************************************************************)
(* The lexer of the query language, Lexer.Lex (lexer.go, token.go), as an  *)
(* operator.                                                               *)
(*                                                                         *)
(* A text is a sequence of pieces: keywords and other runs of characters,  *)
(* a piece of white space, the three separators, and the NUL character,    *)
(* which the lexer takes for the end of the input.  Words that touch are   *)
(* one word.                                                               *)
(***************************************************************************)
EXTENDS Integers, Sequences

Keyword ==
  [w \in {"and", "or", "not"} |->
     CASE w = "and" -> "AND" [] w = "or" -> "OR" [] w = "not" -> "NOT"]
Separator ==
  [b \in {":", "(", ")"} |->
     CASE b = ":" -> "COLON" [] b = "(" -> "LPAREN" [] b = ")" -> "RPAREN"]
Word == DOMAIN Keyword \cup {"term"}
Piece == Word \cup DOMAIN Separator \cup {"ws", "nul"}

(* Where the run of pieces of a class that begins at i ends. *)
RunEnd(s, i, class) ==
  CHOOSE j \in i..Len(s) :
     /\ \A k \in i..j : s[k] \in class
     /\ j < Len(s) => s[j + 1] \notin class

(* Deviation: the piece that ends a run is not put back. *)
AfterRunDropped(s, j) == j + 2

(* A run is ended by a piece that is put back, or by NUL, which is not.    *)
AfterRun(s, j) == IF j < Len(s) /\ s[j + 1] = "nul" THEN j + 2 ELSE j + 1

(* Lookup: a word that is a keyword is no STRING. *)
Lookup(s, i, j) == IF i = j /\ s[i] \in DOMAIN Keyword THEN Keyword[s[i]] ELSE "STRING"

(* The token at position i of a text, and where the next one begins. *)
Lex(s, i) ==
  IF s[i] = "nul" THEN [tok |-> "EOF", next |-> i + 1]
  ELSE IF s[i] \in DOMAIN Separator THEN [tok |-> Separator[s[i]], next |-> i + 1]
  ELSE IF s[i] = "ws"
       THEN [tok |-> "WS", next |-> AfterRun(s, RunEnd(s, i, {"ws"}))]
  ELSE LET j == RunEnd(s, i, Word)
       IN  [tok |-> Lookup(s, i, j), next |-> AfterRun(s, j)]

-----------------------------------------------------------------------------
(* What the tokens are, read off a whole text.                             *)

(* Tokens begin at separators, at the first piece of a word or of white    *)
(* space, and at a NUL that ends neither.                                  *)
TokenStarts(s) ==
  {i \in 1..Len(s) :
     LET before == IF i = 1 THEN "none" ELSE s[i - 1]
     IN  CASE s[i] \in DOMAIN Separator -> TRUE
           [] s[i] \in Word             -> before \notin Word
           [] s[i] = "ws"               -> before # "ws"
           [] s[i] = "nul"              -> before \notin Word \cup {"ws"}}

(* The token of a text that begins at i. *)
TokenAt(s, i) ==
  CASE s[i] \in DOMAIN Separator -> Separator[s[i]]
    [] s[i] = "ws"  -> "WS"
    [] s[i] = "nul" -> "EOF"
    [] OTHER -> IF s[i] = "term" \/ (i < Len(s) /\ s[i + 1] \in Word)
                THEN "STRING" ELSE Keyword[s[i]]
=============================================================================
