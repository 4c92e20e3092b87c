------------------------------- MODULE Query -------------------------------
(***************************************************************************)
(* The parser of the query language, Parser.Parse (parser.go), as an       *)
(* operator over the tokens of QueryLexer.  A literal is represented by    *)
(* the position of its token.                                              *)
(***************************************************************************)
EXTENDS QueryLexer

(* The parser, over a sequence of tokens.  A call returns the expression,  *)
(* whether it failed, and the position of the next token: to unlex a token *)
(* is to return its own position.                                          *)
Token(t, p) == IF p > Len(t) THEN "EOF" ELSE t[p]
lexIgnoreWhitespace(t, p) == IF Token(t, p) = "WS" THEN p + 1 ELSE p

isOperator(tok) == tok \in {"AND", "OR", "NOT"}
Precedence(op) == [OR |-> 1, AND |-> 2, NOT |-> 3][op]

NilExpr == [node |-> "nil"]
FieldExpr(field, term) == [node |-> "field", field |-> field, term |-> term]
BinaryExpr(op, lhs, rhs) == [node |-> "binary", op |-> op, lhs |-> lhs, rhs |-> rhs]
ParenExpr(expr) == [node |-> "paren", expr |-> expr]
DefaultField == 0

Parsed(expr, p) == [err |-> FALSE, expr |-> expr, next |-> p]
Failed == [err |-> TRUE, expr |-> NilExpr, next |-> 0]

(* Deviation: operators are grouped from left to right. *)
NewRootLeft(expr, op, rhs) == BinaryExpr(op, expr, rhs)

(* The new root, by the precedences of the old one and of the operator. *)
NewRoot(expr, op, rhs) ==
  IF expr.node = "binary" /\ Precedence(expr.op) < Precedence(op)
  THEN BinaryExpr(expr.op, expr.lhs, BinaryExpr(op, expr.rhs, rhs))
  ELSE BinaryExpr(op, expr, rhs)

(* The part of parseFieldExpr after the test for a parenthesis. *)
parseTerm(t, p) ==
  LET f1 == lexIgnoreWhitespace(t, p)
      colon == lexIgnoreWhitespace(t, f1 + 1)
      f2 == lexIgnoreWhitespace(t, colon + 1)
  IN  IF Token(t, f1) # "STRING" THEN Failed
      ELSE IF Token(t, colon) # "COLON" THEN Parsed(FieldExpr(DefaultField, f1), colon)
      ELSE IF Token(t, f2) # "STRING" THEN Failed
      ELSE Parsed(FieldExpr(f1, f2), f2 + 1)

(* Deviation: the closing parenthesis is not asked for. *)
CloseParenAny(t, inner) ==
  IF inner.err THEN Failed ELSE Parsed(ParenExpr(inner.expr), inner.next + 1)

CloseParen(t, inner) ==
  LET q == lexIgnoreWhitespace(t, inner.next)
  IN  IF inner.err \/ Token(t, q) # "RPAREN" THEN Failed
      ELSE Parsed(ParenExpr(inner.expr), q + 1)

RECURSIVE Parse(_, _), parseRest(_, _), parseFieldExpr(_, _)

parseFieldExpr(t, p) ==
  LET q == lexIgnoreWhitespace(t, p)
  IN  IF Token(t, q) = "LPAREN" THEN CloseParen(t, Parse(t, q + 1))
      ELSE parseTerm(t, q)

(* The loop of Parse, with the expression read so far. *)
parseRest(t, lhs) ==
  LET q == lexIgnoreWhitespace(t, lhs.next)
      op == IF isOperator(Token(t, q)) THEN Token(t, q) ELSE "AND"
      rhs == parseFieldExpr(t, IF isOperator(Token(t, q)) THEN q + 1 ELSE q)
  IN  IF lhs.err THEN Failed
      ELSE IF Token(t, q) = "EOF" THEN Parsed(lhs.expr, q + 1)
      ELSE IF Token(t, q) = "RPAREN" THEN Parsed(lhs.expr, q)
      ELSE IF rhs.err THEN Failed
      ELSE parseRest(t, Parsed(NewRoot(lhs.expr, op, rhs.expr), rhs.next))

Parse(t, p) ==
  LET q == lexIgnoreWhitespace(t, p)
  IN  IF Token(t, q) = "EOF" THEN Parsed(NilExpr, q + 1)
      ELSE parseRest(t, parseFieldExpr(t, q))

-----------------------------------------------------------------------------
(* What the language is, read off a whole query.                           *)

(* The grammar, for the tokens from i to j of a query without white space: *)
(*   factor = STRING | STRING ":" STRING | "(" query ")"                   *)
(*   query  = factor | query [operator] factor                             *)
RECURSIVE IsFactor(_, _, _), IsQuery(_, _, _), Tree(_, _, _)
IsFactor(t, i, j) ==
  \/ i = j /\ t[i] = "STRING"
  \/ j = i + 2 /\ SubSeq(t, i, j) = <<"STRING", "COLON", "STRING">>
  \/ j >= i + 2 /\ t[i] = "LPAREN" /\ t[j] = "RPAREN" /\ IsQuery(t, i + 1, j - 1)
IsQuery(t, i, j) ==
  \/ IsFactor(t, i, j)
  \/ \E m \in i..(j - 1) :
       /\ \/ IsFactor(t, m + 1, j)
          \/ m + 2 <= j /\ isOperator(t[m + 1]) /\ IsFactor(t, m + 2, j)
       /\ IsQuery(t, i, m)

(* Where a query can be divided: the operator, which is AND if there is    *)
(* none, the end of its left and the beginning of its right operand.       *)
Divisions(t, i, j) ==
  {[op |-> IF isOperator(t[m + 1]) THEN t[m + 1] ELSE "AND", left |-> m,
    right |-> IF isOperator(t[m + 1]) THEN m + 2 ELSE m + 1] :
     m \in {n \in i..(j - 1) :
              /\ IsQuery(t, i, n)
              /\ IsQuery(t, IF isOperator(t[n + 1]) THEN n + 2 ELSE n + 1, j)}}

(* The tree of a query: it is divided at the operator that binds least,    *)
(* the last one of several.                                                *)
Tree(t, i, j) ==
  IF IsFactor(t, i, j)
  THEN CASE i = j -> FieldExpr(DefaultField, i)
         [] t[i] = "STRING" -> FieldExpr(i, j)
         [] OTHER -> ParenExpr(Tree(t, i + 1, j - 1))
  ELSE LET divs == Divisions(t, i, j)
           d == CHOOSE d \in divs : \A e \in divs :
                  \/ Precedence(d.op) < Precedence(e.op)
                  \/ Precedence(d.op) = Precedence(e.op) /\ d.left >= e.left
       IN  BinaryExpr(d.op, Tree(t, i, d.left), Tree(t, d.right, j))

(* Where the query that a sequence of tokens begins with ends: at the end, *)
(* or before a closing parenthesis that matches no opening one.            *)
QueryEnds(t) ==
  {k \in 1..Len(t) : IsQuery(t, 1, k) /\ (k = Len(t) \/ t[k + 1] = "RPAREN")}
=============================================================================
