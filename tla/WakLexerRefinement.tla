------------------------- MODULE WakLexerRefinement -------------------------
(***************************************************************************)
(* The lexer implements WakTokenStream.  Every appended token is one Cut;  *)
(* whatever the lexer does between two appends, comments included, is a    *)
(* stutter; lexetize's return is HandOver.                                 *)
(***************************************************************************)
EXTENDS WakLexer

KindOf(tok, text) ==
  CASE tok.type = "IDENTIFIER" /\ tok.text = text   -> "identifier"
    [] tok.type = "LITERAL_NUM" /\ tok.text = text  -> "number"
    [] tok.type = "LITERAL_STR" /\ tok.text = text  -> "string"
    [] tok.type = "LITERAL_CHAR" /\ tok.text = text -> "char"
    [] tok.type = "LITERAL_BOOL"                    -> "keyword"
    [] tok.type = "TOKEN" /\ tok.token \in KeywordValues -> "keyword"
    [] tok.type = "TOKEN" /\ tok.token = TOKEN_EOF       -> "eof"
    [] tok.type = "TOKEN" /\ tok.token = TOKEN_BREAK     -> "break"
    [] OTHER -> "sign"

(* The lexeme a token stands for: its kind and the bytes it was cut from. *)
LexemeOf(i) ==
  LET p == pos_array[i]
  IN  [kind  |-> KindOf(tok_array[i], SubSeq(src, p.start, p.end - 1)),
       first |-> p.start,
       after |-> p.end]

Stream == INSTANCE WakTokenStream WITH
            source <- src,
            out    <- [i \in 1..tok_count |-> LexemeOf(i)],
            done   <- pc = "return"

(***************************************************************************)
(* For every source in which no dot stands on its own, lexetize cuts the   *)
(* source into the lexemes WakTokenStream describes, each by maximal       *)
(* munch, with nested comments ending where their delimiters balance, and  *)
(* it always gets to hand them over.                                       *)
(***************************************************************************)
CutsTheSource == Stream!Spec
=============================================================================
