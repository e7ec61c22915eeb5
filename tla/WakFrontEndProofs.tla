------------------------- MODULE WakFrontEndProofs -------------------------
(***************************************************************************)
(* What parser_print_error shows, for every source.  It finds the line     *)
(* again from the bytes around the token, while the number it prints in    *)
(* front of it is the one the lexer stored: that both agree follows from   *)
(* what WakLexerProofs says of the positions.                              *)
(***************************************************************************)
EXTENDS WakFrontEnd, WakInduction, FiniteSetTheorems, TLAPS

LP == INSTANCE WakLexerProofs

-----------------------------------------------------------------------------
(* The lexer as WakFrontEnd has it, and as its proofs have it.             *)

(* What the proofs of the lexer assume. *)
LEMMA LexerAssumptions ==
  /\ LP!CharAssumption /\ LP!SourceAssumption
  /\ LP!TokMapAssumption /\ LP!BoundAssumption
BY LexerAssumption
   DEF L!CharAssumption, L!SourceAssumption, L!TokMapAssumption, L!BoundAssumption,
       LP!CharAssumption, LP!SourceAssumption, LP!TokMapAssumption, LP!BoundAssumption,
       L!Special, L!Char, L!IdentChar, L!KeywordValues, L!NUL, L!SP, L!LF, L!CR, L!DQ,
       L!SQ, L!DOT, L!SLASH, L!STAR, LP!KeywordValues,
       LP!Special, LP!Char, LP!IdentChar, LP!NUL, LP!SP, LP!LF, LP!CR, LP!DQ, LP!SQ, LP!DOT,
       LP!SLASH, LP!STAR

(* lexetize begins as there. *)
LEMMA SameInit == L!Init => LP!Init
BY DEF L!Init, LP!Init

(* The invariants of the lexer and of its positions. *)
LEMMA InitLexer ==
  ASSUME L!Init
  PROVE  LP!LexerInv /\ LP!PositionInv
<1>1. LP!Init
  BY SameInit
<1>2. LP!LexerInv
  BY <1>1, LexerAssumptions, LP!InitEstablishesLexerInv
     DEF LP!CharAssumption, LP!SourceAssumption, LP!TokMapAssumption, LP!BoundAssumption
<1>3. LP!PositionInv
  BY <1>1, LexerAssumptions, LP!InitMakesPositions
     DEF LP!CharAssumption, LP!SourceAssumption, LP!TokMapAssumption, LP!BoundAssumption
<1> QED
  BY <1>2, <1>3

(* Every function of the lexer is the same function in both. *)
LEMMA SameNext ==
  ASSUME L!Next, pc \notin L!Stopped
  PROVE  LP!Next
<1>1. L!lex_dispatch => LP!lex_dispatch
  BY DEF L!lex_dispatch, L!AtLimit, L!limit, LP!lex_dispatch, LP!AtLimit, LP!limit
<1>2. L!lexer_next => LP!lexer_next
  BY DEF L!lexer_next, L!lex_append_tok, L!ArraysFull, L!tok_count, L!Furthest,
         L!limit, L!ValueToken, L!ScanStops, L!StoredPos, L!HandlerOf, L!NUL, L!SP,
         L!LF, L!CR, L!DQ, L!SQ, L!DOT, L!SLASH, L!STAR, LP!lexer_next,
         LP!lex_append_tok, LP!ArraysFull, LP!tok_count, LP!Furthest, LP!limit,
         LP!ValueToken, LP!ScanStops, LP!StoredPos, LP!HandlerOf, LP!NUL, LP!SP,
         LP!LF, LP!CR, LP!DQ, LP!SQ, LP!DOT, LP!SLASH, LP!STAR
<1>3. L!lex_parse_eof => LP!lex_parse_eof
  BY DEF L!lex_parse_eof, L!lex_append_tok, L!ArraysFull, L!tok_count, L!Furthest,
         L!limit, L!lex_append_tok_val, L!ValueToken, L!TOKEN_EOF, L!NUL,
         LP!lex_parse_eof, LP!lex_append_tok, LP!ArraysFull, LP!tok_count,
         LP!Furthest, LP!limit, LP!lex_append_tok_val, LP!ValueToken, LP!TOKEN_EOF,
         LP!NUL
<1>4. L!lex_parse_identifier => LP!lex_parse_identifier
  BY DEF L!lex_parse_identifier, L!lex_append_tok, L!ArraysFull, L!tok_count,
         L!Furthest, L!limit, L!lex_append_tok_val, L!ValueToken,
         L!lex_append_tok_substr, L!TextToken, L!ScanStops, L!IdentChar, L!FindLen,
         L!StrcmpLenIsZero, L!BoolKeyword, L!BoolToken, LP!lex_parse_identifier,
         LP!lex_append_tok, LP!ArraysFull, LP!tok_count, LP!Furthest, LP!limit,
         LP!lex_append_tok_val, LP!ValueToken, LP!lex_append_tok_substr,
         LP!TextToken, LP!ScanStops, LP!IdentChar, LP!FindLen, LP!StrcmpLenIsZero,
         LP!BoolKeyword, LP!BoolToken
<1>5. L!lex_parse_num_literal => LP!lex_parse_num_literal
  BY DEF L!lex_parse_num_literal, L!lex_append_tok, L!ArraysFull, L!tok_count,
         L!Furthest, L!limit, L!lex_append_tok_substr, L!TextToken, L!ScanStops,
         L!NumChar, L!DOT, LP!lex_parse_num_literal, LP!lex_append_tok,
         LP!ArraysFull, LP!tok_count, LP!Furthest, LP!limit,
         LP!lex_append_tok_substr, LP!TextToken, LP!ScanStops, LP!NumChar, LP!DOT
<1>6. L!lex_parse_string_literal => LP!lex_parse_string_literal
  BY DEF L!lex_parse_string_literal, L!lex_append_tok, L!ArraysFull, L!tok_count,
         L!Furthest, L!limit, L!lex_append_tok_substr, L!TextToken, L!ScanStops,
         L!QuotedLiteral, L!Char, L!LineEnd, L!Special, L!NUL, L!SP, L!LF, L!CR,
         L!DQ, L!SQ, L!DOT, L!SLASH, L!STAR, LP!lex_parse_string_literal,
         LP!lex_append_tok, LP!ArraysFull, LP!tok_count, LP!Furthest, LP!limit,
         LP!lex_append_tok_substr, LP!TextToken, LP!ScanStops, LP!QuotedLiteral,
         LP!Char, LP!LineEnd, LP!Special, LP!NUL, LP!SP, LP!LF, LP!CR, LP!DQ, LP!SQ,
         LP!DOT, LP!SLASH, LP!STAR
<1>7. L!lex_parse_char_literal => LP!lex_parse_char_literal
  BY DEF L!lex_parse_char_literal, L!lex_append_tok, L!ArraysFull, L!tok_count,
         L!Furthest, L!limit, L!lex_append_tok_substr, L!TextToken, L!ScanStops,
         L!QuotedLiteral, L!Char, L!LineEnd, L!Special, L!NUL, L!SP, L!LF, L!CR,
         L!DQ, L!SQ, L!DOT, L!SLASH, L!STAR, LP!lex_parse_char_literal,
         LP!lex_append_tok, LP!ArraysFull, LP!tok_count, LP!Furthest, LP!limit,
         LP!lex_append_tok_substr, LP!TextToken, LP!ScanStops, LP!QuotedLiteral,
         LP!Char, LP!LineEnd, LP!Special, LP!NUL, LP!SP, LP!LF, LP!CR, LP!DQ, LP!SQ,
         LP!DOT, LP!SLASH, LP!STAR
<1>8. L!lex_parse_slash => LP!lex_parse_slash
  BY DEF L!lex_parse_slash, L!lex_append_tok, L!ArraysFull, L!tok_count, L!Furthest,
         L!limit, L!lex_append_tok_val, L!ValueToken, L!TOKEN_SLASH, L!STAR,
         L!SLASH, LP!lex_parse_slash, LP!lex_append_tok, LP!ArraysFull,
         LP!tok_count, LP!Furthest, LP!limit, LP!lex_append_tok_val, LP!ValueToken,
         LP!TOKEN_SLASH, LP!STAR, LP!SLASH
<1>9. L!lex_parse_single_comment => LP!lex_parse_single_comment
  BY DEF L!lex_parse_single_comment, L!lex_append_tok, L!ArraysFull, L!tok_count,
         L!Furthest, L!limit, L!lex_append_tok_val, L!ValueToken, L!ScanStops,
         L!Char, L!LineEnd, L!Special, L!TOKEN_BREAK, L!NUL, L!SP, L!LF, L!CR, L!DQ,
         L!SQ, L!DOT, L!SLASH, L!STAR, LP!lex_parse_single_comment,
         LP!lex_append_tok, LP!ArraysFull, LP!tok_count, LP!Furthest, LP!limit,
         LP!lex_append_tok_val, LP!ValueToken, LP!ScanStops, LP!Char, LP!LineEnd,
         LP!Special, LP!TOKEN_BREAK, LP!NUL, LP!SP, LP!LF, LP!CR, LP!DQ, LP!SQ,
         LP!DOT, LP!SLASH, LP!STAR
<1>10. L!lex_parse_multi_comment => LP!lex_parse_multi_comment
  BY DEF L!lex_parse_multi_comment, LP!lex_parse_multi_comment
<1>11. L!multi_comment_loop => LP!multi_comment_loop
  BY DEF L!multi_comment_loop, L!Furthest, L!NUL, L!Opens, L!Closes, L!SLASH,
         L!STAR, L!LF, LP!multi_comment_loop, LP!Furthest, LP!NUL, LP!Opens,
         LP!Closes, LP!SLASH, LP!STAR, LP!LF
<1>12. L!lex_parse_linebreak => LP!lex_parse_linebreak
  BY DEF L!lex_parse_linebreak, L!lex_append_tok, L!ArraysFull, L!tok_count,
         L!Furthest, L!limit, L!lex_append_tok_val, L!ValueToken, L!BreakEnd,
         L!TOKEN_BREAK, L!LF, L!CR, LP!lex_parse_linebreak, LP!lex_append_tok,
         LP!ArraysFull, LP!tok_count, LP!Furthest, LP!limit, LP!lex_append_tok_val,
         LP!ValueToken, LP!BreakEnd, LP!TOKEN_BREAK, LP!LF, LP!CR
<1>13. L!lex_parse_dot => LP!lex_parse_dot
  BY DEF L!lex_parse_dot, L!lex_append_tok, L!ArraysFull, L!tok_count, L!Furthest,
         L!limit, L!lex_append_tok_val, L!ValueToken, L!TOKEN_DOT, L!DOT,
         LP!lex_parse_dot, LP!lex_append_tok, LP!ArraysFull, LP!tok_count,
         LP!Furthest, LP!limit, LP!lex_append_tok_val, LP!ValueToken, LP!TOKEN_DOT,
         LP!DOT
<1>14. ~L!Terminating
  BY DEF L!Terminating
<1> QED
  BY <1>1, <1>2, <1>3, <1>4, <1>5, <1>6, <1>7, <1>8, <1>9, <1>10, <1>11, <1>12,
     <1>13, <1>14 DEF L!Next, LP!Next

(* A step of the lexer keeps its invariants. *)
LEMMA NextLexer ==
  ASSUME L!Next, pc \notin L!Stopped, LP!LexerInv, LP!PositionInv
  PROVE  LP!LexerInv' /\ LP!PositionInv'
<1>1. [LP!Next]_LP!vars
  BY SameNext
<1>2. LP!LexerInv'
  BY <1>1, LexerAssumptions, LP!NextKeepsLexerInv
     DEF LP!CharAssumption, LP!SourceAssumption, LP!TokMapAssumption, LP!BoundAssumption
<1>3. LP!PositionInv'
  BY <1>1, LexerAssumptions, LP!NextKeepsPositions
     DEF LP!CharAssumption, LP!SourceAssumption, LP!TokMapAssumption, LP!BoundAssumption
<1> QED
  BY <1>2, <1>3

(* Whatever leaves the lexer's variables alone does so too. *)
LEMMA IdleLexer ==
  ASSUME UNCHANGED lexer_vars, LP!LexerInv, LP!PositionInv
  PROVE  LP!LexerInv' /\ LP!PositionInv'
<1>1. [LP!Next]_LP!vars
  BY DEF lexer_vars, LP!vars
<1>2. LP!LexerInv'
  BY <1>1, LexerAssumptions, LP!NextKeepsLexerInv
     DEF LP!CharAssumption, LP!SourceAssumption, LP!TokMapAssumption, LP!BoundAssumption
<1>3. LP!PositionInv'
  BY <1>1, LexerAssumptions, LP!NextKeepsPositions
     DEF LP!CharAssumption, LP!SourceAssumption, LP!TokMapAssumption, LP!BoundAssumption
<1> QED
  BY <1>2, <1>3

-----------------------------------------------------------------------------
(* parse ends with the first error, and prints it.                         *)
ReportInv ==
  /\ shown = IF error = P!NoError THEN Nothing ELSE parser_print_error(error.at)
  /\ parse_pc \in {"waiting", "parse", "assert_failed"} => error = P!NoError
  /\ parse_pc = "waiting" \/ pc = "return"

FrontInv == LP!LexerInv /\ LP!PositionInv /\ ReportInv

(* A call of parser_next_statement emits an error, or none. *)
LEMMA CallsReport ==
  ASSUME P!parser_next_statement
  PROVE  parse_pc = "parse" /\ (error' = error \/ parse_pc' = "return")
<1>1. ASSUME NEW code, NEW msg, NEW at, P!Reject(code, msg, at)
      PROVE  parse_pc' = "return"
  BY <1>1 DEF P!Reject, P!EmitError
<1>2. ASSUME NEW sts, NEW at, P!Proceed(sts, at)
      PROVE  error' = error
  BY <1>2 DEF P!Proceed
<1>3. ASSUME NEW sts, NEW s, NEW at, P!Complete(sts, s, at)
      PROVE  error' = error \/ parse_pc' = "return"
  BY <1>2, <1>3 DEF P!Complete, P!EmitError
<1>4. ASSUME NEW type, NEW sts, NEW at, P!CompleteWith(type, sts, at)
      PROVE  error' = error \/ parse_pc' = "return"
  <2>1. PICK leftover \in Leftovers :
          LET e == P!parser_expr(at, sts, leftover)
          IN  \/ P!EmitError(e.code, e.msg, e.at)
              \/ P!Proceed(sts, e.at)
              \/ P!Complete(sts, P!Made(type, e.value), e.at)
    BY <1>4 DEF P!CompleteWith
  <2> DEFINE e == P!parser_expr(at, sts, leftover)
  <2>2. \/ P!EmitError(e.code, e.msg, e.at)
        \/ P!Proceed(sts, e.at)
        \/ P!Complete(sts, P!Made(type, e.value), e.at)
    BY <2>1
  <2> HIDE DEF e
  <2>3. P!EmitError(e.code, e.msg, e.at) => parse_pc' = "return"
    BY DEF P!EmitError
  <2> QED
    BY <1>2, <1>3, <2>2, <2>3
<1>5. ASSUME NEW name, NEW i, P!FunctionBody(name, i)
      PROVE  error' = error \/ parse_pc' = "return"
  BY <1>1, <1>2, <1>3, <1>5 DEF P!FunctionBody
<1>6. CASE P!parser_skip_break \/ P!parser_return \/ P!parser_end_block
  BY <1>1, <1>2, <1>3, <1>4, <1>6
     DEF P!parser_skip_break, P!parser_return, P!parser_end_block, P!Parsing
<1>7. CASE P!parser_func_decl
  BY <1>1, <1>2, <1>3, <1>4, <1>5, <1>7 DEF P!parser_func_decl, P!Parsing
<1>8. CASE P!parser_var_decl
  BY <1>1, <1>2, <1>3, <1>4, <1>8 DEF P!parser_var_decl, P!Parsing
<1>9. CASE P!parser_identifier \/ P!parser_token \/ P!literal_by_itself
  BY <1>1, <1>2, <1>3, <1>4, <1>9
     DEF P!parser_identifier, P!parser_token, P!literal_by_itself, P!Parsing
<1> QED
  BY <1>6, <1>7, <1>8, <1>9 DEF P!parser_next_statement

(* The text shown for a token depends on the source and the positions. *)
LEMMA SameReport ==
  ASSUME UNCHANGED <<src, pos_array>>, NEW i
  PROVE  parser_print_error(i)' = parser_print_error(i)
<1>1. L!limit' = L!limit
  BY DEF L!limit
<1>2. ASSUME NEW pos PROVE LineStart(pos)' = LineStart(pos) /\ LineEnd(pos)' = LineEnd(pos)
  BY <1>1 DEF LineStart, LineEnd
<1> QED
  BY <1>2 DEF parser_print_error

(* The lexer's steps, the hand-over and the parser's calls keep it all. *)
LEMMA NextFront ==
  ASSUME FrontInv, [Next]_vars
  PROVE  FrontInv'
<1>1. CASE lexetize
  <2>1. L!Next /\ pc \notin L!Stopped /\ UNCHANGED <<parser_vars, shown>>
    BY <1>1 DEF lexetize
  <2>2. LP!LexerInv' /\ LP!PositionInv'
    BY <2>1, NextLexer DEF FrontInv
  <2>3. parse_pc = "waiting" /\ error = P!NoError /\ shown = Nothing
    BY <2>1 DEF FrontInv, ReportInv, L!Stopped
  <2>4. ReportInv'
    BY <2>1, <2>3 DEF ReportInv, parser_vars, P!NoError, Nothing
  <2> QED
    BY <2>2, <2>4 DEF FrontInv
<1>2. CASE hand_over
  <2>1. /\ pc = "return" /\ parse_pc = "waiting" /\ parse_pc' = "parse"
        /\ UNCHANGED <<lexer_vars, error, shown>>
    BY <1>2 DEF hand_over
  <2>2. LP!LexerInv' /\ LP!PositionInv'
    BY <2>1, IdleLexer DEF FrontInv
  <2>3. error = P!NoError /\ shown = Nothing
    BY <2>1 DEF FrontInv, ReportInv
  <2>4. pc' = "return"
    BY <2>1 DEF lexer_vars
  <2>5. ReportInv'
    BY <2>1, <2>3, <2>4 DEF ReportInv, P!NoError, Nothing
  <2> QED
    BY <2>2, <2>5 DEF FrontInv
<1>3. CASE parse
  <2>1. /\ parse_pc = "parse" /\ (error' = error \/ parse_pc' = "return")
        /\ UNCHANGED lexer_vars
        /\ shown' = IF error' = error THEN shown ELSE parser_print_error(error'.at)
    BY <1>3, CallsReport DEF parse
  <2>2. LP!LexerInv' /\ LP!PositionInv'
    BY <2>1, IdleLexer DEF FrontInv
  <2>3. error = P!NoError /\ shown = Nothing /\ pc = "return"
    BY <2>1 DEF FrontInv, ReportInv
  <2>4. pc' = "return" /\ UNCHANGED <<src, pos_array>>
    BY <2>1, <2>3 DEF lexer_vars
  <2>5. P!NoError' = P!NoError /\ Nothing' = Nothing
    BY DEF P!NoError, Nothing
  <2>6. shown' = IF error' = P!NoError' THEN Nothing' ELSE parser_print_error(error.at)'
    <3>1. parser_print_error(error.at)' = parser_print_error(error'.at)
      <4>1. ASSUME NEW i, i = error'.at PROVE parser_print_error(i)' = parser_print_error(i)
        BY <2>4, SameReport
      <4> QED
        BY <2>4, SameReport DEF parser_print_error, LineStart, LineEnd, L!limit
    <3> QED
      BY <2>1, <2>3, <2>5, <3>1
  <2>7. parse_pc' \in {"waiting", "parse", "assert_failed"} => error' = P!NoError'
    BY <2>1, <2>3, <2>5
  <2>8. ReportInv'
    BY <2>4, <2>6, <2>7 DEF ReportInv
  <2> QED
    BY <2>2, <2>8 DEF FrontInv
<1>4. CASE UNCHANGED vars
  <2>1. UNCHANGED <<lexer_vars, parser_vars, shown>>
    BY <1>4 DEF vars
  <2>2. LP!LexerInv' /\ LP!PositionInv'
    BY <2>1, IdleLexer DEF FrontInv
  <2>3. UNCHANGED <<src, pos_array, pc, error, parse_pc, shown>>
    BY <2>1 DEF lexer_vars, parser_vars
  <2>4. ReportInv'
    BY <2>3 DEF FrontInv, ReportInv, P!NoError, Nothing, parser_print_error, LineStart,
                LineEnd, L!limit
  <2> QED
    BY <2>2, <2>4 DEF FrontInv
<1> QED
  BY <1>1, <1>2, <1>3, <1>4 DEF Next, Work, Terminating

(* What the lexer begins with, no error, nothing shown.                    *)
LEMMA InitFront == Init => FrontInv
BY InitLexer DEF Init, FrontInv, ReportInv, P!NoError, Nothing

(* The positions keep their relation to the source through the parse, and  *)
(* what is printed is what parser_print_error makes of the one error.      *)
THEOREM SpecKeepsFrontInv == Spec => []FrontInv
BY InitFront, NextFront, PTL DEF Spec

-----------------------------------------------------------------------------
(* The two walks.                                                          *)

(* The walk back ends on an LF or on the first byte. *)
LEMMA WalkBack ==
  ASSUME NEW pos, pos.start \in Nat, pos.start >= 1
  PROVE  /\ LineStart(pos) \in 1..pos.start
         /\ LineStart(pos) = 1 \/ src[LineStart(pos)] = L!LF
         /\ \A j \in (LineStart(pos) + 1)..pos.start : src[j] # L!LF
<1> DEFINE T == {k \in 1..pos.start : k = 1 \/ src[k] = L!LF}
<1>1. 1 \in T /\ T \subseteq 0..pos.start
  OBVIOUS
<1>2. PICK k \in T : \A y \in T : y <= k
  <2> HIDE DEF T
  <2> QED
    BY <1>1, GreatestElement
<1>3. \A j \in (k + 1)..pos.start : src[j] # L!LF
  BY <1>2
<1>4. k \in 1..pos.start /\ (k = 1 \/ src[k] = L!LF)
  BY <1>2
<1> QED
  BY <1>3, <1>4 DEF LineStart

(* The walk on ends on an LF or behind the last byte. *)
LEMMA WalkOn ==
  ASSUME NEW pos, pos.end \in Nat, L!limit \in Nat, pos.end <= L!limit
  PROVE  /\ LineEnd(pos) \in pos.end..L!limit
         /\ LineEnd(pos) = L!limit \/ src[LineEnd(pos)] = L!LF
         /\ \A j \in pos.end..(LineEnd(pos) - 1) : src[j] # L!LF
<1> DEFINE T == {k \in pos.end..L!limit : k = L!limit \/ src[k] = L!LF}
<1>1. L!limit \in T /\ T \subseteq Nat
  OBVIOUS
<1>2. PICK k \in T : \A y \in T : k <= y
  <2> HIDE DEF T
  <2> QED
    BY <1>1, LeastElement
<1>3. \A j \in pos.end..(k - 1) : src[j] # L!LF
  BY <1>1, <1>2
<1>4. k \in pos.end..L!limit /\ (k = L!limit \/ src[k] = L!LF)
  BY <1>2
<1> QED
  BY <1>3, <1>4 DEF LineEnd

-----------------------------------------------------------------------------
(* What is shown is the text around a token whose position is placed.      *)
LEMMA ShownToken ==
  ASSUME FrontInv, shown.outcome \in {"line", "assert_failed"}
  PROVE  /\ error.at \in 1..Len(pos_array)
         /\ shown = parser_print_error(error.at)
         /\ LP!Placed(src, tok_array, pos_array, error.at)
         /\ pos_array[error.at] \in LP!Token_Pos
         /\ src \in Seq(LP!Char) /\ L!limit = Len(src) + 1
<1>1. error # P!NoError /\ shown = parser_print_error(error.at)
  BY DEF FrontInv, ReportInv, Nothing
<1>2. error.at \in DOMAIN pos_array
  BY <1>1 DEF parser_print_error
<1>3. pos_array \in Seq(LP!Token_Pos) /\ src \in Seq(LP!Char)
  BY DEF FrontInv, LP!LexerInv, LP!TypeOK
<1>4. error.at \in 1..Len(pos_array)
  BY <1>2, <1>3
<1>5. LP!Placed(src, tok_array, pos_array, error.at)
  BY <1>4 DEF FrontInv, LP!PositionInv, LP!Stored
<1> QED
  BY <1>1, <1>3, <1>4, <1>5 DEF L!limit

(* The same position as a shape: where it starts and ends, and whether a   *)
(* line break is between.                                                  *)
LEMMA ShownShape ==
  ASSUME FrontInv, shown.outcome \in {"line", "assert_failed"},
         NEW pos, pos = pos_array[error.at]
  PROVE  /\ Len(src) \in Nat /\ L!limit = Len(src) + 1
         /\ pos.start \in 1..Len(src) /\ pos.end \in pos.start..L!limit
         /\ \/ src[pos.start] = "LF" /\ pos.end = pos.start + 1
            \/ /\ src[pos.start] = "CR" /\ src[pos.start + 1] = "LF"
               /\ pos.end = pos.start + 2
            \/ /\ src[pos.start] = "CR" /\ src[pos.start + 1] # "LF"
               /\ pos.end = pos.start + 1
            \/ \A k \in {pos.start} \cup (pos.start..(pos.end - 1)) :
                 src[k] # "LF" /\ src[k] # "CR"
<1>1. LP!Shaped(src, tok_array[error.at], pos) /\ L!limit = Len(src) + 1
  BY ShownToken DEF LP!Placed
<1>2. Len(src) \in Nat
  BY ShownToken
<1> QED
  BY <1>1, <1>2 DEF LP!Shaped, LP!Break, LP!NoBreak, LP!LF, LP!CR

(***************************************************************************)
(* The assertion about the buffer in parser_print_error fails for no token *)
(* of no line but where as many bytes as the buffer has follow each other  *)
(* without an LF: the bytes before, in and behind a token never hold one,  *)
(* and a token that is a line break is too short.                          *)
(***************************************************************************)
THEOREM LongLinesOnly == Spec => []OnlyLongLinesFailTheAssertion
<1>1. ASSUME FrontInv PROVE OnlyLongLinesFailTheAssertion
  <2> SUFFICES ASSUME shown.outcome = "assert_failed"
               PROVE  \E i, j \in 1..L!limit :
                        /\ j - i >= BufSize
                        /\ \A k \in (i + 1)..(j - 1) : src[k] # L!LF
    BY DEF OnlyLongLinesFailTheAssertion
  <2> DEFINE pos == pos_array[error.at]
  <2>1. /\ Len(src) \in Nat /\ L!limit = Len(src) + 1
        /\ pos.start \in 1..Len(src) /\ pos.end \in pos.start..L!limit
    BY <1>1, ShownShape
  <2>2. \/ pos.end <= pos.start + 2
        \/ \A k \in pos.start..(pos.end - 1) : src[k] # L!LF
    <3>1. \/ pos.end = pos.start + 1 \/ pos.end = pos.start + 2
          \/ \A k \in {pos.start} \cup (pos.start..(pos.end - 1)) :
               src[k] # "LF" /\ src[k] # "CR"
      BY <1>1, ShownShape
    <3> HIDE DEF pos
    <3> QED
      BY <2>1, <3>1 DEF L!LF
  <2>3. /\ LineStart(pos) \in 1..pos.start
        /\ \A j \in (LineStart(pos) + 1)..pos.start : src[j] # L!LF
    <3> HIDE DEF pos
    <3> QED
      BY <2>1, WalkBack
  <2>4. /\ LineEnd(pos) \in pos.end..L!limit
        /\ \A j \in pos.end..(LineEnd(pos) - 1) : src[j] # L!LF
    <3> HIDE DEF pos
    <3> QED
      BY <2>1, WalkOn
  <2>5. \/ pos.start - LineStart(pos) >= BufSize
        \/ pos.end - pos.start >= BufSize
        \/ LineEnd(pos) - pos.end >= BufSize
    BY <1>1, ShownToken DEF parser_print_error
  <2> HIDE DEF pos
  <2>6. CASE pos.start - LineStart(pos) >= BufSize
    <3>1. LineStart(pos) \in 1..L!limit /\ pos.start \in 1..L!limit
      BY <2>1, <2>3
    <3>2. \A k \in (LineStart(pos) + 1)..(pos.start - 1) : src[k] # L!LF
      BY <2>1, <2>3
    <3> QED
      BY <2>6, <3>1, <3>2
  <2>7. CASE pos.end - pos.start >= BufSize
    <3>1. pos.start \in 1..L!limit /\ pos.end \in 1..L!limit
      BY <2>1
    <3>2. \A k \in (pos.start + 1)..(pos.end - 1) : src[k] # L!LF
      BY <2>1, <2>2, <2>7, BufferAssumption
    <3> QED
      BY <2>7, <3>1, <3>2
  <2>8. CASE LineEnd(pos) - pos.end >= BufSize
    <3>1. pos.end \in 1..L!limit /\ LineEnd(pos) \in 1..L!limit
      BY <2>1, <2>4
    <3>2. \A k \in (pos.end + 1)..(LineEnd(pos) - 1) : src[k] # L!LF
      BY <2>1, <2>4
    <3> QED
      BY <2>8, <3>1, <3>2
  <2> QED
    BY <2>5, <2>6, <2>7, <2>8
<1> QED
  BY <1>1, SpecKeepsFrontInv, PTL

-----------------------------------------------------------------------------
(* Counting the LFs of the source.                                         *)

(* Both modules count alike. *)
LEMMA SameCardinality == ASSUME NEW S PROVE LP!Cardinality(S) = Cardinality(S)
BY DEF Cardinality, LP!Cardinality

(* BreaksBefore is the count of the positions' invariant. *)
LEMMA SameCount ==
  ASSUME NEW b \in Nat
  PROVE  /\ BreaksBefore(b) = Cardinality(LP!LFs(src, b)) /\ BreaksBefore(b) \in Nat
<1> DEFINE S == LP!LFs(src, b)
<1>1. IsFiniteSet(S)
  <2>1. S \in SUBSET (1..(b - 1)) /\ IsFiniteSet(1..(b - 1))
    BY FS_Interval DEF LP!LFs
  <2> HIDE DEF S
  <2> QED
    BY <2>1, FS_Subset
<1>2. Cardinality(S) \in Nat
  <2> HIDE DEF S
  <2> QED
    BY <1>1, FS_CardinalityType
<1>3. BreaksBefore(b) = Cardinality(S)
  BY DEF BreaksBefore, LP!LFs, LP!LF, L!LF
<1> QED
  BY <1>2, <1>3

(* Bytes that are no LF are not counted. *)
LEMMA NoLFs ==
  ASSUME NEW b \in Nat \ {0}, NEW c \in Nat, b <= c,
         \A k \in b..(c - 1) : src[k] # L!LF
  PROVE  BreaksBefore(c) = BreaksBefore(b)
<1>1. {j \in 1..(c - 1) : src[j] = L!LF} = {j \in 1..(b - 1) : src[j] = L!LF}
  OBVIOUS
<1> QED
  BY <1>1 DEF BreaksBefore

(* An LF is counted once. *)
LEMMA OneLF ==
  ASSUME NEW b \in Nat \ {0}, src[b] = L!LF
  PROVE  BreaksBefore(b + 1) = BreaksBefore(b) + 1
<1> DEFINE S == {j \in 1..(b - 1) : src[j] = L!LF}
<1>1. {j \in 1..((b + 1) - 1) : src[j] = L!LF} = S \cup {b} /\ b \notin S
  OBVIOUS
<1>2. IsFiniteSet(S)
  <2>1. S \in SUBSET (1..(b - 1)) /\ IsFiniteSet(1..(b - 1))
    BY FS_Interval
  <2> HIDE DEF S
  <2> QED
    BY <2>1, FS_Subset
<1>3. Cardinality(S \cup {b}) = Cardinality(S) + 1
  <2> HIDE DEF S
  <2> QED
    BY <1>1, <1>2, FS_AddElement
<1> QED
  BY <1>1, <1>3 DEF BreaksBefore

(* Where no CR stands alone, no token is a lone CR, and a token's line     *)
(* number counts the LFs before it.                                        *)
LEMMA NumberedByLFs ==
  ASSUME FrontInv, LineShown
  PROVE  /\ pos_array[error.at].line_number
              = BreaksBefore(pos_array[error.at].start) + 1
         /\ LP!LoneCRs(src, tok_array, pos_array, error.at) = {}
<1> DEFINE i == error.at
<1>1. /\ i \in 1..Len(pos_array) /\ LP!Placed(src, tok_array, pos_array, i)
      /\ ~LoneCR
  BY ShownToken DEF LineShown
<1>2. \A j \in 1..Len(pos_array) : LP!Placed(src, tok_array, pos_array, j)
  BY DEF FrontInv, LP!PositionInv, LP!Stored
<1>3. Len(src) \in Nat /\ src[Len(src)] = "NUL" /\ Len(pos_array) \in Nat
  BY DEF FrontInv, LP!LexerInv, LP!TypeOK, LP!ControlOK, LP!NUL
<1>4. LP!LoneCRs(src, tok_array, pos_array, i) = {}
  <2> SUFFICES ASSUME NEW j \in 1..(i - 1), LP!LoneCR(src, tok_array, pos_array, j)
               PROVE  FALSE
    BY DEF LP!LoneCRs
  <2>1. pos_array[j].start \in 1..Len(src)
    BY <1>1, <1>2, <1>3 DEF LP!Placed, LP!Shaped
  <2>2. src[pos_array[j].start] = "CR" /\ src[pos_array[j].start + 1] # "LF"
    BY DEF LP!LoneCR, LP!CR, LP!LF
  <2> QED
    BY <1>1, <1>3, <2>1, <2>2 DEF LoneCR, L!CR, L!LF
<1>5. Cardinality(LP!LoneCRs(src, tok_array, pos_array, i)) = 0
  BY <1>4, FS_EmptySet
<1>6. pos_array[i].start \in 1..Len(src)
  BY <1>1 DEF LP!Placed, LP!Shaped
<1>7. pos_array[i].line_number = 1 + Cardinality(LP!LFs(src, pos_array[i].start)) + 0
  <2>1. LP!Counted(src, tok_array, pos_array, i, pos_array[i].start,
                   pos_array[i].line_number,
                   pos_array[i].start - pos_array[i].character_number)
    BY <1>1 DEF LP!Placed
  <2>2. pos_array[i].line_number
          = 1 + Cardinality(LP!LFs(src, pos_array[i].start))
              + Cardinality(LP!LoneCRs(src, tok_array, pos_array, i))
    <3> HIDE DEF i
    <3> QED
      BY <2>1, SameCardinality DEF LP!Counted
  <2> QED
    BY <1>5, <2>2
<1> DEFINE b == pos_array[i].start
<1>8. BreaksBefore(b) = Cardinality(LP!LFs(src, b)) /\ BreaksBefore(b) \in Nat
  <2>1. b \in Nat
    BY <1>3, <1>6
  <2> HIDE DEF b
  <2> QED
    BY <2>1, SameCount
<1>9. pos_array[i].line_number = BreaksBefore(b) + 1
  BY <1>7, <1>8
<1> QED
  BY <1>4, <1>9

-----------------------------------------------------------------------------
(* Where the line shown begins and ends.                                   *)
LEMMA ShownLine ==
  ASSUME FrontInv, LineShown, NEW pos, pos = pos_array[error.at]
  PROVE  /\ shown.pos = pos /\ shown.from \in 1..pos.start
         /\ shown.from = 1 \/ src[shown.from] = L!LF
         /\ \A j \in (shown.from + 1)..pos.start : src[j] # L!LF
         /\ shown.to \in pos.end..L!limit
         /\ \A j \in pos.end..(shown.to - 1) : src[j] # L!LF
         /\ shown.indent = pos.start - shown.from
<1>1. /\ Len(src) \in Nat /\ L!limit = Len(src) + 1
      /\ pos.start \in 1..Len(src) /\ pos.end \in pos.start..L!limit
  BY ShownShape DEF LineShown
<1>2. /\ shown.pos = pos /\ shown.from = LineStart(pos) /\ shown.to = LineEnd(pos)
      /\ shown.indent = pos.start - LineStart(pos)
  BY ShownToken DEF LineShown, parser_print_error
<1>3. /\ LineStart(pos) \in 1..pos.start
      /\ LineStart(pos) = 1 \/ src[LineStart(pos)] = L!LF
      /\ \A j \in (LineStart(pos) + 1)..pos.start : src[j] # L!LF
  BY <1>1, WalkBack
<1>4. /\ LineEnd(pos) \in pos.end..L!limit
      /\ \A j \in pos.end..(LineEnd(pos) - 1) : src[j] # L!LF
  BY <1>1, WalkOn
<1> QED
  BY <1>2, <1>3, <1>4

(* The break a token is, as a number of LFs from its start to its end.     *)
LEMMA TokensBreaks ==
  ASSUME FrontInv, LineShown, NEW pos, pos = pos_array[error.at],
         src[pos.start] # L!LF
  PROVE  BreaksBefore(pos.end)
           = BreaksBefore(pos.start) + IF src[pos.start] = L!CR THEN 1 ELSE 0
<1>1. /\ Len(src) \in Nat
      /\ pos.start \in 1..Len(src) /\ pos.end \in pos.start..(Len(src) + 1)
  BY ShownShape DEF LineShown
<1>2. src[Len(src)] = "NUL"
  BY DEF FrontInv, LP!LexerInv, LP!TypeOK, LP!ControlOK, LP!NUL
<1>3. CASE src[pos.start] = L!CR
  <2>1. pos.start + 1 \in 1..Len(src) /\ src[pos.start + 1] = L!LF
    BY <1>1, <1>2, <1>3 DEF LineShown, LoneCR, L!CR
  <2>2. \/ src[pos.start] = "LF" /\ pos.end = pos.start + 1
        \/ /\ src[pos.start] = "CR" /\ src[pos.start + 1] = "LF"
           /\ pos.end = pos.start + 2
        \/ /\ src[pos.start] = "CR" /\ src[pos.start + 1] # "LF"
           /\ pos.end = pos.start + 1
        \/ \A k \in {pos.start} \cup (pos.start..(pos.end - 1)) :
             src[k] # "LF" /\ src[k] # "CR"
    BY ShownShape DEF LineShown
  <2>3. pos.end = (pos.start + 1) + 1
    BY <1>1, <1>3, <2>1, <2>2 DEF L!CR, L!LF
  <2> DEFINE a == pos.start
  <2>4. BreaksBefore(a + 1) = BreaksBefore(a)
    <3>1. a \in Nat \ {0} /\ \A k \in a..((a + 1) - 1) : src[k] # L!LF
      BY <1>1, <1>3 DEF L!CR, L!LF
    <3> HIDE DEF a
    <3> QED
      BY <3>1, NoLFs
  <2>5. BreaksBefore((a + 1) + 1) = BreaksBefore(a + 1) + 1
    <3>1. a + 1 \in Nat \ {0} /\ src[a + 1] = L!LF
      BY <1>1, <2>1
    <3> HIDE DEF a
    <3> QED
      BY <3>1, OneLF
  <2> QED
    BY <1>3, <2>3, <2>4, <2>5
<1>4. CASE src[pos.start] # L!CR
  <2>1. \A k \in pos.start..(pos.end - 1) : src[k] # L!LF
    <3>1. \A k \in {pos.start} \cup (pos.start..(pos.end - 1)) :
            src[k] # "LF" /\ src[k] # "CR"
      BY <1>4, ShownShape DEF LineShown, L!CR, L!LF
    <3> QED
      BY <3>1 DEF L!LF
  <2>2. BreaksBefore(pos.end) = BreaksBefore(pos.start)
    <3>1. pos.start \in Nat \ {0} /\ pos.end \in Nat /\ pos.start <= pos.end
      BY <1>1
    <3> QED
      BY <2>1, <3>1, NoLFs
  <2>3. BreaksBefore(pos.start) \in Nat
    BY <1>1, SameCount
  <2> QED
    BY <1>4, <2>2, <2>3
<1> QED
  BY <1>3, <1>4

(***************************************************************************)
(* The line that the two walks of parser_print_error find is the line with *)
(* the number that lex_store_tokpos wrote down, wherever the lexer counted *)
(* its breaks: in lex_parse_linebreak, behind a comment or inside one.  At *)
(* a break token an LF moves the line by one, a CR LF doubles it.          *)
(***************************************************************************)
THEOREM TheLineIsTheErrors == Spec => []ShowsTheErrorsLine
<1>1. ASSUME FrontInv PROVE ShowsTheErrorsLine
  <2> SUFFICES ASSUME LineShown PROVE ShowsTheErrorsLine
    BY DEF ShowsTheErrorsLine
  <2> DEFINE pos == pos_array[error.at]
             from == shown.from
             first == IF src[from] = L!LF THEN from + 1 ELSE from
             B(k) == BreaksBefore(k)
  <2>1. /\ Len(src) \in Nat /\ L!limit = Len(src) + 1
        /\ pos.start \in 1..Len(src) /\ pos.end \in pos.start..L!limit
    BY <1>1, ShownShape DEF LineShown
  <2>2. /\ shown.pos = pos /\ from \in 1..pos.start
        /\ from = 1 \/ src[from] = L!LF
        /\ \A j \in (from + 1)..pos.start : src[j] # L!LF
        /\ shown.to \in pos.end..L!limit
        /\ \A j \in pos.end..(shown.to - 1) : src[j] # L!LF
    BY <1>1, ShownLine
  <2>3. pos.line_number = B(pos.start) + 1 /\ B(pos.start) \in Nat
    <3>1. pos.start \in Nat
      BY <2>1
    <3> QED
      BY <1>1, <3>1, NumberedByLFs, SameCount
  <2>4. B(shown.to) = B(pos.end)
    <3>1. pos.end \in Nat \ {0} /\ shown.to \in Nat /\ pos.end <= shown.to
      BY <2>1, <2>2
    <3> HIDE DEF pos
    <3> QED
      BY <2>2, <3>1, NoLFs
  <2>5. CASE src[pos.start] = L!LF
    <3>1. from = pos.start /\ first = pos.start + 1
      BY <2>1, <2>2, <2>5
    <3>2. B(pos.start + 1) = B(pos.start) + 1
      <4>1. pos.start \in Nat \ {0}
        BY <2>1
      <4> HIDE DEF pos
      <4> QED
        BY <2>5, <4>1, OneLF
    <3>3. pos.end = pos.start + 1
      <4>1. \/ src[pos.start] = "LF" /\ pos.end = pos.start + 1
            \/ src[pos.start] = "CR"
            \/ \A k \in {pos.start} \cup (pos.start..(pos.end - 1)) :
                 src[k] # "LF" /\ src[k] # "CR"
        BY <1>1, ShownShape DEF LineShown
      <4> QED
        BY <2>5, <4>1 DEF L!LF
    <3> HIDE DEF pos, from, first
    <3>4. /\ B(first) + 1 = pos.line_number + 1
          /\ B(shown.to) - B(first) + 1 = 1
      BY <2>3, <2>4, <3>1, <3>2, <3>3
    <3>5. src[pos.start] # L!CR
      BY <2>5 DEF L!LF, L!CR
    <3> QED
      BY <2>2, <2>5, <3>4, <3>5 DEF ShowsTheErrorsLine, AtAnLF, from, first
  <2>6. CASE src[pos.start] # L!LF
    <3>1. first \in 1..pos.start /\ \A k \in first..(pos.start - 1) : src[k] # L!LF
      BY <2>1, <2>2, <2>6
    <3>2. B(pos.start) = B(first)
      <4>1. first \in Nat \ {0} /\ pos.start \in Nat /\ first <= pos.start
        BY <2>1, <3>1
      <4> HIDE DEF pos, first
      <4> QED
        BY <3>1, <4>1, NoLFs
    <3>3. B(pos.end) = B(pos.start) + IF src[pos.start] = L!CR THEN 1 ELSE 0
      BY <1>1, <2>6, TokensBreaks
    <3> HIDE DEF pos, from, first
    <3>4. /\ B(first) + 1 = pos.line_number + 0
          /\ B(shown.to) - B(first) + 1 = IF src[pos.start] = L!CR THEN 2 ELSE 1
      BY <2>3, <2>4, <3>2, <3>3
    <3> QED
      BY <2>2, <2>6, <3>4 DEF ShowsTheErrorsLine, AtAnLF, from, first
  <2> QED
    BY <2>5, <2>6
<1> QED
  BY <1>1, SpecKeepsFrontInv, PTL

-----------------------------------------------------------------------------
(* Where the lines of the lexer begin.                                     *)

(* Where no CR stands alone, a token that ends a line ends behind an LF.   *)
LEMMA EndsFollowLFs ==
  ASSUME FrontInv, LineShown,
         NEW e \in LP!Ends(src, tok_array, pos_array, error.at)
  PROVE  /\ e \in Nat /\ e - 1 \in 1..(pos_array[error.at].start - 1)
         /\ src[e - 1] = L!LF
<1> DEFINE i == error.at
<1>1. /\ i \in 1..Len(pos_array) /\ Len(pos_array) \in Nat /\ Len(src) \in Nat
      /\ LP!Placed(src, tok_array, pos_array, i)
  BY ShownToken DEF LineShown
<1>2. PICK j \in 1..(i - 1) : /\ e = pos_array[j].end
                              /\ LP!Ending(src, tok_array, pos_array, j)
  BY DEF LP!Ends
<1>3. LP!Shaped(src, tok_array[j], pos_array[j])
  BY <1>1 DEF FrontInv, LP!PositionInv, LP!Stored, LP!Placed
<1>4. ~LP!LoneCR(src, tok_array, pos_array, j)
  BY <1>1, NumberedByLFs DEF LP!LoneCRs
<1>5. /\ tok_array[j].token = "LF" /\ (src[e - 1] = "LF" \/ src[e - 1] = "CR")
  BY <1>2 DEF LP!Ending, LP!TOKEN_BREAK, LP!LF, LP!CR
<1> DEFINE a == pos_array[j].start
<1>6. /\ a \in 1..Len(src) /\ e \in a..(Len(src) + 1)
      /\ \/ src[a] = "LF" /\ e = a + 1
         \/ src[a] = "CR" /\ src[a + 1] = "LF" /\ e = a + 2
         \/ src[a] = "CR" /\ src[a + 1] # "LF" /\ e = a + 1
         \/ /\ e = a => tok_array[j].token = "."
            /\ \A k \in {a} \cup (a..(e - 1)) : src[k] # "LF" /\ src[k] # "CR"
  BY <1>2, <1>3 DEF LP!Shaped, LP!Break, LP!NoBreak, LP!LF, LP!CR, LP!DOT
<1>7. ~(src[a] = "CR" /\ src[a + 1] # "LF")
  BY <1>4, <1>5 DEF LP!LoneCR, LP!TOKEN_BREAK, LP!LF, LP!CR
<1>8. e <= pos_array[i].start /\ pos_array[i].start \in 1..Len(src)
  BY <1>1 DEF LP!Placed, LP!Shaped
<1> HIDE DEF a, i
<1>9. e # a
  BY <1>5, <1>6
<1>10. (e - 1) \in a..(e - 1) /\ e > a
  BY <1>1, <1>6, <1>9
<1>11. src[e - 1] = "LF"
  <2>1. CASE e = a + 1 /\ src[a] = "LF"
    <3>1. e - 1 = a
      BY <1>1, <1>6, <2>1
    <3> QED
      BY <2>1, <3>1
  <2>2. CASE e = a + 2 /\ src[a + 1] = "LF"
    <3>1. e - 1 = a + 1
      BY <1>1, <1>6, <2>2
    <3> QED
      BY <2>2, <3>1
  <2>3. CASE \A k \in {a} \cup (a..(e - 1)) : src[k] # "LF" /\ src[k] # "CR"
    BY <1>5, <1>10, <2>3
  <2> QED
    BY <1>6, <1>7, <2>1, <2>2, <2>3
<1> QED
  BY <1>1, <1>6, <1>8, <1>10, <1>11 DEF L!LF, i

(* Behind a break token is where one ends. *)
LEMMA BehindIsAnEnd ==
  BehindABreakToken <=> shown.from + 1 \in LP!Ends(src, tok_array, pos_array, error.at)
BY DEF BehindABreakToken, L!EndsALine, L!TOKEN_BREAK, L!LF, L!CR, LP!Ends, LP!Ending,
       LP!TOKEN_BREAK, LP!LF, LP!CR

(***************************************************************************)
(* The tildes stand under the character whose number lex_store_tokpos      *)
(* wrote down, but for the one column that the walk back goes too far when *)
(* lex_parse_linebreak, and not lex_parse_multi_comment, began the line.   *)
(***************************************************************************)
THEOREM TheMarkIsTheErrors == Spec => []MarksTheCharacter
<1>1. ASSUME FrontInv PROVE MarksTheCharacter
  <2> SUFFICES ASSUME LineShown, ~AtAnLF PROVE MarksTheCharacter
    BY DEF MarksTheCharacter
  <2> DEFINE i == error.at
             E == LP!Ends(src, tok_array, pos_array, i)
             b == pos_array[i].start
             ch == pos_array[i].character_number
             from == shown.from
  <2>1. Len(src) \in Nat /\ b \in 1..Len(src)
    BY <1>1, ShownShape DEF LineShown
  <2>2. /\ shown.pos = pos_array[i] /\ from \in 1..b
        /\ from = 1 \/ src[from] = L!LF
        /\ \A j \in (from + 1)..b : src[j] # L!LF
        /\ shown.indent = b - from
    BY <1>1, ShownLine
  <2>3. src[b] # L!LF
    BY <2>2 DEF AtAnLF
  <2>4. /\ ch \in Nat /\ b - ch \in LP!Begins(src, E, b)
        /\ \A x \in LP!Begins(src, E, b) : x <= b - ch
    <3>1. ch \in Nat
      BY <1>1, ShownToken DEF LineShown, LP!Token_Pos
    <3>2. LP!Counted(src, tok_array, pos_array, i, b, pos_array[i].line_number, b - ch)
      BY <1>1, ShownToken DEF LineShown, LP!Placed
    <3> HIDE DEF b, ch, i
    <3> QED
      BY <3>1, <3>2 DEF LP!Counted
  <2>5. \A e \in E : e \in Nat /\ e - 1 \in 1..(b - 1) /\ src[e - 1] = L!LF
    BY <1>1, EndsFollowLFs
  <2>6. BehindABreakToken <=> from + 1 \in E
    BY BehindIsAnEnd
  <2> HIDE DEF E, b, ch, from, i
  <2>7. LP!Begins(src, E, b)
          = {1} \cup E \cup {p \in 1..(b - 1) : src[p] = L!LF /\ p + 1 \notin E}
    BY DEF LP!Begins, LP!LF, L!LF
  <2>8. shown.indent = ch + IF BehindABreakToken THEN 1 ELSE 0
    <3>1. \A e \in E : e <= from + 1
      BY <2>1, <2>2, <2>5
    <3>2. \A p \in 1..(b - 1) : src[p] = L!LF => p <= from
      BY <2>1, <2>2
    <3>3. CASE from + 1 \in E
      <4>1. from + 1 \in LP!Begins(src, E, b)
        BY <2>7, <3>3
      <4>2. \A x \in LP!Begins(src, E, b) : x <= from + 1
        BY <2>1, <2>2, <2>7, <3>1, <3>2
      <4>3. b - ch = from + 1
        BY <2>1, <2>2, <2>4, <4>1, <4>2
      <4> QED
        BY <2>1, <2>2, <2>4, <2>6, <3>3, <4>3
    <3>4. CASE from + 1 \notin E
      <4>1. from \in LP!Begins(src, E, b)
        BY <2>1, <2>2, <2>3, <2>7, <3>4
      <4>2. \A x \in LP!Begins(src, E, b) : x <= from
        <5>1. \A e \in E : e <= from
          BY <2>1, <2>2, <2>5, <3>1, <3>4
        <5> QED
          BY <2>1, <2>2, <2>7, <3>2, <5>1
      <4>3. b - ch = from
        BY <2>1, <2>2, <2>4, <4>1, <4>2
      <4> QED
        BY <2>1, <2>2, <2>4, <2>6, <3>4, <4>3
    <3> QED
      BY <3>3, <3>4
  <2> QED
    BY <2>2, <2>8 DEF MarksTheCharacter, ch
<1> QED
  BY <1>1, SpecKeepsFrontInv, PTL
=============================================================================
