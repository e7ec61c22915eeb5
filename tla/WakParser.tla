------------------------------ MODULE WakParser ------------------------------
(***************************************************************************)
(* The parser (src/parser.c).  parse calls parser_next_statement until it  *)
(* returns an error; each action below is one such call with everything it *)
(* calls, the check for the ';' and parse's append.  No statement leaves   *)
(* the parser: parse returns an empty Parsed_Module in every case.         *)
(*                                                                         *)
(* Tokens are WakLexer's.  tok_index and the indices into `statements' are *)
(* one larger than in C; an index a statement holds (dest, reference) is   *)
(* the C index.                                                            *)
(***************************************************************************)
EXTENDS WakSyntax

CONSTANTS
  Streams,     (* what lexetize handed over: tokens with an EOF at the end *)
  digit_val,   (* the value of a digit                                     *)
  UIntMod,     (* 2^32: int_dig and frac_dig are unsigned int              *)
  ULongMod,    (* 2^64: int_val and frac_val are unsigned long             *)
  Leftovers    (* what unwritten memory behind the statements may hold     *)

ASSUME StreamAssumption ==
  \A s \in Streams :
    /\ s \in Seq(Token)
    /\ Len(s) > 0
    /\ s[Len(s)].type = "TOKEN" /\ s[Len(s)].token = TOKEN_EOF

ASSUME NumberAssumption ==
  /\ digit_val \in [Digit -> 0..9]
  /\ UIntMod \in Nat \ {0}
  /\ ULongMod \in Nat \ {0}

VARIABLES
  tokens,
  tok_index,
  statements,
  error,       (* the error parser_print_error was called with             *)
  pc           (* "parse", "return" or "assert_failed"                     *)

vars == <<tokens, tok_index, statements, error, pc>>
-----------------------------------------------------------------------------
NoError == [code |-> "NONE", msg |-> "", at |-> 0]

Is(i, value) == tokens[i].type = "TOKEN" /\ tokens[i].token = value
IsToken(i) == tokens[i].type = "TOKEN"
IsIdentifier(i) == tokens[i].type = "IDENTIFIER"
IsDataType(i) == IsToken(i) /\ tokens[i].token \in DataTypes
-----------------------------------------------------------------------------
(***************************************************************************)
(* Expressions.  The result says what value the expression has, at which   *)
(* token the parser then is, and the error emitted there, if any.  A null  *)
(* value without an error makes the caller drop its statement silently.    *)
(***************************************************************************)
Result(value, at) == [value |-> value, at |-> at, code |-> "NONE", msg |-> ""]
ResultError(code, msg, at) ==
  [value |-> NullValue, at |-> at, code |-> code, msg |-> msg]

(***************************************************************************)
(* parser_expr_literal_decimal: the four counters after i characters.      *)
(* int_dig starts at 0 and stays there; a dot arms frac_dig, and a second  *)
(* one, or a letter, is "bad".                                             *)
(***************************************************************************)
CountStep(s, c) ==
  IF s.bad # "none" THEN s
  ELSE IF c = DOT
  THEN IF s.frac_dig = 0 THEN [s EXCEPT !.frac_dig = 1]
       ELSE [s EXCEPT !.bad = "multiple decimal points"]
  ELSE IF c \notin Digit THEN [s EXCEPT !.bad = "invalid character"]
  ELSE IF s.frac_dig > 0
  THEN [s EXCEPT !.frac_val = (@ * s.frac_dig + digit_val[c]) % ULongMod,
                 !.frac_dig = (@ * 10) % UIntMod]
  ELSE [s EXCEPT !.int_val = (@ * s.int_dig + digit_val[c]) % ULongMod,
                 !.int_dig = (@ * 10) % UIntMod]

Counts == [int_val : Nat, int_dig : Nat, frac_val : Nat, frac_dig : Nat,
           bad : {"none", "multiple decimal points", "invalid character"}]

Counters(str, int_dig_start) ==
  LET counted(c) == [s \in Counts |-> CountStep(s, c)]
      after[i \in 0..Len(str)] ==
        IF i = 0
        THEN [int_val |-> 0, int_dig |-> int_dig_start,
              frac_val |-> 0, frac_dig |-> 0, bad |-> "none"]
        ELSE counted(str[i])[after[i - 1]]
  IN  after[Len(str)]

parser_expr_literal_decimal(i) ==
  LET s == Counters(tokens[i].text, 0)
  IN  IF s.bad # "none"
      THEN ResultError("INVALID_SYNTAX", s.bad, i + 1)
      ELSE IF s.frac_dig = 0
      THEN Result(Value("CONST_I32", <<s.int_val>>), i + 1)
      ELSE Result(Value("CONST_F32", <<s.int_val, s.frac_val, s.frac_dig>>), i + 1)

parser_expr_literal_num(i) ==
  LET str == tokens[i].text
      prefixed(c) == /\ Len(str) > 1
                     /\ str[1] \in Digit /\ digit_val[str[1]] = 0
                     /\ str[2] = c
  IN  IF prefixed("x") THEN ResultError("UNIMPLEMENTED", "hex literal", i)
      ELSE IF prefixed("b") THEN ResultError("UNIMPLEMENTED", "binary literal", i)
      ELSE parser_expr_literal_decimal(i)

(* The search runs from one past the last statement down to the second. *)
Nearest_Farthest(is) == CHOOSE i \in is : \A j \in is : j >= i  \* mutant

Nearest(is) == CHOOSE i \in is : \A j \in is : j <= i

parser_expr_var(i, sts, leftover) ==
  LET slots == Append(sts, leftover)
      found == {j \in 1..Len(sts) :
                  /\ slots[j + 1].type = "DECLARE"
                  /\ slots[j + 1].name = tokens[i].text}
  IN  IF found = {} THEN Result(NullValue, i)
      ELSE Result(InstrRef(Nearest(found)), i + 1)

(* A call is not parsed: parser_expr_call returns a null value. *)
parser_expr_iden(i, sts, leftover) ==
  IF Is(i + 1, "(") THEN Result(NullValue, i)
  ELSE IF Is(i + 1, ";") THEN parser_expr_var(i, sts, leftover)
  ELSE ResultError("UNIMPLEMENTED", "identifier expression", i)

parser_expr(i, sts, leftover) ==
  CASE tokens[i].type = "LITERAL_NUM" -> parser_expr_literal_num(i)
    [] tokens[i].type \in {"LITERAL_STR", "LITERAL_CHAR", "LITERAL_BOOL"} ->
         ResultError("UNIMPLEMENTED", "literal type", i)
    [] IsIdentifier(i) -> parser_expr_iden(i, sts, leftover)
    [] OTHER -> Result(NullValue, i)
-----------------------------------------------------------------------------
Init ==
  /\ tokens \in Streams
  /\ tok_index = 1
  /\ statements = << >>
  /\ error = NoError
  /\ pc = "parse"

(* parser_emit_error at the token `at': parse returns. *)
EmitError(code, msg, at) ==
  /\ error' = [code |-> code, msg |-> msg, at |-> at]
  /\ tok_index' = at
  /\ pc' = "return"

Reject(code, msg, at) == EmitError(code, msg, at) /\ UNCHANGED statements

(* The statements now are sts, the next token is `at'. *)
Proceed(sts, at) ==
  /\ statements' = sts
  /\ tok_index' = at
  /\ pc' = IF at = tok_index THEN "assert_failed" ELSE "parse"
  /\ UNCHANGED error

(***************************************************************************)
(* parser_next_statement with a statement s read up to `at': blocks need   *)
(* no ';', others do.  sts are the statements, with what the call itself   *)
(* has appended.                                                           *)
(***************************************************************************)
Complete(sts, s, at) ==
  \/ statement_is_block(s) /\ Proceed(Append(sts, s), at)
  \/ ~statement_is_block(s) /\ Is(at, ";") /\ Proceed(Append(sts, s), at + 1)
  \/ /\ ~statement_is_block(s)
     /\ ~Is(at, ";")
     /\ EmitError("INVALID_SYNTAX", "expected a semi colon", at)
     /\ statements' = sts

DestIndex_AfterAppend == Len(statements) + 1  \* mutant

DestIndex == Len(statements)

(* A return, or the assignment to the declaration appended just before. *)
Made(type, value) ==
  IF type = "RETURN" THEN Return(value) ELSE Assign(DestIndex, value)

(* The statement of that type whose expression is at token `at'. *)
CompleteWith(type, sts, at) ==
  \E leftover \in Leftovers :
    LET e == parser_expr(at, sts, leftover)
    IN  \/ /\ e.code # "NONE"
           /\ EmitError(e.code, e.msg, e.at)
           /\ statements' = sts
        \/ /\ e.code = "NONE" /\ e.value = NullValue
           /\ Proceed(sts, e.at)
        \/ /\ e.code = "NONE" /\ e.value # NullValue
           /\ Complete(sts, Made(type, e.value), e.at)

Parsing == pc = "parse" /\ UNCHANGED tokens
-----------------------------------------------------------------------------
AfterBreak_Kept == tok_index  \* mutant

AfterBreak == tok_index + 1

parser_skip_break ==
  /\ Parsing
  /\ Is(tok_index, TOKEN_BREAK)
  /\ Proceed(statements, AfterBreak)

parser_return ==
  /\ Parsing
  /\ Is(tok_index, "KEYWORD_RETURN")
  /\ CompleteWith("RETURN", statements, tok_index + 1)

(* "keep a stack of blocks": so far any statement will do. *)
parser_end_block ==
  /\ Parsing
  /\ Is(tok_index, "}")
  /\ \/ statements # << >> /\ Complete(statements, BlockEnd, tok_index + 1)
     \/ /\ statements = << >>
        /\ Reject("INVALID_SYNTAX", "unexpected '}'", tok_index)

(* The first token from i on that is no line break. *)
SkipBreaks(i) ==
  CHOOSE j \in i..Len(tokens) :
    /\ ~Is(j, TOKEN_BREAK)
    /\ \A k \in i..(j - 1) : Is(k, TOKEN_BREAK)

AfterType_OnePast(i) == i + 2  \* mutant

(* The token behind the return type, known or not. *)
AfterType(i) == IF Is(i, "{") THEN i ELSE i + 1

ReturnType(i) == IF Is(i, "{") THEN "KEYWORD_VOID" ELSE tokens[i].token

(* The return type is at i, the name before the parentheses. *)
FunctionBody(name, i) ==
  \/ /\ IsIdentifier(i)
     /\ Reject("UNIMPLEMENTED", "only i32, f32, bool or void", i)
  \/ /\ ~IsIdentifier(i) /\ ~IsToken(i)
     /\ Reject("INVALID_SYNTAX", "expected token i32, f32, bool, or void", i)
  \/ /\ IsToken(i) /\ ~IsDataType(i) /\ ~Is(i, "{")
     /\ Reject("INVALID_SYNTAX", "expected a type", AfterType(i))
  \/ /\ IsDataType(i) \/ Is(i, "{")
     /\ LET b == SkipBreaks(AfterType(i))
        IN  \/ /\ ~Is(b, "{")
               /\ Reject("INVALID_SYNTAX", "missing '{' after func decl", b)
            \/ /\ Is(b, "{")
               /\ Complete(statements, BlockFunction(name, ReturnType(i)), b + 1)

parser_func_decl ==
  LET i == tok_index
  IN  /\ Parsing
      /\ Is(i, "KEYWORD_FUNC")
      /\ \/ /\ ~IsIdentifier(i + 1)
            /\ Reject("INVALID_SYNTAX", "missing function name", i + 1)
         \/ /\ IsIdentifier(i + 1) /\ ~Is(i + 2, "(")
            /\ Reject("INVALID_SYNTAX", "missing '(' after func name", i + 2)
         \/ /\ IsIdentifier(i + 1) /\ Is(i + 2, "(") /\ IsIdentifier(i + 3)
            /\ Reject("UNIMPLEMENTED", "function arguments", i + 3)
         \/ /\ IsIdentifier(i + 1) /\ Is(i + 2, "(")
            /\ ~IsIdentifier(i + 3) /\ ~Is(i + 3, ")")
            /\ Reject("INVALID_SYNTAX", "missing ')' after function", i + 3)
         \/ /\ IsIdentifier(i + 1) /\ Is(i + 2, "(") /\ Is(i + 3, ")")
            /\ FunctionBody(tokens[i + 1].text, i + 4)

(* A declaration that has read its ';' still has to find another one. *)
parser_var_decl ==
  LET i == tok_index
      decl == Declare(tokens[i].text, tokens[i + 2].token)
  IN  /\ Parsing
      /\ IsIdentifier(i) /\ Is(i + 1, ":")
      /\ \/ /\ ~IsToken(i + 2)
            /\ Reject("INVALID_SYNTAX", "expected token", i + 2)
         \/ /\ Is(i + 2, "=")
            /\ Reject("UNIMPLEMENTED", "type inference", i + 2)
         \/ /\ IsToken(i + 2) /\ ~Is(i + 2, "=") /\ ~IsDataType(i + 2)
            /\ Reject("INVALID_SYNTAX", "not a type", i + 2)
         \/ /\ IsDataType(i + 2) /\ Is(i + 3, ";")
            /\ Complete(statements, decl, i + 4)
         \/ /\ IsDataType(i + 2) /\ ~Is(i + 3, ";") /\ ~Is(i + 3, "=")
            /\ Reject("INVALID_SYNTAX", "expected ';' or '='", i + 3)
         \/ /\ IsDataType(i + 2) /\ Is(i + 3, "=")
            /\ CompleteWith("ASSIGN", Append(statements, decl), i + 4)

Operations == {"(", "=", ".", "{", "[", "*", "/", "+", "-"}

(* What an identifier can begin but a declaration; a call and an           *)
(* assignment report themselves, the other operations are reported here.   *)
parser_identifier ==
  LET i == tok_index
  IN  /\ Parsing
      /\ IsIdentifier(i)
      /\ \/ /\ ~IsToken(i + 1)
            /\ Reject("INVALID_SYNTAX", "invalid operation on token", i)
         \/ /\ IsToken(i + 1) /\ tokens[i + 1].token \in Operations
            /\ Reject("UNIMPLEMENTED", "operation", i)
         \/ /\ IsToken(i + 1) /\ tokens[i + 1].token \notin Operations \cup {":"}
            /\ Reject("INVALID_SYNTAX", "unknown operation", i)

(* parser_eof, parser_type_decl and parser_token's default. *)
parser_token ==
  LET i == tok_index
  IN  /\ Parsing
      /\ \/ /\ Is(i, TOKEN_EOF)
            /\ Reject("UNIMPLEMENTED", "parser_eof", i)
         \/ /\ Is(i, "KEYWORD_TYPE")
            /\ Reject("UNIMPLEMENTED", "parser_type", i)
         \/ /\ IsToken(i)
            /\ tokens[i].token \notin {"KEYWORD_FUNC", "KEYWORD_TYPE", "}",
                                       "KEYWORD_RETURN", TOKEN_EOF, TOKEN_BREAK}
            /\ Reject("UNSUPPORTED", "unknown token", i)

literal_by_itself ==
  /\ Parsing
  /\ ~IsToken(tok_index) /\ ~IsIdentifier(tok_index)
  /\ Reject("INVALID_SYNTAX", "cannot have literal by itself", tok_index)

parser_next_statement ==
  \/ parser_skip_break \/ parser_return \/ parser_end_block
  \/ parser_func_decl \/ parser_var_decl
  \/ parser_identifier \/ parser_token \/ literal_by_itself

Terminating == pc # "parse" /\ UNCHANGED vars

Next == parser_next_statement \/ Terminating

Spec == Init /\ [][Next]_vars

(* parse is a loop in a single thread: it is run on until it returns. *)
FairSpec == Spec /\ WF_vars(parser_next_statement)
-----------------------------------------------------------------------------
Values == [type : {"INSTR_REF", "CONST_I32", "CONST_F32"}, u : Seq(Nat)]

StatementOK(s) ==
  CASE s.type = "RETURN"         -> s.value \in Values
    [] s.type = "ASSIGN"         -> s.dest \in Nat /\ s.value \in Values
    [] s.type = "DECLARE"        -> s.data_type \in DataTypes
    [] s.type = "BLOCK_FUNCTION" -> s.ret_type \in DataTypes
    [] OTHER                     -> s = BlockEnd

TypeOK ==
  /\ tok_index \in 1..(Len(tokens) + 1)
  /\ \A p \in DOMAIN statements : StatementOK(statements[p])
  /\ pc \in {"parse", "return", "assert_failed"}
  /\ error.at \in 0..(Len(tokens) + 1)
  /\ error = NoError <=> pc # "return"

(***************************************************************************)
(* parse's assertion "parser did not progress" never fails: whatever a     *)
(* call drops or skips, it consumes a token or reports an error.           *)
(***************************************************************************)
ParserProgresses == pc # "assert_failed"

(***************************************************************************)
(* A NUL in the file gives an EOF token in the middle, and nothing parses  *)
(* past the first EOF.  Every error is printed at a token, but for one: a  *)
(* function whose return type is missing at an EOF is reported one token   *)
(* later, behind the arrays if that EOF was the last token.                *)
(***************************************************************************)
StopsAtTheFirstEof ==
  \A k \in 1..(tok_index - 1) :
    Is(k, TOKEN_EOF) => /\ pc = "return"
                        /\ error.msg = "expected a type"
                        /\ k = tok_index - 1
                        /\ Is(k - 1, ")")

(***************************************************************************)
(* What a statement refers to was declared before it: an assignment        *)
(* belongs to the declaration in front of it, and a variable's reference   *)
(* is an earlier declaration.  If unwritten memory looked like one, it is  *)
(* the index the statement itself was going to have.                       *)
(***************************************************************************)
ReferencesPointBack ==
  \A p \in DOMAIN statements :
    LET s == statements[p]
        declared(i) == i + 1 \in 1..(p - 1) /\ statements[i + 1].type = "DECLARE"
    IN  /\ s.type = "ASSIGN" => s.dest = p - 2 /\ declared(s.dest)
        /\ s.type \in {"ASSIGN", "RETURN"} /\ s.value.type = "INSTR_REF" =>
             LET i == s.value.u[1]
             IN  declared(i) \/ (i = p - 1 /\ \E x \in Leftovers : x.type = "DECLARE")

(***************************************************************************)
(* What the sources say and the code does not do.                          *)
(*                                                                         *)
(* "expected ';' or '='": a ';' ends a declaration, so none is missing     *)
(* right behind one.                                                       *)
(***************************************************************************)
SemicolonEndsADeclaration ==
  error.msg = "expected a semi colon" => ~Is(error.at - 1, ";")

(* "A block has a new variable context": no reference reaches into the     *)
(* block of a function that has ended.                                     *)
ReferencesStayInTheirBlock ==
  LET Among(type, i, j) == {q \in i..j : statements[q].type = type}
      Inside(i) == Among("BLOCK_FUNCTION", 1, i) # {} /\ Among("BLOCK_END", 1, i) = {}
  IN  \A p \in DOMAIN statements :
        LET s == statements[p]
        IN  s.type \in {"ASSIGN", "RETURN"} /\ s.value.type = "INSTR_REF" =>
              LET i == s.value.u[1] + 1    \* the declaration
              IN  Inside(i) /\ Among("BLOCK_END", i, p) # {} =>
                    Among("BLOCK_FUNCTION", i, p) # {}

(* "decimal or float": a literal of digits has their value in base ten. *)
DecimalsAreDecimal ==
  \A p \in DOMAIN tokens :
    /\ tokens[p].type = "LITERAL_NUM"
    /\ Len(tokens[p].text) = 2
    /\ \A i \in 1..2 : tokens[p].text[i] \in Digit
    /\ pc = "parse" /\ p < tok_index
    => \E q \in DOMAIN statements :
         /\ statements[q].type \in {"ASSIGN", "RETURN"}
         /\ statements[q].value.type = "CONST_I32"
         /\ statements[q].value.u[1] = 10 * digit_val[tokens[p].text[1]]
                                         + digit_val[tokens[p].text[2]]
=============================================================================
