------------------------------ MODULE WakSyntax ------------------------------
(***************************************************************************)
(* The words of the language and what they are parsed into                 *)
(* (include/wak_lang/token.h and include/wak_lang/ast).  A token is        *)
(* WakLexer's record: a type, a Token_Value, and the text of identifiers   *)
(* and literals.                                                           *)
(***************************************************************************)
EXTENDS WakChars

TokenTypes == {"IDENTIFIER", "TOKEN", "LITERAL_STR", "LITERAL_CHAR",
               "LITERAL_BOOL", "LITERAL_NUM"}
Token == [type : TokenTypes, token : STRING, text : Seq(Char)]

TOKEN_EOF == NUL
TOKEN_BREAK == LF

(* No keyword of the lexer's table is void, so no token is KEYWORD_VOID. *)
DataTypes == {"KEYWORD_BOOL", "KEYWORD_I32", "KEYWORD_F32", "KEYWORD_VOID"}

(* AST_Value and AST_Statement: a type and the member of its union. *)
Value(type, u) == [type |-> type, u |-> u]
NullValue == Value("NULL", << >>)
InstrRef(i) == Value("INSTR_REF", <<i>>)

Return(value) == [type |-> "RETURN", value |-> value]
Assign(dest, value) == [type |-> "ASSIGN", dest |-> dest, value |-> value]
Declare(name, data_type) ==
  [type |-> "DECLARE", name |-> name, data_type |-> data_type]
BlockFunction(name, ret_type) ==
  [type |-> "BLOCK_FUNCTION", name |-> name, ret_type |-> ret_type]
BlockEnd == [type |-> "BLOCK_END"]

statement_is_block(s) == s.type \in {"BLOCK_FUNCTION", "BLOCK_END"}
=============================================================================
