------------------------------ MODULE WakChars ------------------------------
(* The classes of characters that src/lexer.c tells apart. *)
EXTENDS Integers, Sequences

CONSTANTS
  Letter,     (* identifier-start characters: a-z, A-Z and _               *)
  Digit,      (* 0-9                                                       *)
  Punct       (* any other character: lexer_next's default case            *)

NUL == "NUL"
SP == "SP"      \* a blank or a tab
LF == "LF"
CR == "CR"
DQ == "DQ"      \* double quote
SQ == "SQ"      \* single quote
DOT == "."
SLASH == "/"
STAR == "*"

Special == {NUL, SP, LF, CR, DQ, SQ, DOT, SLASH, STAR}
Char == Letter \cup Digit \cup Punct \cup Special

(* is_identifier_character *)
IdentChar == Letter \cup Digit
(* what lex_parse_num_literal runs over *)
NumChar == Digit \cup {DOT, "x", "b"}
(* what ends a line comment and an unclosed literal *)
LineEnd == {LF, CR, NUL}

(* The classes are disjoint, and x and b are letters. *)
ASSUME CharAssumption ==
  /\ Letter \cap Digit = {}
  /\ Letter \cap Punct = {}
  /\ Digit \cap Punct = {}
  /\ (Letter \cup Digit \cup Punct) \cap Special = {}
  /\ {"x", "b"} \subseteq Letter
=============================================================================
