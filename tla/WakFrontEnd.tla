---------------------------- MODULE WakFrontEnd ----------------------------
(***************************************************************************)
(* From a source to a reported error: lexetize hands its Token_Module to   *)
(* parse, and parser_print_error goes back from a token to the text the    *)
(* lexer cut it from, to show the line the error is in.  WakLexer and      *)
(* WakParser are the parts, on one source.  (main has the call of parse    *)
(* commented out; WakProgram is what main does.)                           *)
(***************************************************************************)
EXTENDS Integers, Sequences, FiniteSets

CONSTANTS
  Letter, Digit, Punct, Sources, tok_map, InitCap, UMod, MemLimit,
  digit_val, UIntMod, ULongMod, Leftovers,
  BufSize      (* size of parser_print_error's buffer (4096)               *)

(* The buffer holds more than a line break. *)
ASSUME BufferAssumption == BufSize \in Nat /\ BufSize > 2

VARIABLES
  src, pc, ptr, line_start, line_num, token_pos, depth, tok_array, pos_array,
  tok_capacity, tok_alloc, reach,
  tokens, tok_index, statements, error, parse_pc,
  shown        (* what parser_print_error has printed                      *)

L == INSTANCE WakLexer
P == INSTANCE WakParser WITH pc <- parse_pc, Streams <- {}

(* The lexer's own assumptions. *)
ASSUME LexerAssumption ==
  L!CharAssumption /\ L!SourceAssumption /\ L!TokMapAssumption /\ L!BoundAssumption

lexer_vars == <<src, pc, ptr, line_start, line_num, token_pos, depth, tok_array,
                pos_array, tok_capacity, tok_alloc, reach>>
parser_vars == <<tokens, tok_index, statements, error, parse_pc>>
vars == <<lexer_vars, parser_vars, shown>>

Nothing == [outcome |-> "nothing"]
-----------------------------------------------------------------------------
(* The walk back from the token stops on the LF before its line.  On a     *)
(* token that is an LF it stops at once.                                   *)
LineStart(pos) ==
  CHOOSE k \in 1..pos.start : /\ k = 1 \/ src[k] = L!LF
                              /\ \A j \in (k + 1)..pos.start : src[j] # L!LF

LineEnd_ToTheEnd(pos) == L!limit  \* mutant

LineEnd(pos) ==
  CHOOSE k \in pos.end..L!limit : /\ k = L!limit \/ src[k] = L!LF
                                  /\ \A j \in pos.end..(k - 1) : src[j] # L!LF

(***************************************************************************)
(* parser_print_error at token i: the text from `from' to `to' and, below  *)
(* it, a blank or a tab for every byte that the walk back has passed.      *)
(* Behind the positions there is memory that nobody has written.           *)
(***************************************************************************)
parser_print_error(i) ==
  IF i \notin DOMAIN pos_array THEN [outcome |-> "wild"]
  ELSE LET pos == pos_array[i]
           sizes == {pos.start - LineStart(pos), pos.end - pos.start,
                     LineEnd(pos) - pos.end}
       IN  IF \E size \in sizes : size >= BufSize
           THEN [outcome |-> "assert_failed"]
           ELSE [outcome |-> "line", pos |-> pos, from |-> LineStart(pos),
                 to |-> LineEnd(pos), indent |-> pos.start - LineStart(pos)]
-----------------------------------------------------------------------------
Init ==
  /\ L!Init
  /\ tokens = << >> /\ tok_index = 1 /\ statements = << >>
  /\ error = P!NoError
  /\ parse_pc = "waiting"
  /\ shown = Nothing

lexetize ==
  /\ pc \notin L!Stopped
  /\ L!Next
  /\ UNCHANGED <<parser_vars, shown>>

hand_over ==
  /\ pc = "return" /\ parse_pc = "waiting"
  /\ parse_pc' = "parse"
  /\ tokens' = tok_array
  /\ UNCHANGED <<lexer_vars, tok_index, statements, error, shown>>

(* An emitted error is printed by the call that emits it. *)
parse ==
  /\ P!parser_next_statement
  /\ shown' = IF error' = error THEN shown ELSE parser_print_error(error'.at)
  /\ UNCHANGED lexer_vars

Work == lexetize \/ hand_over \/ parse

Terminating == /\ pc \in {"oom", "overflow"} \/ parse_pc \in {"return", "assert_failed"}
               /\ UNCHANGED vars

Next == Work \/ Terminating

Spec == Init /\ [][Next]_vars

(* Both run to their end in the one thread there is. *)
FairSpec == Spec /\ WF_vars(Work)
-----------------------------------------------------------------------------
(* A CR that no LF follows is a break for the lexer and text for the walk. *)
LoneCR == \E i \in 1..(Len(src) - 1) : src[i] = L!CR /\ src[i + 1] # L!LF

LineShown == shown.outcome = "line" /\ ~LoneCR

AtAnLF == src[shown.pos.start] = L!LF

(***************************************************************************)
(* The line shown is the line whose number is printed, the lexer's count   *)
(* of breaks and the parser's walk over the bytes agreeing wherever the    *)
(* breaks are.  An error at a break token is the exception: an LF shows    *)
(* the line behind it instead, a CR LF that line as well.                  *)
(***************************************************************************)
BreaksBefore(k) == Cardinality({j \in 1..(k - 1) : src[j] = L!LF})

ShowsTheErrorsLine ==
  LineShown =>
    LET first == IF src[shown.from] = L!LF THEN shown.from + 1 ELSE shown.from
        number == BreaksBefore(first) + 1
        lines == BreaksBefore(shown.to) - BreaksBefore(first) + 1
        AtACRLF == src[shown.pos.start] = L!CR
    IN  /\ number = shown.pos.line_number + (IF AtAnLF THEN 1 ELSE 0)
        /\ lines = IF AtACRLF THEN 2 ELSE 1

(***************************************************************************)
(* The tildes below the text stand at the character number printed in      *)
(* front of it on the first line and behind a break inside a comment, and  *)
(* one further right behind a break that is a token.                       *)
(***************************************************************************)
BehindABreakToken ==
  \E j \in 1..(error.at - 1) : L!EndsALine(j) /\ pos_array[j].end = shown.from + 1

MarksTheCharacter ==
  LineShown /\ ~AtAnLF =>
    shown.indent = shown.pos.character_number + (IF BehindABreakToken THEN 1 ELSE 0)

(***************************************************************************)
(* Nothing but a line as long as the buffer makes the assertion about the  *)
(* sizes fail, whichever token of whichever line the error is at.          *)
(***************************************************************************)
OnlyLongLinesFailTheAssertion ==
  shown.outcome = "assert_failed" =>
    \E i, j \in 1..L!limit : /\ j - i >= BufSize
                             /\ \A k \in (i + 1)..(j - 1) : src[k] # L!LF

(***************************************************************************)
(* Every source without a bare dot, which would keep the lexer appending,  *)
(* comes to the one error that parse ends with, at the latest at the EOF   *)
(* that the lexer gives the first NUL, and it is shown, but for a line too *)
(* long and a missing type at the end of the file.                         *)
(***************************************************************************)
EndsInOneReport ==
  <>[](/\ parse_pc = "return"
       /\ shown # Nothing
       /\ shown.outcome = "wild" => error.msg = "expected a type"
       /\ error.at <= 1 + CHOOSE i \in DOMAIN tokens :
                            /\ P!Is(i, P!TOKEN_EOF)
                            /\ \A j \in 1..(i - 1) : ~P!Is(j, P!TOKEN_EOF))
=============================================================================
