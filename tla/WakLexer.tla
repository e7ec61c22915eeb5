------------------------------ MODULE WakLexer ------------------------------
(***************************************************************************)
(* The wak lexer (src/lexer.c), a tail-call machine: every function does   *)
(* some work on the source and ends in a tail call.  `pc' is the function  *)
(* about to run; each action below is one function, from its first line to *)
(* its tail call.  The appending chain lex_append_tok ->                   *)
(* lex_expand_assign_tok -> lex_assign_tok runs inside the action that     *)
(* starts it.                                                              *)
(*                                                                         *)
(* The source is a sequence of character classes whose last element is the *)
(* NUL that main counts in (limit = data + length + 1).  ptr and           *)
(* line_start are indices into it, 1 being data_start, so that limit is    *)
(* Len(src) + 1.                                                           *)
(***************************************************************************)
EXTENDS WakChars, FiniteSets

CONSTANTS
  Sources,    (* the sources the lexer is run on                           *)
  tok_map,    (* the keyword table in the order const_str_map_new left it: *)
              (* a sequence of [key |-> word, value |-> Token_Value]       *)
  InitCap,    (* capacity of the first two arrays (10)                     *)
  UMod,       (* 2^32: tok_count and tok_capacity are uint32_t             *)
  MemLimit    (* the most elements a realloc can provide                   *)

(***************************************************************************)
(* Tokens: a Token_Type and the member of the union it selects, a value    *)
(* (Token_Value, bool) or the copied text.                                 *)
(***************************************************************************)
TOKEN_EOF == NUL
TOKEN_BREAK == LF
TOKEN_DOT == DOT
TOKEN_SLASH == SLASH

KeywordValues == {tok_map[i].value : i \in DOMAIN tok_map}
BoolKeyword == {"KEYWORD_TRUE", "KEYWORD_FALSE"}
TokenValues == Char \cup KeywordValues \cup {"none", "true"}
TokenTypes == {"IDENTIFIER", "TOKEN", "LITERAL_STR", "LITERAL_CHAR",
               "LITERAL_BOOL", "LITERAL_NUM"}
Token == [type : TokenTypes, token : TokenValues, text : Seq(Char)]
Token_Pos == [line_number : Nat, character_number : Nat,
              start : Nat, end : Nat]

ValueToken(v) == [type |-> "TOKEN", token |-> v, text |-> << >>]
BoolToken == [type |-> "LITERAL_BOOL", token |-> "true", text |-> << >>]
TextToken(type, text) == [type |-> type, token |-> "none", text |-> text]

(* lexetize is given whole files, and main counts the NUL in. *)
ASSUME SourceAssumption ==
  \A s \in Sources : /\ s \in Seq(Char)
                     /\ Len(s) > 0
                     /\ s[Len(s)] = NUL
                     /\ 2 * Len(s) <= UMod  \* fd_size returns an int

(* The values of keywords begin above 256 (token.h). *)
ASSUME TokMapAssumption ==
  /\ tok_map \in Seq([key : Seq(IdentChar), value : STRING])
  /\ KeywordValues \cap Char = {}

ASSUME BoundAssumption ==
  /\ InitCap \in Nat \ {0}
  /\ UMod \in Nat
  /\ InitCap < UMod
  /\ MemLimit \in Nat
  /\ InitCap <= MemLimit
-----------------------------------------------------------------------------
VARIABLES
  src,           (* the bytes from data_start to limit                     *)
  pc,            (* the function about to run, or how the run ended        *)
  ptr,           (* the next byte                                          *)
  line_start,
  line_num,
  token_pos,     (* position of the token being lexed                      *)
  depth,         (* nesting of the block comment being skipped             *)
  tok_array,     (* the tokens written; tok_count is its length            *)
  pos_array,     (* their positions                                        *)
  tok_capacity,  (* what lex_append_tok compares tok_count with            *)
  tok_alloc,     (* elements both arrays really have room for              *)
  reach          (* history: the furthest index read                       *)

vars == <<src, pc, ptr, line_start, line_num, token_pos, depth, tok_array,
          pos_array, tok_capacity, tok_alloc, reach>>

tok_count == Len(tok_array)
limit == Len(src) + 1

Handlers == {"lex_parse_eof", "lex_parse_identifier", "lex_parse_dot",
             "lex_parse_num_literal", "lex_parse_string_literal",
             "lex_parse_char_literal", "lex_parse_slash",
             "lex_parse_single_comment", "lex_parse_multi_comment",
             "lex_parse_linebreak"}
Stopped == {"return", "oom", "overflow"}

Furthest(i) == IF i > reach THEN i ELSE reach

(* Where a scan that starts at p and runs over the characters of S stops. *)
ScanStops(p, S) == {q \in p..Len(src) : /\ src[q] \notin S
                                        /\ \A r \in p..(q-1) : src[r] \in S}

(* strcmp_len(key, word) = 0: the scan ends with the word, not the key. *)
StrcmpLenIsZero(key, word) ==
  /\ Len(word) <= Len(key)
  /\ \A i \in 1..Len(word) : key[i] = word[i]

(* The indices at which const_str_map_find_len may return. *)
FindLen(word) ==
  {i \in DOMAIN tok_map : /\ StrcmpLenIsZero(tok_map[i].key, word)
                          /\ \A j \in 1..(i-1) :
                               ~StrcmpLenIsZero(tok_map[j].key, word)}
-----------------------------------------------------------------------------
(* lex_state_init and the call of lex_dispatch in lexetize *)
Init ==
  /\ src \in Sources
  /\ pc = "lex_dispatch"
  /\ ptr = 1
  /\ line_start = 1
  /\ line_num = 1
  /\ token_pos = [line_number |-> 0, character_number |-> 0,
                  start |-> 0, end |-> 0]
  /\ depth = 0
  /\ tok_array = << >>
  /\ pos_array = << >>
  /\ tok_capacity = InitCap
  /\ tok_alloc = InitCap
  /\ reach = 0

ArraysFull_OneLate == tok_count > tok_capacity  \* mutant

ArraysFull == tok_count >= tok_capacity

(***************************************************************************)
(* Append tok, whose text ends before q, at position pos, and go on        *)
(* lexing at q.  realloc's result is stored through unchecked ("oom"), and *)
(* an element written past the block ends the run too ("overflow").        *)
(***************************************************************************)
lex_append_tok(tok, pos, q) ==
  LET full  == ArraysFull
      alloc == IF full THEN 2 * tok_capacity ELSE tok_alloc
  IN  /\ ptr' = q
      /\ token_pos' = [pos EXCEPT !.end = q]
      /\ tok_alloc' = alloc
      /\ tok_capacity' = IF full THEN (2 * tok_capacity) % UMod
                                 ELSE tok_capacity
      /\ IF alloc > MemLimit \/ tok_count >= alloc
         THEN /\ pc' = IF alloc > MemLimit THEN "oom" ELSE "overflow"
              /\ UNCHANGED <<tok_array, pos_array>>
         ELSE /\ pc' = "lex_dispatch"
              /\ tok_array' = Append(tok_array, tok)
              /\ pos_array' = Append(pos_array, token_pos')

lex_append_tok_val(v, q) == lex_append_tok(ValueToken(v), token_pos, q)

lex_append_tok_substr(type, q) ==
  lex_append_tok(TextToken(type, SubSeq(src, ptr, q - 1)), token_pos, q)

AtLimit_OneEarly == ptr >= limit - 1  \* mutant: the NUL is not counted in

AtLimit == ptr >= limit

lex_dispatch ==
  /\ pc = "lex_dispatch"
  /\ pc' = IF AtLimit THEN "return" ELSE "lexer_next"
  /\ UNCHANGED <<src, ptr, line_start, line_num, token_pos, depth, tok_array,
                 pos_array, tok_capacity, tok_alloc, reach>>

(* The function lexer_next's switch tail-calls for character c. *)
HandlerOf(c) ==
  CASE c = NUL        -> "lex_parse_eof"
    [] c \in Letter   -> "lex_parse_identifier"
    [] c = DOT        -> "lex_parse_dot"
    [] c \in Digit    -> "lex_parse_num_literal"
    [] c = DQ         -> "lex_parse_string_literal"
    [] c = SQ         -> "lex_parse_char_literal"
    [] c = SLASH      -> "lex_parse_slash"
    [] c \in {CR, LF} -> "lex_parse_linebreak"

(* lex_store_tokpos, at the first byte of the token *)
StoredPos(q) == [line_number |-> line_num,
                 character_number |-> q - line_start,
                 start |-> q,
                 end |-> token_pos.end]

lexer_next ==
  /\ pc = "lexer_next"
  /\ \E q \in ScanStops(ptr, {SP}) :
       /\ reach' = Furthest(q)
       /\ \/ /\ src[q] \in Punct \cup {STAR}
             /\ lex_append_tok(ValueToken(src[q]), StoredPos(q), q + 1)
          \/ /\ src[q] \notin Punct \cup {STAR}
             /\ pc' = HandlerOf(src[q])
             /\ ptr' = q
             /\ token_pos' = StoredPos(q)
             /\ UNCHANGED <<tok_array, pos_array, tok_capacity, tok_alloc>>
  /\ UNCHANGED <<src, line_start, line_num, depth>>

lex_parse_eof_LooksAhead ==  \* mutant
  /\ pc = "lex_parse_eof"
  /\ reach' = Furthest(ptr + 1)
  /\ lex_append_tok_val(TOKEN_EOF, ptr + 1)
  /\ UNCHANGED <<src, line_start, line_num, depth>>

lex_parse_eof_Unconsumed ==  \* mutant
  /\ pc = "lex_parse_eof"
  /\ pc' = "lex_dispatch"
  /\ UNCHANGED <<src, ptr, line_start, line_num, token_pos, depth, tok_array,
                 pos_array, tok_capacity, tok_alloc, reach>>

lex_parse_eof ==
  /\ pc = "lex_parse_eof"
  /\ lex_append_tok_val(TOKEN_EOF, ptr + 1)
  /\ UNCHANGED <<src, line_start, line_num, depth, reach>>

(* An identifier, or the value const_str_map_find_len gives for it. *)
lex_parse_identifier ==
  /\ pc = "lex_parse_identifier"
  /\ \E q \in ScanStops(ptr + 1, IdentChar) :
       /\ reach' = Furthest(q)
       /\ LET found == FindLen(SubSeq(src, ptr, q - 1))
          IN  \/ /\ found = {}
                 /\ lex_append_tok_substr("IDENTIFIER", q)
              \/ \E i \in found :
                   IF tok_map[i].value \in BoolKeyword
                   THEN lex_append_tok(BoolToken, token_pos, q)
                   ELSE lex_append_tok_val(tok_map[i].value, q)
  /\ UNCHANGED <<src, line_start, line_num, depth>>

lex_parse_num_literal ==
  /\ pc = "lex_parse_num_literal"
  /\ \E q \in ScanStops(ptr, NumChar) :
       /\ reach' = Furthest(q)
       /\ lex_append_tok_substr("LITERAL_NUM", q)
  /\ UNCHANGED <<src, line_start, line_num, depth>>

(* The two quoted literals end at the quote or before the line does. *)
QuotedLiteral(quote, type) ==
  /\ \E q \in ScanStops(ptr + 1, Char \ (LineEnd \cup {quote})) :
       /\ reach' = Furthest(q)
       /\ lex_append_tok_substr(type, IF src[q] = quote THEN q + 1 ELSE q)
  /\ UNCHANGED <<src, line_start, line_num, depth>>

lex_parse_string_literal ==
  /\ pc = "lex_parse_string_literal"
  /\ QuotedLiteral(DQ, "LITERAL_STR")

lex_parse_char_literal ==
  /\ pc = "lex_parse_char_literal"
  /\ QuotedLiteral(SQ, "LITERAL_CHAR")

lex_parse_slash ==
  /\ pc = "lex_parse_slash"
  /\ reach' = Furthest(ptr + 1)
  /\ \/ /\ src[ptr + 1] \notin {STAR, SLASH}
        /\ lex_append_tok_val(TOKEN_SLASH, ptr + 1)
     \/ /\ src[ptr + 1] \in {STAR, SLASH}
        /\ ptr' = ptr + 1
        /\ pc' = IF src[ptr + 1] = STAR THEN "lex_parse_multi_comment"
                                        ELSE "lex_parse_single_comment"
        /\ UNCHANGED <<token_pos, tok_array, pos_array, tok_capacity,
                       tok_alloc>>
  /\ UNCHANGED <<src, line_start, line_num, depth>>

lex_parse_single_comment ==
  /\ pc = "lex_parse_single_comment"
  /\ \E q \in ScanStops(ptr + 1, Char \ LineEnd) :
       /\ reach' = Furthest(q)
       /\ lex_append_tok_val(TOKEN_BREAK, q)
  /\ UNCHANGED <<src, line_start, line_num, depth>>

lex_parse_multi_comment_FromZero ==  \* mutant
  /\ pc = "lex_parse_multi_comment"
  /\ ptr' = ptr + 1
  /\ depth' = 0
  /\ pc' = "multi_comment_loop"
  /\ UNCHANGED <<src, line_start, line_num, token_pos, tok_array, pos_array,
                 tok_capacity, tok_alloc, reach>>

lex_parse_multi_comment ==
  /\ pc = "lex_parse_multi_comment"
  /\ ptr' = ptr + 1
  /\ depth' = 1
  /\ pc' = "multi_comment_loop"
  /\ UNCHANGED <<src, line_start, line_num, token_pos, tok_array, pos_array,
                 tok_capacity, tok_alloc, reach>>

(***************************************************************************)
(* One iteration of the do loop of lex_parse_multi_comment.  It reads the  *)
(* byte after ptr before it looks at the one under it.                     *)
(***************************************************************************)
Opens_NotNested(p) == FALSE  \* mutant

Opens(p) == src[p] = SLASH /\ src[p + 1] = STAR
Closes(p) == src[p] = STAR /\ src[p + 1] = SLASH

multi_comment_loop ==
  /\ pc = "multi_comment_loop"
  /\ reach' = Furthest(ptr + 1)
  /\ \/ /\ src[ptr] = NUL
        /\ pc' = "lex_dispatch"
        /\ UNCHANGED <<ptr, depth, line_start, line_num>>
     \/ /\ src[ptr] # NUL
        /\ depth' = IF Opens(ptr) THEN depth + 1
                    ELSE IF Closes(ptr) THEN depth - 1 ELSE depth
        /\ ptr' = IF Opens(ptr) \/ Closes(ptr) THEN ptr + 2 ELSE ptr + 1
        /\ IF src[ptr] = LF
           THEN line_start' = ptr /\ line_num' = line_num + 1
           ELSE UNCHANGED <<line_start, line_num>>
        /\ pc' = IF depth' > 0 THEN "multi_comment_loop" ELSE "lex_dispatch"
  /\ UNCHANGED <<src, token_pos, tok_array, pos_array, tok_capacity, tok_alloc>>

BreakEnd_SplitsCRLF(p) == p + 1  \* mutant

lex_parse_linebreak_SameLine ==  \* mutant
  /\ pc = "lex_parse_linebreak"
  /\ line_start' = ptr + 1
  /\ reach' = Furthest(ptr)
  /\ lex_append_tok_val(TOKEN_BREAK, ptr + 1)
  /\ UNCHANGED <<src, line_num, depth>>

(* LF, CR or CR LF; then lex_breakline. *)
BreakEnd(p) ==
  CASE src[p] = LF                        -> p + 1
    [] src[p] = CR /\ src[p + 1] = LF     -> p + 2
    [] src[p] = CR /\ src[p + 1] # LF     -> p + 1

lex_parse_linebreak_AtTheBreak ==  \* mutant
  /\ pc = "lex_parse_linebreak"
  /\ line_start' = ptr
  /\ line_num' = line_num + 1
  /\ reach' = Furthest(IF src[ptr] = CR THEN ptr + 1 ELSE ptr)
  /\ lex_append_tok_val(TOKEN_BREAK, BreakEnd(ptr))
  /\ UNCHANGED <<src, depth>>

lex_parse_linebreak ==
  /\ pc = "lex_parse_linebreak"
  /\ line_start' = BreakEnd(ptr)
  /\ line_num' = line_num + 1
  /\ reach' = Furthest(IF src[ptr] = CR THEN ptr + 1 ELSE ptr)
  /\ lex_append_tok_val(TOKEN_BREAK, BreakEnd(ptr))
  /\ UNCHANGED <<src, depth>>

(* The token is appended with ptr still at the dot. *)
lex_parse_dot ==
  /\ pc = "lex_parse_dot"
  /\ reach' = Furthest(ptr + 1)
  /\ \/ /\ src[ptr + 1] \in Digit
        /\ pc' = "lex_parse_num_literal"
        /\ UNCHANGED <<ptr, token_pos, tok_array, pos_array, tok_capacity,
                       tok_alloc>>
     \/ /\ src[ptr + 1] \notin Digit
        /\ lex_append_tok_val(TOKEN_DOT, ptr)
  /\ UNCHANGED <<src, line_start, line_num, depth>>

(* lexetize has its tokens, or the process is dead. *)
Terminating == pc \in Stopped /\ UNCHANGED vars

Next ==
  \/ lex_dispatch
  \/ lexer_next
  \/ lex_parse_eof
  \/ lex_parse_identifier
  \/ lex_parse_num_literal
  \/ lex_parse_string_literal
  \/ lex_parse_char_literal
  \/ lex_parse_slash
  \/ lex_parse_single_comment
  \/ lex_parse_multi_comment
  \/ multi_comment_loop
  \/ lex_parse_linebreak
  \/ lex_parse_dot
  \/ Terminating

Spec == Init /\ [][Next]_vars

(* lexetize is one thread that runs until it returns. *)
FairSpec == Spec /\ WF_vars(Next)
-----------------------------------------------------------------------------
(* Every variable holds a value of its C type. *)
TypeOK ==
  /\ src \in Seq(Char)
  /\ pc \in Handlers \cup Stopped \cup {"lex_dispatch", "lexer_next",
                                        "multi_comment_loop"}
  /\ ptr \in 1..limit
  /\ line_start \in 1..limit
  /\ line_num \in Nat
  /\ token_pos \in Token_Pos
  /\ depth \in Nat
  /\ tok_array \in Seq(Token)
  /\ pos_array \in Seq(Token_Pos)
  /\ Len(pos_array) = Len(tok_array)
  /\ tok_capacity \in 0..(UMod - 1)
  /\ tok_alloc \in Nat
  /\ reach \in Nat

(* lex_parse_dot has emitted a dot, and can only do so again and again. *)
DotEmitted == \E i \in DOMAIN tok_array : tok_array[i].token = DOT

(***************************************************************************)
(* Whatever the source, the two arrays are never written past their end    *)
(* and, given memory for twice as many tokens as the source has bytes, no  *)
(* realloc fails, unless the lexer is spinning at a bare dot: the doubling *)
(* of the 32-bit tok_capacity (lex_expand_assign_tok) never wraps for a    *)
(* file whose size fd_size can return.                                     *)
(***************************************************************************)
OnlyADotExhaustsTheArrays ==
  /\ pc = "overflow" => DotEmitted
  /\ pc = "oom" /\ 2 * Len(src) <= MemLimit => DotEmitted

(***************************************************************************)
(* Tokens come in source order without overlapping, and no two tokens are  *)
(* recorded at the same line and character, although block comments,       *)
(* linebreaks and lex_store_tokpos each keep their own count of the line.  *)
(***************************************************************************)
Precedes(p, q) ==
  \/ p.line_number < q.line_number
  \/ p.line_number = q.line_number /\ p.character_number < q.character_number

PositionsIncrease ==
  \A i \in 1..(Len(pos_array) - 1) :
    \/ /\ pos_array[i].end <= pos_array[i + 1].start
       /\ Precedes(pos_array[i], pos_array[i + 1])
    \/ tok_array[i].token = DOT

(***************************************************************************)
(* The line number of a token is one more than the line breaks before it:  *)
(* every LF, be it between tokens, after a comment or inside one, and      *)
(* every CR that lex_parse_linebreak met without an LF behind it.          *)
(***************************************************************************)
LoneCRBreaks(i) == {j \in 1..(i - 1) :
  LET p == pos_array[j].start
  IN  tok_array[j].token = TOKEN_BREAK /\ src[p] = CR /\ src[p + 1] # LF}

LineNumbersCountBreaks ==
  \A i \in DOMAIN pos_array :
    LET p == pos_array[i]
    IN  p.line_number = 1 + Cardinality({k \in 1..(p.start - 1) : src[k] = LF})
                          + Cardinality(LoneCRBreaks(i))

(***************************************************************************)
(* The character number of a token counts from the byte behind the last    *)
(* line break, but from the LF itself when that LF is inside a block       *)
(* comment: lex_parse_multi_comment calls lex_breakline before it passes   *)
(* the LF, lex_parse_linebreak after.                                      *)
(***************************************************************************)
EndsALine(j) == /\ tok_array[j].token = TOKEN_BREAK
                /\ src[pos_array[j].end - 1] \in {LF, CR}

LineBegins(i) ==
  LET behind == {pos_array[j].end : j \in {k \in 1..(i - 1) : EndsALine(k)}}
  IN  {1} \cup behind
          \cup {p \in 1..(pos_array[i].start - 1) : src[p] = LF /\ p + 1 \notin behind}

CharacterNumbersCountFromTheBreak ==
  \A i \in DOMAIN pos_array :
    LET k == pos_array[i].start - pos_array[i].character_number
    IN  k \in LineBegins(i) /\ \A b \in LineBegins(i) : b <= k

(***************************************************************************)
(* When lexetize returns, the last token is the EOF at limit - 1, which is *)
(* what lets the parser look ahead, and every NUL of the source gave an    *)
(* EOF of its own: no literal, comment or blank run ever crosses a NUL.    *)
(***************************************************************************)
IsEof(i, k) == /\ tok_array[i] = ValueToken(TOKEN_EOF)
               /\ pos_array[i].start = k
               /\ pos_array[i].end = k + 1

EveryNulGivesAnEof ==
  pc = "return" =>
    /\ tok_count > 0
    /\ IsEof(tok_count, Len(src))
    /\ \A k \in 1..Len(src) :
         src[k] = NUL => \E i \in 1..tok_count : IsEof(i, k)

CommentSeen == \E i \in 1..(Len(src) - 1) : Opens(i)

(***************************************************************************)
(* No byte behind the NUL is read, although every scan looks one ahead,    *)
(* except the one byte that lex_parse_multi_comment reads before it sees   *)
(* that the comment it is in is not closed.                                *)
(***************************************************************************)
ReadsPastTheEofInACommentOnly ==
  /\ reach <= limit
  /\ reach = limit => CommentSeen

(***************************************************************************)
(* The lexer stops, by returning or by exhausting memory at a dot.         *)
(***************************************************************************)
Stops == <>(pc \in Stopped)

(***************************************************************************)
(* lexer.c:130: "this should not overflow because there should be an EOF   *)
(* at end".  The lexer reaches that EOF and returns.                       *)
(***************************************************************************)
ReachesTheEof == <>(pc = "return")

(***************************************************************************)
(* const_str_map.h:91: "find item with string of length".  Only a word     *)
(* spelled like a keyword is lexed as that keyword.                        *)
(***************************************************************************)
KeywordsAreSpelledOut ==
  \A i \in DOMAIN tok_array : \A k \in DOMAIN tok_map :
    tok_array[i].token = tok_map[k].value =>
      SubSeq(src, pos_array[i].start, pos_array[i].end - 1) = tok_map[k].key
-----------------------------------------------------------------------------
(* The byte that a function asserts, or knows from its caller, to be at ptr. *)
ByteAt(f) ==
  CASE f = "lex_parse_eof"            -> {NUL}
    [] f = "lex_parse_identifier"     -> Letter
    [] f = "lex_parse_dot"            -> {DOT}
    [] f = "lex_parse_num_literal"    -> Digit \cup {DOT}
    [] f = "lex_parse_string_literal" -> {DQ}
    [] f = "lex_parse_char_literal"   -> {SQ}
    [] f = "lex_parse_slash"          -> {SLASH}
    [] f = "lex_parse_single_comment" -> {SLASH}
    [] f = "lex_parse_multi_comment"  -> {STAR}
    [] f = "lex_parse_linebreak"      -> {LF, CR}

(* No wak_assert fails, and no function starts behind the last byte. *)
ControlOK ==
  /\ Len(src) > 0 /\ src[Len(src)] = NUL /\ 2 * Len(src) <= UMod
  /\ line_start <= ptr
  /\ pc \in Handlers => ptr < limit /\ src[ptr] \in ByteAt(pc)
  /\ pc \in {"lexer_next", "multi_comment_loop"} => ptr < limit
  /\ pc \in {"lex_parse_multi_comment", "multi_comment_loop"} => CommentSeen
  /\ pc = "multi_comment_loop" => depth > 0

(* Until a dot is emitted there are fewer tokens than bytes lexed. *)
ArraysOK ==
  \/ DotEmitted
  \/ /\ tok_count < ptr
     /\ tok_count <= tok_capacity
     /\ tok_capacity > 0
     /\ tok_capacity = tok_alloc
     /\ pc # "overflow"
     /\ IF pc = "oom" THEN MemLimit < 2 * Len(src) ELSE tok_alloc <= MemLimit

(***************************************************************************)
(* The inductive invariant behind the safety properties: no assertion of   *)
(* lexer.c fails, reading stops at the NUL, and the arrays keep up with    *)
(* the tokens as long as no dot stands on its own.                         *)
(***************************************************************************)
LexerInv == TypeOK /\ ControlOK /\ ReadsPastTheEofInACommentOnly /\ ArraysOK
=============================================================================
