--------------------------- MODULE WakLexerProofs ---------------------------
(* Safety of the lexer, for every source, keyword table and capacity. *)
EXTENDS WakLexer, SequenceTheorems, FiniteSetTheorems, TLAPS

(***************************************************************************)
(* lexer_next's switch gives every function a byte it accepts.             *)
(***************************************************************************)
LEMMA SwitchFitsTheHandler ==
  \A c \in Char \ (Punct \cup {STAR, SP}) :
    HandlerOf(c) \in Handlers /\ c \in ByteAt(HandlerOf(c))
<1> TAKE c \in Char \ (Punct \cup {STAR, SP})
<1> USE DEF HandlerOf, ByteAt, Handlers
<1> USE DEF NUL, SP, LF, CR, DQ, SQ, DOT, SLASH, STAR
<1>1. CASE c \in Letter
  BY <1>1, CharAssumption DEF Special
<1>2. CASE c \in Digit
  BY <1>2, CharAssumption DEF Special
<1>3. CASE c \in Special
  BY <1>3, CharAssumption DEF Special
<1> QED
  BY <1>1, <1>2, <1>3 DEF Char

(***************************************************************************)
(* Every token the functions append, and every position, has its type.     *)
(***************************************************************************)
LEMMA TokensAreTokens ==
  /\ \A v \in Char \cup KeywordValues : ValueToken(v) \in Token
  /\ BoolToken \in Token
  /\ \A type \in TokenTypes, text \in Seq(Char) : TextToken(type, text) \in Token
<1>1. << >> \in Seq(Char)
  OBVIOUS
<1> QED
  BY <1>1 DEF ValueToken, BoolToken, TextToken, Token, TokenTypes, TokenValues

(***************************************************************************)
(* What lex_append_tok leaves behind: two arrays of the same length, the   *)
(* 32-bit capacity, ptr where the token ended.                             *)
(***************************************************************************)
LEMMA AppendTypes ==
  ASSUME TypeOK, NEW tok \in Token, NEW pos \in Token_Pos, NEW q \in Nat,
         lex_append_tok(tok, pos, q)
  PROVE  /\ token_pos' \in Token_Pos
         /\ tok_array' \in Seq(Token)
         /\ pos_array' \in Seq(Token_Pos)
         /\ Len(pos_array') = Len(tok_array')
         /\ tok_capacity' \in 0..(UMod - 1)
         /\ tok_alloc' \in Nat
<1>1. token_pos' \in Token_Pos
  BY DEF lex_append_tok, Token_Pos
<1>2. tok_capacity' \in 0..(UMod - 1) /\ tok_alloc' \in Nat
  <2>1. tok_capacity \in 0..(UMod - 1) /\ tok_alloc \in Nat /\ UMod \in Nat
    BY BoundAssumption DEF TypeOK
  <2>2. (2 * tok_capacity) % UMod \in 0..(UMod - 1)
    BY <2>1
  <2>3. /\ tok_alloc' = IF ArraysFull THEN 2 * tok_capacity ELSE tok_alloc
        /\ tok_capacity' = IF ArraysFull THEN (2 * tok_capacity) % UMod
                                         ELSE tok_capacity
    BY DEF lex_append_tok
  <2> QED
    BY <2>1, <2>2, <2>3
<1>3. /\ tok_array' \in Seq(Token) /\ pos_array' \in Seq(Token_Pos)
      /\ Len(pos_array') = Len(tok_array')
  <2>1. /\ tok_array \in Seq(Token) /\ pos_array \in Seq(Token_Pos)
        /\ Len(pos_array) = Len(tok_array)
    BY DEF TypeOK
  <2>2. \/ tok_array' = tok_array /\ pos_array' = pos_array
        \/ /\ tok_array' = Append(tok_array, tok)
           /\ pos_array' = Append(pos_array, token_pos')
    BY DEF lex_append_tok
  <2>3. CASE tok_array' = tok_array /\ pos_array' = pos_array
    BY <2>1, <2>3
  <2>4. CASE /\ tok_array' = Append(tok_array, tok)
             /\ pos_array' = Append(pos_array, token_pos')
    BY <1>1, <2>1, <2>4, AppendProperties
  <2> QED
    BY <2>2, <2>3, <2>4
<1> QED
  BY <1>1, <1>2, <1>3

(***************************************************************************)
(* The arrays after an append.  Before the first dot, tok_count < ptr and  *)
(* 2 * Len(src) <= UMod, so that doubling a full capacity does not wrap.   *)
(***************************************************************************)
LEMMA AppendKeepsArrays ==
  ASSUME LexerInv, pc \notin Stopped, ptr < limit, UNCHANGED src,
         NEW tok \in Token, NEW pos \in Token_Pos, NEW q \in ptr..limit,
         q = ptr => tok.token = DOT,
         lex_append_tok(tok, pos, q)
  PROVE  ArraysOK'
<1> DEFINE new == IF ArraysFull THEN 2 * tok_capacity ELSE tok_alloc
<1>1. /\ tok_array \in Seq(Token) /\ tok_count \in Nat
      /\ tok_capacity \in Nat /\ tok_alloc \in Nat
      /\ ptr \in Nat /\ Len(src) \in Nat /\ q \in Nat
      /\ MemLimit \in Nat /\ UMod \in Nat
      /\ limit = Len(src) + 1 /\ 2 * Len(src) <= UMod
  BY BoundAssumption DEF LexerInv, TypeOK, ControlOK, limit, tok_count
<1>2. \/ /\ tok_array' = tok_array
         /\ pc' = IF new > MemLimit THEN "oom" ELSE "overflow"
         /\ new > MemLimit \/ tok_count >= new
      \/ /\ tok_array' = Append(tok_array, tok)
         /\ pc' = "lex_dispatch"
         /\ new <= MemLimit /\ tok_count < new
  <2>1. IF new > MemLimit \/ tok_count >= new
        THEN /\ pc' = IF new > MemLimit THEN "oom" ELSE "overflow"
             /\ tok_array' = tok_array
        ELSE /\ pc' = "lex_dispatch"
             /\ tok_array' = Append(tok_array, tok)
    BY DEF lex_append_tok
  <2>2. new \in Nat
    BY <1>1
  <2> HIDE DEF new
  <2>3. new > MemLimit \/ tok_count >= new \/ (new <= MemLimit /\ tok_count < new)
    BY <1>1, <2>2
  <2> QED
    BY <2>1, <2>3
<1>3. CASE DotEmitted
  <2>1. PICK i \in DOMAIN tok_array : tok_array[i].token = DOT
    BY <1>3 DEF DotEmitted
  <2>2. i \in DOMAIN tok_array' /\ tok_array'[i] = tok_array[i]
    <3>1. CASE tok_array' = tok_array
      BY <3>1
    <3>2. CASE tok_array' = Append(tok_array, tok)
      BY <1>1, <3>2, AppendProperties, LenProperties
    <3> QED
      BY <1>2, <3>1, <3>2
  <2> QED
    BY <2>1, <2>2 DEF ArraysOK, DotEmitted
<1>4. CASE ~DotEmitted
  <2>1. /\ tok_count < ptr /\ tok_count <= tok_capacity /\ tok_capacity > 0
        /\ tok_capacity = tok_alloc
    BY <1>4 DEF LexerInv, ArraysOK
  <2>2. /\ tok_alloc' = new
        /\ tok_capacity' = IF ArraysFull THEN (2 * tok_capacity) % UMod
                                         ELSE tok_capacity
        /\ ptr' = q
    BY DEF lex_append_tok
  <2>3. ArraysFull => tok_count = tok_capacity
    BY <1>1, <2>1 DEF ArraysFull
  <2>4. ~ArraysFull => tok_count < tok_capacity
    BY <1>1, <2>1 DEF ArraysFull
  <2>5. ArraysFull => (2 * tok_capacity) % UMod = 2 * tok_capacity
    BY <1>1, <2>1, <2>3
  <2>6. tok_capacity' = new /\ tok_count < new /\ new > 0
    BY <1>1, <2>1, <2>2, <2>3, <2>4, <2>5 DEF tok_count
  <2>7. CASE tok_array' = tok_array
    <3>1. pc' = "oom" /\ new > MemLimit
      BY <1>1, <1>2, <2>6, <2>7
    <3>2. ArraysFull
      <4>1. SUFFICES ASSUME ~ArraysFull PROVE FALSE
        OBVIOUS
      <4>2. tok_alloc > MemLimit
        BY <3>1, <4>1
      <4>3. pc = "oom"
        BY <1>1, <1>4, <4>2 DEF LexerInv, ArraysOK
      <4> QED
        BY <4>3 DEF Stopped
    <3> QED
      BY <1>1, <2>1, <2>2, <2>3, <2>6, <2>7, <3>1, <3>2 DEF ArraysOK, tok_count
  <2>8. CASE tok_array' = Append(tok_array, tok) /\ tok_array' # tok_array
    <3>1. tok_count' = tok_count + 1 /\ tok_array'[tok_count'] = tok
      BY <1>1, <2>8 DEF tok_count
    <3>2. CASE q = ptr
      BY <1>1, <2>8, <3>1, <3>2 DEF ArraysOK, DotEmitted, tok_count
    <3>3. CASE q # ptr
      <4>1. tok_count' < ptr'
        BY <1>1, <2>1, <2>2, <3>1, <3>3
      <4>2. new \in Nat
        BY <1>1
      <4> HIDE DEF new
      <4>3. tok_count' <= tok_capacity' /\ tok_capacity' > 0
        BY <1>1, <2>6, <3>1, <4>2
      <4>4. tok_capacity' = tok_alloc'
        BY <2>2, <2>6
      <4>5. pc' = "lex_dispatch" /\ tok_alloc' <= MemLimit
        BY <1>2, <2>2, <2>8
      <4>6. pc' # "overflow" /\ pc' # "oom"
        BY <4>5
      <4> QED
        BY <4>1, <4>3, <4>4, <4>5, <4>6 DEF ArraysOK
    <3> QED
      BY <3>2, <3>3
  <2>9. tok_array' = tok_array \/ tok_array' = Append(tok_array, tok)
    BY DEF lex_append_tok
  <2> QED
    BY <2>7, <2>8, <2>9
<1> QED
  BY <1>3, <1>4

ReadOK(i) == i \in 1..limit /\ (i = limit => CommentSeen)

(***************************************************************************)
(* A read is fine at any byte of the source and, in a comment, at limit.   *)
(***************************************************************************)
LEMMA ReadsStayInside ==
  ASSUME LexerInv, UNCHANGED src,
         \/ reach' = reach
         \/ \E i : ReadOK(i) /\ reach' = Furthest(i)
  PROVE  reach' \in Nat /\ ReadsPastTheEofInACommentOnly'
<1>1. reach \in Nat /\ Len(src) \in Nat /\ limit = Len(src) + 1
  BY DEF LexerInv, TypeOK, limit
<1>2. CommentSeen' = CommentSeen /\ limit' = limit
  BY DEF CommentSeen, limit, Opens
<1>3. reach' = reach \/ ReadOK(reach')
  BY DEF Furthest
<1> QED
  BY <1>1, <1>2, <1>3 DEF ReadOK, LexerInv, ReadsPastTheEofInACommentOnly

(* Only the NUL is the last byte. *)
LEMMA OnlyNulIsLast ==
  ASSUME LexerInv, NEW p \in 1..Len(src), src[p] # NUL
  PROVE  p < Len(src)
BY DEF LexerInv, TypeOK, ControlOK

(* The bytes of a lexeme make a text. *)
LEMMA SourceText ==
  ASSUME LexerInv, NEW p \in 1..Len(src), NEW q \in p..limit
  PROVE  SubSeq(src, p, q - 1) \in Seq(Char)
<1>1. src \in Seq(Char) /\ limit = Len(src) + 1 /\ Len(src) \in Nat
  BY DEF LexerInv, TypeOK, limit
<1>2. \A i \in p..(q - 1) : src[i] \in Char
  BY <1>1
<1> QED
  BY <1>1, <1>2, SubSeqProperties

(***************************************************************************)
(* The invariant after an action that appends.                             *)
(***************************************************************************)
LEMMA AppendStep ==
  ASSUME LexerInv, pc \notin Stopped, ptr < limit, UNCHANGED <<src, depth>>,
         NEW tok \in Token, NEW pos \in Token_Pos, NEW q \in ptr..limit,
         q = ptr => tok.token = DOT,
         lex_append_tok(tok, pos, q),
         line_start' \in 1..q, line_num' \in Nat,
         reach' \in Nat, ReadsPastTheEofInACommentOnly'
  PROVE  LexerInv'
<1>1. /\ q \in Nat /\ q \in 1..limit /\ limit' = limit /\ src' = src
      /\ Len(src) \in Nat /\ limit = Len(src) + 1
  BY DEF LexerInv, TypeOK, limit
<1>2. ptr' = q /\ pc' \in {"lex_dispatch", "oom", "overflow"}
  BY DEF lex_append_tok
<1>4. ArraysOK'
  BY AppendKeepsArrays
<1>5. TypeOK'
  <2>1. /\ token_pos' \in Token_Pos
        /\ tok_array' \in Seq(Token)
        /\ pos_array' \in Seq(Token_Pos)
        /\ Len(pos_array') = Len(tok_array')
        /\ tok_capacity' \in 0..(UMod - 1)
        /\ tok_alloc' \in Nat
    BY <1>1, AppendTypes DEF LexerInv
  <2>2. src' \in Seq(Char) /\ depth' \in Nat
    BY DEF LexerInv, TypeOK
  <2>3. line_start' \in 1..limit'
    BY <1>1
  <2> QED
    BY <1>1, <1>2, <2>1, <2>2, <2>3 DEF TypeOK, Stopped
<1>6. ControlOK'
  BY <1>1, <1>2 DEF LexerInv, ControlOK, Handlers
<1> QED
  BY <1>4, <1>5, <1>6 DEF LexerInv

(* An action that appends nothing keeps ArraysOK when ptr does not go back. *)
LEMMA NoAppendKeepsArrays ==
  ASSUME LexerInv, pc \notin Stopped, pc' \notin {"oom", "overflow"},
         ptr' \in Nat, ptr <= ptr',
         UNCHANGED <<src, tok_array, tok_capacity, tok_alloc>>
  PROVE  ArraysOK'
<1>1. /\ DotEmitted' = DotEmitted /\ tok_count' = tok_count
      /\ tok_count \in Nat /\ ptr \in Nat
  BY DEF DotEmitted, tok_count, LexerInv, TypeOK
<1> QED
  BY <1>1 DEF LexerInv, ArraysOK, Stopped

(* What an action that only scans and hands over has to keep. *)
LEMMA ScanStep ==
  ASSUME LexerInv, pc \notin Stopped,
         UNCHANGED <<src, tok_array, pos_array, tok_capacity, tok_alloc>>,
         pc' \in Handlers \cup {"lex_dispatch", "lexer_next",
                                "multi_comment_loop", "return"},
         ptr' \in ptr..limit, token_pos' \in Token_Pos, line_num' \in Nat,
         line_start' \in 1..ptr', depth' \in Nat,
         reach' \in Nat, ReadsPastTheEofInACommentOnly', ControlOK'
  PROVE  LexerInv'
<1>1. limit' = limit /\ ptr \in Nat /\ ptr >= 1 /\ limit \in Nat
  BY DEF LexerInv, TypeOK, limit
<1>2. ArraysOK'
  BY <1>1, NoAppendKeepsArrays DEF Handlers
<1>3. TypeOK'
  <2>1. ptr' \in 1..limit' /\ line_start' \in 1..limit'
    BY <1>1
  <2> QED
    BY <2>1 DEF LexerInv, TypeOK, Stopped
<1> QED
  BY <1>2, <1>3 DEF LexerInv

(***************************************************************************)
(* LexerInv holds at first, and every function of the lexer keeps it.      *)
(***************************************************************************)
THEOREM InitEstablishesLexerInv == Init => LexerInv
<1> SUFFICES ASSUME Init PROVE LexerInv
  OBVIOUS
<1>1. /\ src \in Seq(Char) /\ Len(src) \in Nat \ {0} /\ src[Len(src)] = NUL
      /\ 2 * Len(src) <= UMod /\ limit = Len(src) + 1
  BY SourceAssumption DEF Init, limit
<1>2. << >> \in Seq(Token) /\ << >> \in Seq(Token_Pos) /\ Len(<< >>) = 0
  BY EmptySeq
<1>3. TypeOK
  BY <1>1, <1>2, BoundAssumption DEF Init, TypeOK, Token_Pos
<1>4. ControlOK
  BY <1>1 DEF Init, ControlOK, Handlers
<1>5. ReadsPastTheEofInACommentOnly
  BY <1>1 DEF Init, ReadsPastTheEofInACommentOnly
<1>6. ArraysOK
  BY <1>2, BoundAssumption DEF Init, ArraysOK, tok_count
<1> QED
  BY <1>3, <1>4, <1>5, <1>6 DEF LexerInv

(* Appending a token that has only a value, and only moving on. *)
LEMMA ValueStep ==
  ASSUME LexerInv, pc \notin Stopped, ptr < limit, UNCHANGED <<src, depth>>,
         NEW v \in Char \cup KeywordValues, NEW q \in ptr..limit,
         q = ptr => v = DOT,
         lex_append_tok_val(v, q),
         line_start' \in 1..q, line_num' \in Nat,
         reach' \in Nat, ReadsPastTheEofInACommentOnly'
  PROVE  LexerInv'
<1>1. ValueToken(v) \in Token /\ ValueToken(v).token = v
  BY TokensAreTokens DEF ValueToken
<1>2. token_pos \in Token_Pos
  BY DEF LexerInv, TypeOK
<1> QED
  BY <1>1, <1>2, AppendStep DEF lex_append_tok_val

(* Appending a token that has the text it was cut from. *)
LEMMA TextStep ==
  ASSUME LexerInv, pc \notin Stopped, ptr < limit, UNCHANGED <<src, depth>>,
         NEW type \in TokenTypes, NEW q \in (ptr + 1)..limit,
         lex_append_tok_substr(type, q),
         UNCHANGED <<line_start, line_num>>,
         reach' \in Nat, ReadsPastTheEofInACommentOnly'
  PROVE  LexerInv'
<1>1. /\ ptr \in 1..Len(src) /\ q \in ptr..limit /\ q # ptr /\ line_num \in Nat
      /\ line_start \in 1..q
  BY DEF LexerInv, TypeOK, ControlOK, limit
<1>2. TextToken(type, SubSeq(src, ptr, q - 1)) \in Token
  BY <1>1, SourceText, TokensAreTokens
<1>3. token_pos \in Token_Pos
  BY DEF LexerInv, TypeOK
<1> QED
  BY <1>1, <1>2, <1>3, AppendStep DEF lex_append_tok_substr

(* Each function of the lexer keeps LexerInv, one case for each. *)
THEOREM NextKeepsLexerInv == LexerInv /\ [Next]_vars => LexerInv'
<1> SUFFICES ASSUME LexerInv, [Next]_vars PROVE LexerInv'
  OBVIOUS
<1>1. /\ src \in Seq(Char) /\ Len(src) \in Nat /\ limit = Len(src) + 1
      /\ src[Len(src)] = NUL /\ Len(src) > 0 /\ 2 * Len(src) <= UMod
      /\ ptr \in 1..limit /\ line_start \in 1..ptr /\ line_num \in Nat
      /\ token_pos \in Token_Pos /\ depth \in Nat /\ reach \in Nat
  BY DEF LexerInv, TypeOK, ControlOK, limit
<1>2. ASSUME pc \in Handlers PROVE ptr \in 1..Len(src) /\ src[ptr] \in ByteAt(pc)
  BY <1>1, <1>2 DEF LexerInv, ControlOK
<1>3. \A p \in 1..Len(src) : src[p] # NUL => p + 1 \in 1..Len(src)
  BY <1>1, OnlyNulIsLast
<1>4. \A p \in 1..Len(src) : ReadOK(p)
  BY <1>1 DEF ReadOK
<1>5. \A p \in 1..limit, S \in SUBSET Char : ScanStops(p, S) \subseteq 1..Len(src)
                                     /\ \A q \in ScanStops(p, S) : p <= q
  BY <1>1 DEF ScanStops
<1>6. CASE lex_dispatch
  <2>1. reach' \in Nat /\ ReadsPastTheEofInACommentOnly'
    BY <1>6, ReadsStayInside DEF lex_dispatch
  <2>2. ControlOK'
    BY <1>1, <1>6 DEF lex_dispatch, LexerInv, ControlOK, limit, AtLimit, Handlers
  <2> QED
    BY <1>1, <1>6, <2>1, <2>2, ScanStep DEF lex_dispatch, Stopped
<1>7. CASE lexer_next
  <2>1. PICK q \in ScanStops(ptr, {SP}) :
          /\ reach' = Furthest(q)
          /\ \/ /\ src[q] \in Punct \cup {STAR}
                /\ lex_append_tok(ValueToken(src[q]), StoredPos(q), q + 1)
             \/ /\ src[q] \notin Punct \cup {STAR}
                /\ pc' = HandlerOf(src[q])
                /\ ptr' = q
                /\ token_pos' = StoredPos(q)
                /\ UNCHANGED <<tok_array, pos_array, tok_capacity, tok_alloc>>
    BY <1>7 DEF lexer_next
  <2>2. /\ pc = "lexer_next" /\ pc \notin Stopped
        /\ UNCHANGED <<src, line_start, line_num, depth>>
    BY <1>7 DEF lexer_next, Stopped
  <2>3. /\ q \in 1..Len(src) /\ ptr <= q /\ src[q] # SP /\ src[q] \in Char
        /\ ptr < limit
    BY <1>1, <1>5, <2>2 DEF ScanStops, LexerInv, ControlOK
  <2>4. StoredPos(q) \in Token_Pos
    <3>1. q - line_start \in Nat
      BY <1>1, <2>3
    <3> QED
      BY <1>1, <2>3, <3>1 DEF StoredPos, Token_Pos
  <2>r. reach' \in Nat /\ ReadsPastTheEofInACommentOnly'
    BY <1>4, <2>1, <2>2, <2>3, ReadsStayInside
  <2>5. CASE /\ src[q] \in Punct \cup {STAR}
             /\ lex_append_tok(ValueToken(src[q]), StoredPos(q), q + 1)
    <3>1. ValueToken(src[q]) \in Token
      BY <2>3, TokensAreTokens
    <3>2. /\ q + 1 \in ptr..limit /\ q + 1 # ptr
          /\ line_start' \in 1..(q + 1) /\ line_num' \in Nat
      BY <1>1, <2>2, <2>3
    <3> QED
      BY <2>2, <2>3, <2>4, <2>5, <2>r, <3>1, <3>2, AppendStep
  <2>6. CASE /\ src[q] \notin Punct \cup {STAR}
             /\ pc' = HandlerOf(src[q])
             /\ ptr' = q
             /\ token_pos' = StoredPos(q)
             /\ UNCHANGED <<tok_array, pos_array, tok_capacity, tok_alloc>>
    <3>1. pc' \in Handlers /\ src[q] \in ByteAt(pc')
      BY <2>3, <2>6, SwitchFitsTheHandler
    <3>3. CASE pc' = "lex_parse_multi_comment"
      BY <2>6, <2>3, <3>1, <3>3, CharAssumption DEF ByteAt
    <3>4. CASE pc' # "lex_parse_multi_comment"
      <4>1. ControlOK'
        BY <1>1, <2>2, <2>3, <2>6, <3>1, <3>4
           DEF ControlOK, LexerInv, limit, Handlers
      <4> QED
        BY <1>1, <2>2, <2>3, <2>4, <2>6, <2>r, <3>1, <4>1, ScanStep
    <3> QED
      BY <3>3, <3>4
  <2> QED
    BY <2>1, <2>5, <2>6
<1>8. CASE lex_parse_eof
  <2>1. /\ pc = "lex_parse_eof" /\ pc \notin Stopped
        /\ reach' = reach /\ UNCHANGED <<src, line_start, line_num, depth>>
        /\ lex_append_tok_val(NUL, ptr + 1)
    BY <1>8 DEF lex_parse_eof, Stopped, TOKEN_EOF
  <2>2. ptr \in 1..Len(src) /\ NUL \in Char
    BY <1>2, <2>1 DEF Handlers, Char, Special
  <2>3. ptr < limit /\ ptr + 1 \in ptr..limit /\ line_start' \in 1..(ptr + 1)
    BY <1>1, <2>1, <2>2
  <2>4. reach' \in Nat /\ ReadsPastTheEofInACommentOnly'
    BY <2>1, ReadsStayInside
  <2> QED
    BY <1>1, <2>1, <2>2, <2>3, <2>4, ValueStep
<1>9. CASE lex_parse_identifier
  <2>1. PICK q \in ScanStops(ptr + 1, IdentChar) :
          /\ reach' = Furthest(q)
          /\ LET found == FindLen(SubSeq(src, ptr, q - 1))
             IN  \/ lex_append_tok_substr("IDENTIFIER", q)
                 \/ \E i \in found :
                      IF tok_map[i].value \in BoolKeyword
                      THEN lex_append_tok(BoolToken, token_pos, q)
                      ELSE lex_append_tok_val(tok_map[i].value, q)
    BY <1>9 DEF lex_parse_identifier
  <2>2. /\ pc = "lex_parse_identifier" /\ pc \notin Stopped
        /\ UNCHANGED <<src, line_start, line_num, depth>>
    BY <1>9 DEF lex_parse_identifier, Stopped
  <2>3. /\ ptr \in 1..Len(src) /\ ptr < limit
        /\ q \in 1..Len(src) /\ ptr + 1 <= q
        /\ q \in (ptr + 1)..limit /\ q \in ptr..limit /\ q # ptr
        /\ line_start' \in 1..q /\ line_num' \in Nat
    BY <1>1, <1>2, <2>2 DEF Handlers, ScanStops
  <2>4. reach' \in Nat /\ ReadsPastTheEofInACommentOnly'
    BY <1>4, <2>1, <2>2, <2>3, ReadsStayInside
  <2>5. CASE lex_append_tok_substr("IDENTIFIER", q)
    BY <2>2, <2>3, <2>4, <2>5, TextStep DEF TokenTypes
  <2>6. CASE lex_append_tok(BoolToken, token_pos, q)
    BY <1>1, <2>2, <2>3, <2>4, <2>6, TokensAreTokens, AppendStep
  <2>7. ASSUME NEW i \in FindLen(SubSeq(src, ptr, q - 1)),
               lex_append_tok_val(tok_map[i].value, q)
        PROVE  LexerInv'
    <3>1. tok_map[i].value \in KeywordValues
      BY DEF FindLen, KeywordValues
    <3> QED
      BY <2>2, <2>3, <2>4, <2>7, <3>1, ValueStep
  <2> QED
    BY <2>1, <2>5, <2>6, <2>7
<1>10. CASE lex_parse_num_literal
  <2>1. PICK q \in ScanStops(ptr, NumChar) :
          /\ reach' = Furthest(q)
          /\ lex_append_tok_substr("LITERAL_NUM", q)
    BY <1>10 DEF lex_parse_num_literal
  <2>2. /\ pc = "lex_parse_num_literal" /\ pc \notin Stopped
        /\ UNCHANGED <<src, line_start, line_num, depth>>
    BY <1>10 DEF lex_parse_num_literal, Stopped
  <2>3. ptr \in 1..Len(src) /\ src[ptr] \in NumChar /\ ptr < limit
    BY <1>1, <1>2, <2>2 DEF Handlers, ByteAt, NumChar
  <2>4. q \in 1..Len(src) /\ q \in (ptr + 1)..limit
    BY <1>1, <2>1, <2>3 DEF ScanStops
  <2>5. reach' \in Nat /\ ReadsPastTheEofInACommentOnly'
    BY <1>4, <2>1, <2>2, <2>4, ReadsStayInside
  <2> QED
    BY <2>1, <2>2, <2>3, <2>4, <2>5, TextStep DEF TokenTypes
<1>11. ASSUME pc \in {"lex_parse_string_literal", "lex_parse_char_literal"},
              NEW quote, NEW type \in TokenTypes, QuotedLiteral(quote, type)
       PROVE  LexerInv'
  <2>1. PICK q \in ScanStops(ptr + 1, Char \ (LineEnd \cup {quote})) :
          /\ reach' = Furthest(q)
          /\ lex_append_tok_substr(type, IF src[q] = quote THEN q + 1 ELSE q)
    BY <1>11 DEF QuotedLiteral
  <2>2. pc \notin Stopped /\ UNCHANGED <<src, line_start, line_num, depth>>
    BY <1>11 DEF QuotedLiteral, Stopped
  <2>3. ptr \in 1..Len(src) /\ ptr < limit
    BY <1>1, <1>2, <1>11 DEF Handlers
  <2>4. q \in 1..Len(src) /\ q \in (ptr + 1)..limit /\ q + 1 \in (ptr + 1)..limit
    BY <1>1, <2>1, <2>3 DEF ScanStops
  <2>5. reach' \in Nat /\ ReadsPastTheEofInACommentOnly'
    BY <1>4, <2>1, <2>2, <2>4, ReadsStayInside
  <2>6. (IF src[q] = quote THEN q + 1 ELSE q) \in (ptr + 1)..limit
    BY <2>4
  <2> QED
    BY <2>1, <2>2, <2>3, <2>5, <2>6, TextStep
<1>12. CASE lex_parse_string_literal
  BY <1>11, <1>12 DEF lex_parse_string_literal, TokenTypes
<1>13. CASE lex_parse_char_literal
  BY <1>11, <1>13 DEF lex_parse_char_literal, TokenTypes
<1>14. CASE lex_parse_slash
  <2>1. /\ pc = "lex_parse_slash" /\ pc \notin Stopped
        /\ reach' = Furthest(ptr + 1)
        /\ UNCHANGED <<src, line_start, line_num, depth>>
    BY <1>14 DEF lex_parse_slash, Stopped
  <2>2. /\ ptr \in 1..Len(src) /\ src[ptr] = SLASH /\ ptr < limit
        /\ ptr + 1 \in 1..Len(src) /\ SLASH \in Char
    BY <1>1, <1>2, <1>3, <2>1
       DEF Handlers, ByteAt, SLASH, NUL, Char, Special
  <2>3. reach' \in Nat /\ ReadsPastTheEofInACommentOnly'
    BY <1>4, <2>1, <2>2, ReadsStayInside
  <2>4. CASE lex_append_tok_val(SLASH, ptr + 1)
    <3>1. ptr + 1 \in ptr..limit /\ ptr + 1 # ptr /\ line_start' \in 1..(ptr + 1)
      BY <1>1, <2>1, <2>2
    <3> QED
      BY <1>1, <2>1, <2>2, <2>3, <2>4, <3>1, ValueStep
  <2>5. CASE /\ src[ptr + 1] \in {STAR, SLASH}
             /\ ptr' = ptr + 1
             /\ pc' = IF src[ptr + 1] = STAR THEN "lex_parse_multi_comment"
                                             ELSE "lex_parse_single_comment"
             /\ UNCHANGED <<token_pos, tok_array, pos_array, tok_capacity,
                            tok_alloc>>
    <3>1. limit' = limit /\ src'[ptr'] = src[ptr + 1]
      BY <2>1, <2>5 DEF limit
    <3>2. pc' = "lex_parse_multi_comment" => CommentSeen'
      <4>1. pc' = "lex_parse_multi_comment" => Opens(ptr)
        BY <2>2, <2>5 DEF Opens
      <4>2. CommentSeen' = CommentSeen
        BY <2>1 DEF CommentSeen, Opens
      <4> QED
        BY <1>1, <2>2, <4>1, <4>2 DEF CommentSeen
    <3>3. ControlOK'
      BY <1>1, <2>1, <2>2, <2>5, <3>1, <3>2 DEF ControlOK, ByteAt, Handlers
    <3> QED
      BY <1>1, <2>1, <2>2, <2>3, <2>5, <3>3, ScanStep DEF Handlers
  <2> QED
    BY <1>14, <2>4, <2>5 DEF lex_parse_slash, TOKEN_SLASH, SLASH
<1>15. CASE lex_parse_single_comment
  <2>1. PICK q \in ScanStops(ptr + 1, Char \ LineEnd) :
          /\ reach' = Furthest(q)
          /\ lex_append_tok_val(LF, q)
    BY <1>15 DEF lex_parse_single_comment, TOKEN_BREAK
  <2>2. /\ pc = "lex_parse_single_comment" /\ pc \notin Stopped
        /\ UNCHANGED <<src, line_start, line_num, depth>>
    BY <1>15 DEF lex_parse_single_comment, Stopped
  <2>3. ptr \in 1..Len(src) /\ ptr < limit /\ LF \in Char
    BY <1>1, <1>2, <2>2 DEF Handlers, Char, Special
  <2>4. /\ q \in 1..Len(src) /\ q \in ptr..limit /\ q # ptr
        /\ line_start' \in 1..q
    BY <1>1, <2>1, <2>2, <2>3 DEF ScanStops
  <2>5. reach' \in Nat /\ ReadsPastTheEofInACommentOnly'
    BY <1>4, <2>1, <2>2, <2>4, ReadsStayInside
  <2> QED
    BY <1>1, <2>1, <2>2, <2>3, <2>4, <2>5, ValueStep
<1>16. CASE lex_parse_multi_comment
  <2>1. /\ pc = "lex_parse_multi_comment" /\ pc \notin Stopped
        /\ pc' = "multi_comment_loop" /\ ptr' = ptr + 1 /\ depth' = 1
        /\ UNCHANGED <<src, line_start, line_num, token_pos, tok_array,
                       pos_array, tok_capacity, tok_alloc, reach>>
    BY <1>16 DEF lex_parse_multi_comment, Stopped
  <2>2. ptr \in 1..Len(src) /\ ptr + 1 \in 1..Len(src) /\ CommentSeen
    BY <1>2, <1>3, <2>1
       DEF Handlers, ByteAt, STAR, NUL, LexerInv, ControlOK
  <2>3. reach' \in Nat /\ ReadsPastTheEofInACommentOnly'
    BY <2>1, ReadsStayInside
  <2>4. ControlOK'
    <3>1. CommentSeen' /\ limit' = limit
      BY <2>1, <2>2 DEF CommentSeen, Opens, limit
    <3> QED
      BY <1>1, <2>1, <2>2, <3>1 DEF ControlOK, Handlers
  <2> QED
    BY <1>1, <2>1, <2>2, <2>3, <2>4, ScanStep
<1>17. CASE multi_comment_loop
  <2>1. /\ pc = "multi_comment_loop" /\ pc \notin Stopped
        /\ reach' = Furthest(ptr + 1)
        /\ UNCHANGED <<src, token_pos, tok_array, pos_array, tok_capacity,
                       tok_alloc>>
    BY <1>17 DEF multi_comment_loop, Stopped
  <2>2. /\ ptr \in 1..Len(src) /\ CommentSeen /\ depth > 0
        /\ limit' = limit /\ CommentSeen'
    BY <1>1, <2>1 DEF LexerInv, ControlOK, CommentSeen, Opens, limit
  <2>3. reach' \in Nat /\ ReadsPastTheEofInACommentOnly'
    <3>1. ReadOK(ptr + 1)
      BY <1>1, <2>2 DEF ReadOK
    <3> QED
      BY <2>1, <3>1, ReadsStayInside
  <2>4. CASE /\ src[ptr] = NUL
             /\ pc' = "lex_dispatch"
             /\ UNCHANGED <<ptr, depth, line_start, line_num>>
    <3>1. ControlOK'
      BY <1>1, <2>1, <2>2, <2>4 DEF ControlOK, Handlers
    <3> QED
      BY <1>1, <2>1, <2>2, <2>3, <2>4, <3>1, ScanStep
  <2>5. CASE /\ src[ptr] # NUL
             /\ depth' = IF Opens(ptr) THEN depth + 1
                         ELSE IF Closes(ptr) THEN depth - 1 ELSE depth
             /\ ptr' = IF Opens(ptr) \/ Closes(ptr) THEN ptr + 2 ELSE ptr + 1
             /\ IF src[ptr] = LF
                THEN line_start' = ptr /\ line_num' = line_num + 1
                ELSE UNCHANGED <<line_start, line_num>>
             /\ pc' = IF depth' > 0 THEN "multi_comment_loop"
                                    ELSE "lex_dispatch"
    <3>1. ptr + 1 \in 1..Len(src)
      BY <1>3, <2>2, <2>5
    <3>2. Opens(ptr) \/ Closes(ptr) => ptr + 2 \in 1..Len(src)
      BY <1>3, <2>2, <3>1 DEF Opens, Closes, STAR, SLASH, NUL
    <3>3. ptr' \in ptr..Len(src)
      BY <1>1, <2>2, <2>5, <3>1, <3>2
    <3>4. depth' \in Nat
      BY <1>1, <2>2, <2>5
    <3>5. line_start' \in 1..ptr' /\ line_num' \in Nat
      BY <1>1, <2>2, <2>5, <3>3
    <3>6. pc' \in {"multi_comment_loop", "lex_dispatch"}
          /\ (pc' = "multi_comment_loop" => depth' > 0)
      BY <2>5
    <3>7. ControlOK'
      BY <1>1, <2>1, <2>2, <3>3, <3>5, <3>6 DEF ControlOK, Handlers
    <3> QED
      BY <1>1, <2>1, <2>3, <3>3, <3>4, <3>5, <3>6, <3>7, ScanStep
  <2> QED
    BY <1>17, <2>4, <2>5 DEF multi_comment_loop
<1>18. CASE lex_parse_linebreak
  <2>1. /\ pc = "lex_parse_linebreak" /\ pc \notin Stopped
        /\ line_start' = BreakEnd(ptr) /\ line_num' = line_num + 1
        /\ reach' = Furthest(IF src[ptr] = CR THEN ptr + 1 ELSE ptr)
        /\ lex_append_tok_val(LF, BreakEnd(ptr))
        /\ UNCHANGED <<src, depth>>
    BY <1>18 DEF lex_parse_linebreak, Stopped, TOKEN_BREAK
  <2>2. /\ ptr \in 1..Len(src) /\ src[ptr] \in {LF, CR} /\ ptr < limit
        /\ ptr + 1 \in 1..Len(src) /\ LF \in Char
    BY <1>1, <1>2, <1>3, <2>1
       DEF Handlers, ByteAt, LF, CR, NUL, Char, Special
  <2>3. /\ BreakEnd(ptr) \in ptr..limit /\ BreakEnd(ptr) # ptr
    <3>1. BreakEnd(ptr) \in {ptr + 1, ptr + 2}
      BY <2>2 DEF BreakEnd, LF, CR
    <3> QED
      BY <1>1, <2>2, <3>1
  <2>4. reach' \in Nat /\ ReadsPastTheEofInACommentOnly'
    BY <1>4, <2>1, <2>2, ReadsStayInside
  <2>5. line_start' \in 1..BreakEnd(ptr) /\ line_num' \in Nat
    BY <1>1, <2>1, <2>2, <2>3
  <2> QED
    BY <1>1, <2>1, <2>2, <2>3, <2>4, <2>5, ValueStep
<1>19. CASE lex_parse_dot
  <2>1. /\ pc = "lex_parse_dot" /\ pc \notin Stopped
        /\ reach' = Furthest(ptr + 1)
        /\ UNCHANGED <<src, line_start, line_num, depth>>
    BY <1>19 DEF lex_parse_dot, Stopped
  <2>2. /\ ptr \in 1..Len(src) /\ src[ptr] = DOT /\ ptr < limit
        /\ ptr + 1 \in 1..Len(src) /\ DOT \in Char
    BY <1>1, <1>2, <1>3, <2>1 DEF Handlers, ByteAt, DOT, NUL, Char, Special
  <2>3. reach' \in Nat /\ ReadsPastTheEofInACommentOnly'
    BY <1>4, <2>1, <2>2, ReadsStayInside
  <2>4. CASE lex_append_tok_val(DOT, ptr)
    BY <1>1, <2>1, <2>2, <2>3, <2>4, ValueStep
  <2>5. CASE /\ pc' = "lex_parse_num_literal"
             /\ UNCHANGED <<ptr, token_pos, tok_array, pos_array,
                            tok_capacity, tok_alloc>>
    <3>1. ControlOK'
      BY <1>1, <2>1, <2>2, <2>5 DEF ControlOK, ByteAt, Handlers, limit
    <3> QED
      BY <1>1, <2>1, <2>2, <2>3, <2>5, <3>1, ScanStep DEF Handlers
  <2> QED
    BY <1>19, <2>4, <2>5 DEF lex_parse_dot, TOKEN_DOT
<1>20. CASE Terminating \/ UNCHANGED vars
  BY <1>20 DEF Terminating, vars, LexerInv, TypeOK, ControlOK, ArraysOK,
               ReadsPastTheEofInACommentOnly, CommentSeen, Opens, DotEmitted,
               tok_count, limit
<1> QED
  BY <1>6, <1>7, <1>8, <1>9, <1>10, <1>12, <1>13, <1>14, <1>15, <1>16, <1>17,
     <1>18, <1>19, <1>20 DEF Next

(* LexerInv holds throughout every run of lexetize. *)
THEOREM SpecKeepsLexerInv == Spec => []LexerInv
BY InitEstablishesLexerInv, NextKeepsLexerInv, PTL DEF Spec

(***************************************************************************)
(* Every variable keeps its type: the lexer's 32-bit capacity, indices     *)
(* inside the source, two arrays of the same length.                       *)
(***************************************************************************)
THEOREM TypeCorrect == Spec => []TypeOK
<1>1. LexerInv => TypeOK
  BY DEF LexerInv
<1> QED
  BY <1>1, SpecKeepsLexerInv, PTL

(***************************************************************************)
(* The arrays are never written past their end, and no realloc fails while *)
(* there is memory for twice the source, unless a dot stands on its own.   *)
(***************************************************************************)
THEOREM ArraysAreSafe == Spec => []OnlyADotExhaustsTheArrays
<1>1. LexerInv => OnlyADotExhaustsTheArrays
  BY BoundAssumption
     DEF LexerInv, ArraysOK, OnlyADotExhaustsTheArrays, TypeOK
<1> QED
  BY <1>1, SpecKeepsLexerInv, PTL

(***************************************************************************)
(* Nothing behind the NUL is read, but for one byte in a block comment.    *)
(***************************************************************************)
THEOREM ReadsAreSafe == Spec => []ReadsPastTheEofInACommentOnly
<1>1. LexerInv => ReadsPastTheEofInACommentOnly
  BY DEF LexerInv
<1> QED
  BY <1>1, SpecKeepsLexerInv, PTL

-----------------------------------------------------------------------------
(***************************************************************************)
(* Where the lexer says its tokens are: lex_store_tokpos numbers a token   *)
(* from line_num and line_start, which the linebreaks and the block        *)
(* comments before it have set.  The invariant relates the two to the      *)
(* bytes passed and the tokens stored so far.                              *)
(***************************************************************************)

(***************************************************************************)
(* Of a source s, tokens toks and positions poss.                          *)
(***************************************************************************)
LFs(s, b) == {k \in 1..(b - 1) : s[k] = LF}

(* LoneCRBreaks and the line ends of LineBegins, of the tokens before m. *)
LoneCR(s, toks, poss, j) ==
  /\ toks[j].token = TOKEN_BREAK
  /\ s[poss[j].start] = CR /\ s[poss[j].start + 1] # LF
LoneCRs(s, toks, poss, m) == {j \in 1..(m - 1) : LoneCR(s, toks, poss, j)}

Ending(s, toks, poss, j) ==
  toks[j].token = TOKEN_BREAK /\ s[poss[j].end - 1] \in {LF, CR}
Ends(s, toks, poss, m) ==
  {poss[j].end : j \in {k \in 1..(m - 1) : Ending(s, toks, poss, k)}}

(* Where lines begin before the byte b, of which E end with a token. *)
Begins(s, E, b) == {1} \cup E \cup {p \in 1..(b - 1) : s[p] = LF /\ p + 1 \notin E}

(* At the byte b, before token m: line ln, which began at ls. *)
Counted(s, toks, poss, m, b, ln, ls) ==
  /\ ln = 1 + Cardinality(LFs(s, b)) + Cardinality(LoneCRs(s, toks, poss, m))
  /\ ls \in Begins(s, Ends(s, toks, poss, m), b)
  /\ \A x \in Begins(s, Ends(s, toks, poss, m), b) : x <= ls

(* lex_parse_linebreak's three cases: at a there is a break up to q. *)
Break(s, a, q) ==
  \/ s[a] = LF /\ q = a + 1
  \/ s[a] = CR /\ s[a + 1] = LF /\ q = a + 2
  \/ s[a] = CR /\ s[a + 1] # LF /\ q = a + 1

(* No line breaks from a up to q, nor at a. *)
NoBreak(s, a, q) == \A k \in {a} \cup (a..(q - 1)) : s[k] \notin {LF, CR}

(* A token is a line break or has none in it, and is not empty but for a   *)
(* dot.                                                                    *)
Shaped(s, tok, p) ==
  /\ p.start \in 1..Len(s) /\ p.end \in p.start..(Len(s) + 1)
  /\ \/ Break(s, p.start, p.end)
     \/ /\ p.end = p.start => tok.token = DOT
        /\ NoBreak(s, p.start, p.end)

Placed(s, toks, poss, i) ==
  /\ Counted(s, toks, poss, i, poss[i].start, poss[i].line_number,
             poss[i].start - poss[i].character_number)
  /\ \A e \in Ends(s, toks, poss, i) : e <= poss[i].start
  /\ Shaped(s, toks[i], poss[i])

(* A token that is not a dot ends before b, and was counted before b. *)
Before(tok, p, b, ln, ls) ==
  tok.token = DOT \/ /\ p.end <= b
                     /\ \/ p.line_number < ln
                        \/ p.line_number = ln /\ p.character_number < b - ls

Stored(s, toks, poss) ==
  /\ \A i \in 1..(Len(poss) - 1) :
       Before(toks[i], poss[i], poss[i + 1].start, poss[i + 1].line_number,
              poss[i + 1].start - poss[i + 1].character_number)
  /\ \A i \in 1..Len(poss) : Placed(s, toks, poss, i)

EofAt(toks, poss, i, k) ==
  toks[i] = ValueToken(TOKEN_EOF) /\ poss[i].start = k /\ poss[i].end = k + 1

(* The lexer is at the byte b, in line ln, which began at ls. *)
Marked(s, toks, poss, b, ln, ls) ==
  /\ Stored(s, toks, poss)
  /\ Len(poss) > 0 => Before(toks[Len(poss)], poss[Len(poss)], b, ln, ls)
  /\ Counted(s, toks, poss, Len(poss) + 1, b, ln, ls)
  /\ \A e \in Ends(s, toks, poss, Len(poss) + 1) : e <= b

(* Each NUL before the byte b has its EOF. *)
Eofs(s, toks, poss, b) ==
  \A k \in 1..(b - 1) : s[k] = NUL => \E i \in 1..Len(poss) : EofAt(toks, poss, i, k)

Seen(s, toks, poss, b, ln, ls) ==
  Marked(s, toks, poss, b, ln, ls) /\ Eofs(s, toks, poss, b)

(* No line ends from byte b up to byte c, and no NUL is there. *)
Plain(s, b, c) == \A k \in b..(c - 1) : s[k] \notin {LF, NUL}

-----------------------------------------------------------------------------
(* Between two tokens the count is that of ptr, in a token of its start. *)
Comments == {"lex_parse_single_comment", "lex_parse_multi_comment"}

InToken ==
  /\ token_pos.start \in 1..ptr
  /\ token_pos.line_number = line_num
  /\ token_pos.character_number = token_pos.start - line_start
  /\ IF pc \in Comments THEN ptr = token_pos.start + 1 /\ src[token_pos.start] = SLASH
                         ELSE ptr = token_pos.start
  /\ Plain(src, token_pos.start, ptr)
  /\ Seen(src, tok_array, pos_array, token_pos.start, line_num, line_start)

PositionInv ==
  /\ Stored(src, tok_array, pos_array)
  /\ pc \in {"lex_dispatch", "lexer_next", "multi_comment_loop", "return"} =>
       Seen(src, tok_array, pos_array, ptr, line_num, line_start)
  /\ pc \in Handlers => InToken
  /\ pc \in {"lex_dispatch", "return"} /\ ptr = limit =>
       tok_count > 0 /\ EofAt(tok_array, pos_array, tok_count, Len(src))
  /\ pc = "return" => ptr = limit

-----------------------------------------------------------------------------
(* Counting.                                                               *)

(* There are finitely many line breaks before a byte and a token. *)
LEMMA BreaksAreCounted ==
  ASSUME NEW s, NEW toks, NEW poss, NEW b \in Nat, NEW m \in Nat
  PROVE  /\ IsFiniteSet(LFs(s, b)) /\ Cardinality(LFs(s, b)) \in Nat
         /\ IsFiniteSet(LoneCRs(s, toks, poss, m))
         /\ Cardinality(LoneCRs(s, toks, poss, m)) \in Nat
<1>1. IsFiniteSet(1..(b - 1)) /\ IsFiniteSet(1..(m - 1))
  BY FS_Interval
<1>2. LFs(s, b) \in SUBSET (1..(b - 1))
  BY DEF LFs
<1>3. LoneCRs(s, toks, poss, m) \in SUBSET (1..(m - 1))
  BY DEF LoneCRs
<1>4. IsFiniteSet(LFs(s, b)) /\ IsFiniteSet(LoneCRs(s, toks, poss, m))
  BY <1>1, <1>2, <1>3, FS_Subset
<1> QED
  BY <1>4, FS_CardinalityType

(* Bytes that are no LF change no count. *)
LEMMA CountedFurther ==
  ASSUME NEW s, NEW toks, NEW poss, NEW m, NEW ln, NEW ls,
         NEW b \in Nat \ {0}, NEW c \in Nat, b <= c,
         \A k \in b..(c - 1) : s[k] # LF,
         Counted(s, toks, poss, m, b, ln, ls)
  PROVE  Counted(s, toks, poss, m, c, ln, ls)
<1>1. LFs(s, c) = LFs(s, b)
  BY DEF LFs
<1>2. ASSUME NEW E PROVE Begins(s, E, c) = Begins(s, E, b)
  BY DEF Begins
<1> QED
  BY <1>1, <1>2 DEF Counted

(* An LF inside a comment begins a line, at itself. *)
LEMMA CountedBreak ==
  ASSUME NEW s, NEW toks, NEW poss, NEW m \in Nat, NEW ln \in Nat, NEW ls,
         NEW b \in Nat \ {0}, s[b] = LF,
         \A e \in Ends(s, toks, poss, m) : e <= b,
         Counted(s, toks, poss, m, b, ln, ls)
  PROVE  Counted(s, toks, poss, m, b + 1, ln + 1, b)
<1> DEFINE E == Ends(s, toks, poss, m)
<1>1. LFs(s, b + 1) = LFs(s, b) \cup {b} /\ b \notin LFs(s, b)
  BY DEF LFs
<1>2. Cardinality(LFs(s, b + 1)) = Cardinality(LFs(s, b)) + 1
  BY <1>1, BreaksAreCounted, FS_AddElement
<1>3. ln + 1 = 1 + Cardinality(LFs(s, b + 1)) + Cardinality(LoneCRs(s, toks, poss, m))
  BY <1>2, BreaksAreCounted DEF Counted
<1>4. b \in Begins(s, E, b + 1)
  BY DEF Begins
<1>5. \A x \in Begins(s, E, b + 1) : x <= b
  BY DEF Begins
<1> QED
  BY <1>3, <1>4, <1>5 DEF Counted

-----------------------------------------------------------------------------
(* Moving on without a token.                                              *)

(* A token counted before b is counted before any later byte of the line. *)
LEMMA BeforeFurther ==
  ASSUME NEW tok, NEW p \in Token_Pos, NEW b \in Nat, NEW c \in Nat, b <= c,
         NEW ln \in Nat, NEW ls \in Nat,
         Before(tok, p, b, ln, ls)
  PROVE  Before(tok, p, c, ln, ls)
BY DEF Before, Token_Pos

(* ... and of the next line. *)
LEMMA BeforeBreak ==
  ASSUME NEW tok, NEW p \in Token_Pos, NEW b \in Nat, NEW c \in Nat, b <= c,
         NEW ln \in Nat, NEW ls \in Nat, NEW new,
         Before(tok, p, b, ln, ls)
  PROVE  Before(tok, p, c, ln + 1, new)
<1>1. p.line_number \in Nat /\ p.end \in Nat
  BY DEF Token_Pos
<1>2. CASE tok.token = DOT
  BY <1>2 DEF Before
<1>3. CASE tok.token # DOT
  <2>1. p.end <= b /\ p.line_number <= ln
    BY <1>1, <1>3 DEF Before
  <2> QED
    BY <1>1, <2>1 DEF Before
<1> QED
  BY <1>2, <1>3

(* Tokens end at bytes. *)
LEMMA EndsAreBytes ==
  ASSUME NEW s, NEW toks, NEW poss \in Seq(Token_Pos)
  PROVE  \A e \in Ends(s, toks, poss, Len(poss) + 1) : e \in Nat
<1>1. \A j \in 1..Len(poss) : poss[j] \in Token_Pos
  OBVIOUS
<1>2. \A j \in 1..Len(poss) : poss[j].end \in Nat
  BY <1>1 DEF Token_Pos
<1>3. (Len(poss) + 1) - 1 = Len(poss)
  OBVIOUS
<1> QED
  BY <1>2, <1>3 DEF Ends

(* The last position is one. *)
LEMMA LastIsAPosition ==
  ASSUME NEW poss \in Seq(Token_Pos), Len(poss) > 0
  PROVE  poss[Len(poss)] \in Token_Pos
OBVIOUS

(* Bytes that are no LF leave what was stored before b, before c. *)
LEMMA MarkedFurther ==
  ASSUME NEW s, NEW toks, NEW poss \in Seq(Token_Pos), NEW ln \in Nat, NEW ls \in Nat,
         NEW b \in Nat \ {0}, NEW c \in Nat, b <= c,
         \A k \in b..(c - 1) : s[k] # LF,
         Marked(s, toks, poss, b, ln, ls)
  PROVE  Marked(s, toks, poss, c, ln, ls)
<1>1. Counted(s, toks, poss, Len(poss) + 1, c, ln, ls)
  BY CountedFurther DEF Marked
<1>2. Len(poss) > 0 => Before(toks[Len(poss)], poss[Len(poss)], c, ln, ls)
  BY BeforeFurther, LastIsAPosition DEF Marked
<1>3. \A e \in Ends(s, toks, poss, Len(poss) + 1) : e <= c
  <2>1. \A e \in Ends(s, toks, poss, Len(poss) + 1) : e \in Nat /\ e <= b
    BY EndsAreBytes DEF Marked
  <2> QED
    BY <2>1
<1> QED
  BY <1>1, <1>2, <1>3 DEF Marked

(* Bytes that are neither LF nor NUL leave everything seen. *)
LEMMA SeenFurther ==
  ASSUME NEW s, NEW toks, NEW poss \in Seq(Token_Pos), NEW ln \in Nat, NEW ls \in Nat,
         NEW b \in Nat \ {0}, NEW c \in Nat, b <= c, Plain(s, b, c),
         Seen(s, toks, poss, b, ln, ls)
  PROVE  Seen(s, toks, poss, c, ln, ls)
<1>1. Marked(s, toks, poss, c, ln, ls)
  BY MarkedFurther DEF Plain, Seen
<1>2. Eofs(s, toks, poss, c)
  BY DEF Plain, Seen, Eofs
<1> QED
  BY <1>1, <1>2 DEF Seen

(* An LF inside a comment begins a line. *)
LEMMA SeenBreak ==
  ASSUME NEW s, NEW toks, NEW poss \in Seq(Token_Pos), NEW ln \in Nat, NEW ls \in Nat,
         NEW b \in Nat \ {0}, s[b] = LF,
         Seen(s, toks, poss, b, ln, ls)
  PROVE  Seen(s, toks, poss, b + 1, ln + 1, b)
<1> DEFINE m == Len(poss) + 1
<1>1. m \in Nat /\ Marked(s, toks, poss, b, ln, ls) /\ Eofs(s, toks, poss, b)
  BY DEF Seen
<1>2. Counted(s, toks, poss, m, b + 1, ln + 1, b)
  BY <1>1, CountedBreak DEF Marked
<1>3. Len(poss) > 0 => Before(toks[Len(poss)], poss[Len(poss)], b + 1, ln + 1, b)
  <2> SUFFICES ASSUME Len(poss) > 0
               PROVE  Before(toks[Len(poss)], poss[Len(poss)], b + 1, ln + 1, b)
    OBVIOUS
  <2>1. poss[Len(poss)] \in Token_Pos /\ b \in Nat /\ b + 1 \in Nat /\ b <= b + 1
    BY LastIsAPosition
  <2>2. Before(toks[Len(poss)], poss[Len(poss)], b, ln, ls)
    BY <1>1 DEF Marked
  <2> QED
    BY <2>1, <2>2, BeforeBreak
<1>4. \A e \in Ends(s, toks, poss, m) : e <= b + 1
  <2>1. \A e \in Ends(s, toks, poss, m) : e \in Nat /\ e <= b
    BY <1>1, EndsAreBytes DEF Marked
  <2> QED
    BY <2>1
<1>5. Eofs(s, toks, poss, b + 1)
  BY <1>1 DEF Eofs, LF, NUL
<1> QED
  BY <1>1, <1>2, <1>3, <1>4, <1>5 DEF Seen, Marked

-----------------------------------------------------------------------------
(* Appending a token: the arrays toks and poss become toks2 and poss2.     *)
Longer(toks, poss, toks2, poss2) ==
  /\ Len(poss2) = Len(poss) + 1
  /\ \A i \in 1..Len(poss) : toks2[i] = toks[i] /\ poss2[i] = poss[i]

(* What the tokens before the new one say of line breaks stays. *)
LEMMA EarlierBreaks ==
  ASSUME NEW s, NEW toks, NEW poss \in Seq(Token_Pos), NEW toks2, NEW poss2,
         Longer(toks, poss, toks2, poss2), NEW m \in 1..(Len(poss) + 1)
  PROVE  LoneCRs(s, toks2, poss2, m) = LoneCRs(s, toks, poss, m)
<1>1. \A j \in 1..(m - 1) : toks2[j] = toks[j] /\ poss2[j] = poss[j]
  BY DEF Longer
<1> QED
  BY <1>1 DEF LoneCRs, LoneCR

(* ... and of the lines they end. *)
LEMMA EarlierEnds ==
  ASSUME NEW s, NEW toks, NEW poss \in Seq(Token_Pos), NEW toks2, NEW poss2,
         Longer(toks, poss, toks2, poss2), NEW m \in 1..(Len(poss) + 1)
  PROVE  Ends(s, toks2, poss2, m) = Ends(s, toks, poss, m)
<1>1. \A j \in 1..(m - 1) : toks2[j] = toks[j] /\ poss2[j] = poss[j]
  BY DEF Longer
<1>2. {k \in 1..(m - 1) : Ending(s, toks2, poss2, k)}
        = {k \in 1..(m - 1) : Ending(s, toks, poss, k)}
  BY <1>1 DEF Ending
<1> QED
  BY <1>1, <1>2 DEF Ends

(* So the counts there stay. *)
LEMMA EarlierCounts ==
  ASSUME NEW s, NEW toks, NEW poss \in Seq(Token_Pos), NEW toks2, NEW poss2,
         Longer(toks, poss, toks2, poss2), NEW m \in 1..(Len(poss) + 1),
         NEW b, NEW ln, NEW ls,
         Counted(s, toks, poss, m, b, ln, ls)
  PROVE  Counted(s, toks2, poss2, m, b, ln, ls)
BY EarlierBreaks, EarlierEnds DEF Counted

(* A token at byte a, numbered as the lexer is there, keeps Stored. *)
LEMMA StoredLonger ==
  ASSUME NEW s, NEW toks, NEW poss \in Seq(Token_Pos), NEW toks2, NEW poss2,
         Longer(toks, poss, toks2, poss2),
         NEW a \in Nat, NEW ln, NEW ls \in Nat,
         Marked(s, toks, poss, a, ln, ls),
         poss2[Len(poss) + 1].start = a,
         poss2[Len(poss) + 1].line_number = ln,
         poss2[Len(poss) + 1].character_number = a - ls,
         Shaped(s, toks2[Len(poss) + 1], poss2[Len(poss) + 1])
  PROVE  Stored(s, toks2, poss2)
<1> DEFINE n == Len(poss)
<1>1. n \in Nat /\ Len(poss2) = n + 1 /\ a - (a - ls) = ls
  BY DEF Longer
<1>2. ASSUME NEW i \in 1..(Len(poss2) - 1)
      PROVE  Before(toks2[i], poss2[i], poss2[i + 1].start, poss2[i + 1].line_number,
                    poss2[i + 1].start - poss2[i + 1].character_number)
  <2>1. i \in 1..n /\ toks2[i] = toks[i] /\ poss2[i] = poss[i]
    BY <1>1 DEF Longer
  <2>2. CASE i = n
    BY <1>1, <2>1, <2>2 DEF Marked
  <2>3. CASE i # n
    <3>1. i \in 1..(n - 1) /\ i + 1 \in 1..n
      BY <1>1, <2>1, <2>3
    <3>2. poss2[i + 1] = poss[i + 1]
      BY <3>1 DEF Longer
    <3> QED
      BY <2>1, <3>1, <3>2 DEF Marked, Stored
  <2> QED
    BY <2>2, <2>3
<1>3. ASSUME NEW i \in 1..Len(poss2) PROVE Placed(s, toks2, poss2, i)
  <2>1. CASE i = n + 1
    <3>1. Counted(s, toks, poss, i, a, ln, ls) /\ i \in 1..(Len(poss) + 1)
      BY <1>1, <2>1 DEF Marked
    <3>2. Counted(s, toks2, poss2, i, a, ln, ls)
      BY <3>1, EarlierCounts
    <3>3. \A e \in Ends(s, toks2, poss2, i) : e <= a
      <4>0. i \in 1..(Len(poss) + 1)
        BY <3>1
      <4>1. Ends(s, toks2, poss2, i) = Ends(s, toks, poss, i)
        BY <4>0, EarlierEnds
      <4>2. \A e \in Ends(s, toks, poss, i) : e <= a
        BY <2>1 DEF Marked
      <4> QED
        BY <4>1, <4>2
    <3> QED
      BY <1>1, <2>1, <3>2, <3>3 DEF Placed
  <2>2. CASE i # n + 1
    <3>1. i \in 1..n /\ i \in 1..(Len(poss) + 1) /\ poss2[i] = poss[i]
      BY <1>1, <2>2 DEF Longer
    <3>2. Placed(s, toks, poss, i)
      BY <3>1 DEF Marked, Stored
    <3>3. toks2[i] = toks[i]
      BY <3>1 DEF Longer
    <3>4. Counted(s, toks2, poss2, i, poss[i].start, poss[i].line_number,
                  poss[i].start - poss[i].character_number)
      BY <3>1, <3>2, EarlierCounts DEF Placed
    <3>5. \A e \in Ends(s, toks2, poss2, i) : e <= poss[i].start
      <4>0. i \in 1..(Len(poss) + 1)
        BY <3>1
      <4>1. Ends(s, toks2, poss2, i) = Ends(s, toks, poss, i)
        BY <4>0, EarlierEnds
      <4>2. \A e \in Ends(s, toks, poss, i) : e <= poss[i].start
        BY <3>2 DEF Placed
      <4> QED
        BY <4>1, <4>2
    <3> QED
      BY <3>1, <3>2, <3>3, <3>4, <3>5 DEF Placed
  <2> QED
    BY <2>1, <2>2
<1> QED
  BY <1>2, <1>3 DEF Stored

(* A token that ends no line leaves the line breaks as they were. *)
LEMMA NoLineEnds ==
  ASSUME NEW s, NEW toks, NEW poss \in Seq(Token_Pos), NEW toks2, NEW poss2,
         Longer(toks, poss, toks2, poss2),
         ~LoneCR(s, toks2, poss2, Len(poss) + 1),
         ~Ending(s, toks2, poss2, Len(poss) + 1)
  PROVE  /\ LoneCRs(s, toks2, poss2, Len(poss) + 2) = LoneCRs(s, toks, poss, Len(poss) + 1)
         /\ Ends(s, toks2, poss2, Len(poss) + 2) = Ends(s, toks, poss, Len(poss) + 1)
<1> DEFINE n == Len(poss)
<1>1. n \in Nat /\ n + 1 \in 1..(n + 1) /\ 1..((n + 2) - 1) = (1..((n + 1) - 1)) \cup {n + 1}
  OBVIOUS
<1>2. LoneCRs(s, toks2, poss2, n + 2) = LoneCRs(s, toks2, poss2, n + 1)
  BY <1>1 DEF LoneCRs
<1>3. {k \in 1..((n + 2) - 1) : Ending(s, toks2, poss2, k)}
        = {k \in 1..((n + 1) - 1) : Ending(s, toks2, poss2, k)}
  BY <1>1
<1>4. Ends(s, toks2, poss2, n + 2) = Ends(s, toks2, poss2, n + 1)
  BY <1>3 DEF Ends
<1> QED
  BY <1>1, <1>2, <1>4, EarlierBreaks, EarlierEnds

(* A token that ends a line adds its end, and itself if its break is a CR. *)
LEMMA ALineEnds ==
  ASSUME NEW s, NEW toks, NEW poss \in Seq(Token_Pos), NEW toks2, NEW poss2,
         Longer(toks, poss, toks2, poss2),
         Ending(s, toks2, poss2, Len(poss) + 1)
  PROVE  /\ LoneCRs(s, toks2, poss2, Len(poss) + 2) =
              LoneCRs(s, toks, poss, Len(poss) + 1)
                \cup (IF LoneCR(s, toks2, poss2, Len(poss) + 1) THEN {Len(poss) + 1} ELSE {})
         /\ Ends(s, toks2, poss2, Len(poss) + 2) =
              Ends(s, toks, poss, Len(poss) + 1) \cup {poss2[Len(poss) + 1].end}
<1> DEFINE n == Len(poss)
<1>1. n \in Nat /\ n + 1 \in 1..(n + 1) /\ 1..((n + 2) - 1) = (1..((n + 1) - 1)) \cup {n + 1}
  OBVIOUS
<1>2. LoneCRs(s, toks2, poss2, n + 2) =
        LoneCRs(s, toks2, poss2, n + 1)
          \cup (IF LoneCR(s, toks2, poss2, n + 1) THEN {n + 1} ELSE {})
  BY <1>1 DEF LoneCRs
<1>3. {k \in 1..((n + 2) - 1) : Ending(s, toks2, poss2, k)}
        = {k \in 1..((n + 1) - 1) : Ending(s, toks2, poss2, k)} \cup {n + 1}
  BY <1>1
<1>4. Ends(s, toks2, poss2, n + 2) = Ends(s, toks2, poss2, n + 1) \cup {poss2[n + 1].end}
  BY <1>3 DEF Ends
<1> QED
  BY <1>1, <1>2, <1>4, EarlierBreaks, EarlierEnds

(* After a token that ends no line, and runs over no LF. *)
LEMMA MarkedToken ==
  ASSUME NEW s, NEW toks, NEW poss \in Seq(Token_Pos),
         NEW toks2, NEW poss2 \in Seq(Token_Pos),
         Longer(toks, poss, toks2, poss2),
         NEW a \in Nat \ {0}, NEW q \in Nat, NEW ln \in Nat, NEW ls \in Nat,
         Marked(s, toks, poss, a, ln, ls),
         poss2[Len(poss) + 1].start = a,
         poss2[Len(poss) + 1].end = q,
         poss2[Len(poss) + 1].line_number = ln,
         poss2[Len(poss) + 1].character_number = a - ls,
         a \in 1..Len(s), q \in a..(Len(s) + 1),
         q = a => toks2[Len(poss) + 1].token = DOT,
         NoBreak(s, a, q)
  PROVE  Marked(s, toks2, poss2, q, ln, ls)
<1> DEFINE n == Len(poss)
<1>1. /\ n \in Nat /\ Len(poss2) = n + 1 /\ Len(poss2) + 1 = n + 2
      /\ n + 1 \in 1..(Len(poss) + 1)
  BY DEF Longer
<1>2. Stored(s, toks2, poss2)
  <2>1. Shaped(s, toks2[n + 1], poss2[n + 1])
    BY DEF Shaped
  <2> QED
    BY <2>1, StoredLonger
<1>3. Before(toks2[n + 1], poss2[n + 1], q, ln, ls)
  BY DEF Before
<1>4. ~LoneCR(s, toks2, poss2, n + 1) /\ ~Ending(s, toks2, poss2, n + 1)
  <2>1. s[a] # CR
    BY DEF NoBreak
  <2>2. CASE toks2[n + 1].token = TOKEN_BREAK
    <3>1. q - 1 \in a..(q - 1)
      BY <2>2 DEF TOKEN_BREAK, DOT, LF
    <3> QED
      BY <2>1, <3>1 DEF LoneCR, Ending, NoBreak
  <2>3. CASE toks2[n + 1].token # TOKEN_BREAK
    BY <2>3 DEF LoneCR, Ending
  <2> QED
    BY <2>2, <2>3
<1>5. /\ LoneCRs(s, toks2, poss2, n + 2) = LoneCRs(s, toks, poss, n + 1)
      /\ Ends(s, toks2, poss2, n + 2) = Ends(s, toks, poss, n + 1)
  BY <1>4, NoLineEnds
<1>6. Counted(s, toks, poss, n + 1, q, ln, ls)
  <2>1. \A k \in a..(q - 1) : s[k] # LF
    BY DEF NoBreak
  <2>2. Counted(s, toks, poss, n + 1, a, ln, ls)
    BY DEF Marked
  <2> QED
    BY <2>1, <2>2, CountedFurther
<1>7. Counted(s, toks2, poss2, n + 2, q, ln, ls)
  BY <1>5, <1>6 DEF Counted
<1>8. \A e \in Ends(s, toks2, poss2, n + 2) : e <= q
  <2>1. \A e \in Ends(s, toks, poss, n + 1) : e \in Nat /\ e <= a
    BY EndsAreBytes DEF Marked
  <2> QED
    BY <1>5, <2>1
<1> QED
  BY <1>1, <1>2, <1>3, <1>7, <1>8 DEF Marked

(* Each of them counts one more, either an LF or a CR alone. *)
LEMMA OneBreakMore ==
  ASSUME NEW s, NEW toks, NEW poss, NEW toks2, NEW poss2,
         NEW n \in Nat, NEW a \in Nat \ {0}, NEW q \in Nat, Break(s, a, q),
         toks2[n + 1].token = TOKEN_BREAK, poss2[n + 1].start = a,
         LoneCRs(s, toks2, poss2, n + 2) =
           LoneCRs(s, toks, poss, n + 1)
             \cup (IF LoneCR(s, toks2, poss2, n + 1) THEN {n + 1} ELSE {})
  PROVE  Cardinality(LFs(s, q)) + Cardinality(LoneCRs(s, toks2, poss2, n + 2))
           = Cardinality(LFs(s, a)) + Cardinality(LoneCRs(s, toks, poss, n + 1)) + 1
<1> DEFINE L == LoneCRs(s, toks, poss, n + 1)
           L2 == LoneCRs(s, toks2, poss2, n + 2)
<1>1. /\ IsFiniteSet(LFs(s, a)) /\ IsFiniteSet(L)
      /\ Cardinality(LFs(s, a)) \in Nat /\ Cardinality(L) \in Nat
  BY BreaksAreCounted
<1>2. n + 1 \notin L
  BY DEF LoneCRs
<1>3. CASE s[a] = CR /\ s[a + 1] # LF
  <2>1. LFs(s, q) = LFs(s, a)
    BY <1>3 DEF LFs, Break, LF, CR
  <2>2. L2 = L \cup {n + 1}
    BY <1>3 DEF LoneCR
  <2>3. Cardinality(L2) = Cardinality(L) + 1
    BY <1>1, <1>2, <2>2, FS_AddElement
  <2> QED
    BY <1>1, <2>1, <2>3
<1>4. CASE s[a] = LF \/ s[a + 1] = LF
  <2>1. PICK k \in {a, a + 1} : LFs(s, q) = LFs(s, a) \cup {k}
    <3>1. CASE s[a] = LF
      BY <3>1 DEF LFs, Break, LF, CR
    <3>2. CASE s[a] # LF
      BY <1>4, <3>2 DEF LFs, Break, LF, CR
    <3> QED
      BY <3>1, <3>2
  <2>2. k \notin LFs(s, a)
    BY DEF LFs
  <2>3. Cardinality(LFs(s, q)) = Cardinality(LFs(s, a)) + 1
    <3>1. Cardinality(LFs(s, a) \cup {k}) = Cardinality(LFs(s, a)) + 1
      BY <1>1, <2>2, FS_AddElement
    <3> QED
      BY <2>1, <3>1
  <2>4. L2 = L
    BY <1>4 DEF LoneCR, Break, LF, CR
  <2> QED
    BY <1>1, <2>3, <2>4
<1> QED
  BY <1>3, <1>4 DEF Break

(* After the token of a line break. *)
LEMMA MarkedBreak ==
  ASSUME NEW s, NEW toks, NEW poss \in Seq(Token_Pos),
         NEW toks2, NEW poss2 \in Seq(Token_Pos),
         Longer(toks, poss, toks2, poss2),
         NEW a \in Nat \ {0}, NEW q \in Nat, NEW ln \in Nat, NEW ls \in Nat,
         Marked(s, toks, poss, a, ln, ls),
         poss2[Len(poss) + 1].start = a,
         poss2[Len(poss) + 1].end = q,
         poss2[Len(poss) + 1].line_number = ln,
         poss2[Len(poss) + 1].character_number = a - ls,
         a \in 1..Len(s), q \in a..(Len(s) + 1), Break(s, a, q),
         toks2[Len(poss) + 1].token = TOKEN_BREAK
  PROVE  Marked(s, toks2, poss2, q, ln + 1, q)
<1> DEFINE n == Len(poss)
           E == Ends(s, toks, poss, n + 1)
           E2 == Ends(s, toks2, poss2, n + 2)
<1>1. /\ n \in Nat /\ Len(poss2) = n + 1 /\ Len(poss2) + 1 = n + 2 /\ a < q
  BY DEF Longer, Break
<1>2. Stored(s, toks2, poss2)
  <2>1. Shaped(s, toks2[n + 1], poss2[n + 1])
    BY DEF Shaped
  <2> QED
    BY <2>1, StoredLonger
<1>3. Before(toks2[n + 1], poss2[n + 1], q, ln + 1, q)
  BY DEF Before
<1>4. Ending(s, toks2, poss2, n + 1)
  BY DEF Ending, Break
<1>5. /\ LoneCRs(s, toks2, poss2, n + 2) =
           LoneCRs(s, toks, poss, n + 1)
             \cup (IF LoneCR(s, toks2, poss2, n + 1) THEN {n + 1} ELSE {})
      /\ E2 = E \cup {q}
  BY <1>4, ALineEnds
<1>6. ln + 1 = 1 + Cardinality(LFs(s, q)) + Cardinality(LoneCRs(s, toks2, poss2, n + 2))
  <2>1. Cardinality(LFs(s, q)) + Cardinality(LoneCRs(s, toks2, poss2, n + 2))
          = Cardinality(LFs(s, a)) + Cardinality(LoneCRs(s, toks, poss, n + 1)) + 1
    BY <1>1, <1>5, OneBreakMore
  <2>2. ln = 1 + Cardinality(LFs(s, a)) + Cardinality(LoneCRs(s, toks, poss, n + 1))
    BY DEF Marked, Counted
  <2> DEFINE x == Cardinality(LFs(s, q))
             y == Cardinality(LoneCRs(s, toks2, poss2, n + 2))
             u == Cardinality(LFs(s, a))
             v == Cardinality(LoneCRs(s, toks, poss, n + 1))
  <2>3. x \in Nat /\ y \in Nat /\ u \in Nat /\ v \in Nat
    <3>1. n + 1 \in Nat /\ n + 2 \in Nat
      BY <1>1
    <3> QED
      BY <3>1, BreaksAreCounted
  <2>4. x + y = u + v + 1 /\ ln = 1 + u + v
    BY <2>1, <2>2
  <2> HIDE DEF x, y, u, v
  <2>5. ln + 1 = 1 + x + y
    BY <2>3, <2>4
  <2> QED
    BY <2>5 DEF x, y
<1>7. \A e \in E2 : e <= q
  <2>1. \A e \in E : e \in Nat /\ e <= a
    BY EndsAreBytes DEF Marked
  <2> QED
    BY <1>1, <1>5, <2>1
<1>8. q \in Begins(s, E2, q) /\ \A x \in Begins(s, E2, q) : x <= q
  BY <1>1, <1>5, <1>7 DEF Begins
<1>9. Counted(s, toks2, poss2, n + 2, q, ln + 1, q)
  BY <1>6, <1>8 DEF Counted
<1> QED
  BY <1>1, <1>2, <1>3, <1>7, <1>9 DEF Marked

(* The EOFs found stay, and the new token may be one more. *)
LEMMA EofsLonger ==
  ASSUME NEW s, NEW toks, NEW poss \in Seq(Token_Pos), NEW toks2, NEW poss2,
         Longer(toks, poss, toks2, poss2),
         NEW a \in Nat \ {0}, NEW q \in Nat,
         Eofs(s, toks, poss, a),
         \A k \in a..(q - 1) : s[k] = NUL => EofAt(toks2, poss2, Len(poss) + 1, k)
  PROVE  Eofs(s, toks2, poss2, q)
<1>1. Len(poss) \in Nat /\ Len(poss2) = Len(poss) + 1
  BY DEF Longer
<1> SUFFICES ASSUME NEW k \in 1..(q - 1), s[k] = NUL
             PROVE  \E i \in 1..Len(poss2) : EofAt(toks2, poss2, i, k)
  BY DEF Eofs
<1>2. CASE k < a
  <2>1. PICK i \in 1..Len(poss) : EofAt(toks, poss, i, k)
    BY <1>2 DEF Eofs
  <2>2. EofAt(toks2, poss2, i, k) /\ i \in 1..Len(poss2)
    BY <1>1, <2>1 DEF EofAt, Longer
  <2> QED
    BY <2>2
<1>3. CASE k >= a
  BY <1>1, <1>3
<1> QED
  BY <1>2, <1>3

-----------------------------------------------------------------------------
(* The lexer's own arrays.                                                 *)

(* What lex_append_tok stores when it can. *)
LEMMA AppendMakesLonger ==
  ASSUME TypeOK, NEW tok \in Token, NEW pos \in Token_Pos, NEW q \in Nat,
         lex_append_tok(tok, pos, q), pc' = "lex_dispatch"
  PROVE  /\ Longer(tok_array, pos_array, tok_array', pos_array')
         /\ pos_array' \in Seq(Token_Pos)
         /\ Len(tok_array') = Len(pos_array')
         /\ tok_array'[Len(pos_array) + 1] = tok
         /\ pos_array'[Len(pos_array) + 1].start = pos.start
         /\ pos_array'[Len(pos_array) + 1].end = q
         /\ pos_array'[Len(pos_array) + 1].line_number = pos.line_number
         /\ pos_array'[Len(pos_array) + 1].character_number = pos.character_number
<1>1. /\ tok_array \in Seq(Token) /\ pos_array \in Seq(Token_Pos)
      /\ Len(pos_array) = Len(tok_array)
  BY DEF TypeOK
<1>2. /\ tok_array' = Append(tok_array, tok)
      /\ pos_array' = Append(pos_array, token_pos')
      /\ token_pos' = [pos EXCEPT !.end = q]
  BY DEF lex_append_tok
<1>3. token_pos' \in Token_Pos
  BY AppendTypes
<1>4. /\ token_pos'.start = pos.start /\ token_pos'.end = q
      /\ token_pos'.line_number = pos.line_number
      /\ token_pos'.character_number = pos.character_number
  BY <1>2 DEF Token_Pos
<1>5. /\ Len(tok_array') = Len(tok_array) + 1
      /\ \A i \in 1..Len(tok_array) : tok_array'[i] = tok_array[i]
      /\ tok_array'[Len(tok_array) + 1] = tok
  BY <1>1, <1>2, AppendProperties
<1>6. /\ pos_array' \in Seq(Token_Pos)
      /\ Len(pos_array') = Len(pos_array) + 1
      /\ \A i \in 1..Len(pos_array) : pos_array'[i] = pos_array[i]
      /\ pos_array'[Len(pos_array) + 1] = token_pos'
  BY <1>1, <1>2, <1>3, AppendProperties
<1> QED
  BY <1>1, <1>4, <1>5, <1>6 DEF Longer

(* lex_append_tok, whether it stores the token or the run ends. *)
LEMMA AppendPosition ==
  ASSUME LexerInv, Stored(src, tok_array, pos_array), src' = src,
         NEW tok \in Token, NEW pos \in Token_Pos, NEW q \in Nat,
         lex_append_tok(tok, pos, q),
         pc' = "lex_dispatch" =>
           Seen(src, tok_array', pos_array', q, line_num', line_start'),
         q = limit => tok = ValueToken(TOKEN_EOF) /\ pos.start = Len(src)
  PROVE  PositionInv'
<1>1. ptr' = q /\ pc' \in {"lex_dispatch", "oom", "overflow"} /\ limit' = limit
  BY DEF lex_append_tok, limit
<1>2. CASE pc' = "lex_dispatch"
  <2>1. Seen(src', tok_array', pos_array', ptr', line_num', line_start')
    BY <1>1, <1>2
  <2>2. Stored(src', tok_array', pos_array')
    BY <2>1 DEF Seen, Marked
  <2>3. ASSUME q = limit
        PROVE  tok_count' > 0 /\ EofAt(tok_array', pos_array', tok_count', Len(src'))
    <3>1. TypeOK /\ Len(pos_array) \in Nat /\ limit = Len(src) + 1
      BY DEF LexerInv, TypeOK, limit
    <3>2. /\ tok_count' = Len(pos_array) + 1
          /\ tok_array'[Len(pos_array) + 1] = tok
          /\ pos_array'[Len(pos_array) + 1].start = pos.start
          /\ pos_array'[Len(pos_array) + 1].end = q
      BY <1>2, <3>1, AppendMakesLonger DEF tok_count, Longer
    <3> QED
      BY <2>3, <3>1, <3>2 DEF EofAt
  <2> QED
    BY <1>1, <1>2, <2>1, <2>2, <2>3 DEF PositionInv, Handlers
<1>3. CASE pc' # "lex_dispatch"
  <2>1. tok_array' = tok_array /\ pos_array' = pos_array
    BY <1>3 DEF lex_append_tok
  <2>2. Stored(src', tok_array', pos_array')
    BY <2>1
  <2> QED
    BY <1>1, <1>3, <2>2 DEF PositionInv, Handlers
<1> QED
  BY <1>2, <1>3

(* The lexer is inside a token that starts at a. *)
At(pos, a) ==
  /\ pos \in Token_Pos
  /\ pos.start = a /\ pos.line_number = line_num /\ pos.character_number = a - line_start
  /\ Seen(src, tok_array, pos_array, a, line_num, line_start)

(* A token that neither runs over a break nor is one. *)
LEMMA PlainToken ==
  ASSUME LexerInv, src' = src, NEW tok \in Token, NEW pos,
         NEW a \in Nat \ {0}, NEW q \in Nat, At(pos, a),
         lex_append_tok(tok, pos, q), UNCHANGED <<line_num, line_start>>,
         a <= q, q < limit, q = a => tok.token = DOT, Plain(src, a, q),
         NoBreak(src, a, q)
  PROVE  PositionInv'
<1>1. /\ TypeOK /\ pos_array \in Seq(Token_Pos) /\ line_num \in Nat /\ line_start \in Nat
  BY DEF LexerInv, TypeOK
<1>2. /\ Marked(src, tok_array, pos_array, a, line_num, line_start)
      /\ Eofs(src, tok_array, pos_array, a) /\ pos \in Token_Pos
      /\ pos.start = a /\ pos.line_number = line_num
      /\ pos.character_number = a - line_start
  BY DEF At, Seen
<1>3. ASSUME pc' = "lex_dispatch"
      PROVE  Seen(src, tok_array', pos_array', q, line_num', line_start')
  <2>1. /\ Longer(tok_array, pos_array, tok_array', pos_array')
        /\ pos_array' \in Seq(Token_Pos)
        /\ tok_array'[Len(pos_array) + 1] = tok
        /\ pos_array'[Len(pos_array) + 1].start = a
        /\ pos_array'[Len(pos_array) + 1].end = q
        /\ pos_array'[Len(pos_array) + 1].line_number = line_num
        /\ pos_array'[Len(pos_array) + 1].character_number = a - line_start
    BY <1>1, <1>2, <1>3, AppendMakesLonger
  <2>2. \A k \in a..(q - 1) : src[k] # LF /\ src[k] # NUL
    BY DEF Plain
  <2>3. Marked(src, tok_array', pos_array', q, line_num, line_start)
    <3>1. a \in 1..Len(src) /\ q \in a..(Len(src) + 1)
      BY <1>1 DEF limit, LexerInv, TypeOK
    <3> QED
      BY <1>1, <1>2, <2>1, <3>1, MarkedToken
  <2>4. Eofs(src, tok_array', pos_array', q)
    BY <1>1, <1>2, <2>1, <2>2, EofsLonger
  <2> QED
    BY <2>3, <2>4 DEF Seen
<1>4. q # limit /\ Stored(src, tok_array, pos_array)
  BY <1>1, <1>2 DEF Marked, limit
<1> QED
  BY <1>2, <1>3, <1>4, AppendPosition

(* The token of a NUL. *)
LEMMA EofToken ==
  ASSUME LexerInv, src' = src, NEW pos, NEW a \in 1..Len(src), At(pos, a), src[a] = NUL,
         lex_append_tok(ValueToken(TOKEN_EOF), pos, a + 1),
         UNCHANGED <<line_num, line_start>>
  PROVE  PositionInv'
<1>1. /\ TypeOK /\ pos_array \in Seq(Token_Pos) /\ line_num \in Nat /\ line_start \in Nat
      /\ a \in Nat \ {0} /\ a + 1 \in Nat /\ limit = Len(src) + 1 /\ Len(src) \in Nat
  BY DEF LexerInv, TypeOK, limit
<1>2. /\ Marked(src, tok_array, pos_array, a, line_num, line_start)
      /\ Eofs(src, tok_array, pos_array, a) /\ pos \in Token_Pos
      /\ pos.start = a /\ pos.line_number = line_num
      /\ pos.character_number = a - line_start
  BY DEF At, Seen
<1>3. ValueToken(TOKEN_EOF) \in Token
  BY TokensAreTokens DEF TOKEN_EOF, Char, Special
<1>4. ASSUME pc' = "lex_dispatch"
      PROVE  Seen(src, tok_array', pos_array', a + 1, line_num', line_start')
  <2>1. /\ Longer(tok_array, pos_array, tok_array', pos_array')
        /\ pos_array' \in Seq(Token_Pos)
        /\ tok_array'[Len(pos_array) + 1] = ValueToken(TOKEN_EOF)
        /\ pos_array'[Len(pos_array) + 1].start = a
        /\ pos_array'[Len(pos_array) + 1].end = a + 1
        /\ pos_array'[Len(pos_array) + 1].line_number = line_num
        /\ pos_array'[Len(pos_array) + 1].character_number = a - line_start
    BY <1>1, <1>2, <1>3, <1>4, AppendMakesLonger
  <2>2. NoBreak(src, a, a + 1)
    BY <1>1 DEF NoBreak, NUL, LF, CR
  <2>3. \A k \in a..((a + 1) - 1) : k = a
    BY <1>1
  <2>4. Marked(src, tok_array', pos_array', a + 1, line_num, line_start)
    <3>1. a + 1 \in a..(Len(src) + 1) /\ a + 1 # a
      BY <1>1
    <3> HIDE DEF TOKEN_EOF
    <3> QED
      BY <1>1, <1>2, <2>1, <2>2, <3>1, MarkedToken
  <2>5. EofAt(tok_array', pos_array', Len(pos_array) + 1, a)
    BY <2>1 DEF EofAt
  <2>6. Eofs(src, tok_array', pos_array', a + 1)
    BY <1>1, <1>2, <2>1, <2>3, <2>5, EofsLonger
  <2> QED
    BY <2>4, <2>6 DEF Seen
<1>5. Stored(src, tok_array, pos_array) /\ (a + 1 = limit => pos.start = Len(src))
  BY <1>1, <1>2 DEF Marked
<1> QED
  BY <1>1, <1>2, <1>3, <1>4, <1>5, AppendPosition

(* The token of a line break. *)
LEMMA BreakToken ==
  ASSUME LexerInv, src' = src, NEW pos, NEW a \in Nat \ {0}, NEW q \in Nat, At(pos, a),
         Break(src, a, q), q < limit,
         lex_append_tok(ValueToken(TOKEN_BREAK), pos, q),
         line_num' = line_num + 1, line_start' = q
  PROVE  PositionInv'
<1>1. /\ TypeOK /\ pos_array \in Seq(Token_Pos) /\ line_num \in Nat /\ line_start \in Nat
  BY DEF LexerInv, TypeOK
<1>2. /\ Marked(src, tok_array, pos_array, a, line_num, line_start)
      /\ Eofs(src, tok_array, pos_array, a) /\ pos \in Token_Pos
      /\ pos.start = a /\ pos.line_number = line_num
      /\ pos.character_number = a - line_start
  BY DEF At, Seen
<1>3. ValueToken(TOKEN_BREAK) \in Token /\ ValueToken(TOKEN_BREAK).token = TOKEN_BREAK
  BY TokensAreTokens DEF TOKEN_BREAK, Char, Special, ValueToken
<1>4. ASSUME pc' = "lex_dispatch"
      PROVE  Seen(src, tok_array', pos_array', q, line_num', line_start')
  <2>1. /\ Longer(tok_array, pos_array, tok_array', pos_array')
        /\ pos_array' \in Seq(Token_Pos)
        /\ tok_array'[Len(pos_array) + 1].token = TOKEN_BREAK
        /\ pos_array'[Len(pos_array) + 1].start = a
        /\ pos_array'[Len(pos_array) + 1].end = q
        /\ pos_array'[Len(pos_array) + 1].line_number = line_num
        /\ pos_array'[Len(pos_array) + 1].character_number = a - line_start
    BY <1>1, <1>2, <1>3, <1>4, AppendMakesLonger
  <2>2. Marked(src, tok_array', pos_array', q, line_num + 1, q)
    <3>1. a \in 1..Len(src) /\ q \in a..(Len(src) + 1)
      BY DEF limit, LexerInv, TypeOK, Break
    <3> QED
      BY <1>1, <1>2, <2>1, <3>1, MarkedBreak
  <2>3. \A k \in a..(q - 1) : src[k] # NUL
    BY DEF Break, LF, CR, NUL
  <2>4. Eofs(src, tok_array', pos_array', q)
    BY <1>1, <1>2, <2>1, <2>3, EofsLonger
  <2> QED
    BY <2>2, <2>4 DEF Seen
<1>5. q # limit /\ Stored(src, tok_array, pos_array)
  BY <1>2 DEF Marked, limit, LexerInv, TypeOK
<1> QED
  BY <1>2, <1>3, <1>4, <1>5, AppendPosition

-----------------------------------------------------------------------------
(* The functions of the lexer.                                             *)

(* What every function knows. *)
LEMMA Facts ==
  ASSUME LexerInv
  PROVE  /\ src \in Seq(Char) /\ Len(src) \in Nat /\ limit = Len(src) + 1
         /\ ptr \in 1..limit /\ line_num \in Nat /\ line_start \in 1..ptr
         /\ line_start \in Nat
         /\ token_pos \in Token_Pos /\ pos_array \in Seq(Token_Pos)
         /\ \A p \in 1..Len(src) : src[p] # NUL => p < Len(src)
BY OnlyNulIsLast DEF LexerInv, TypeOK, ControlOK, limit

(* A handler is at its byte; but for a comment's, its token begins there. *)
LEMMA InHandler ==
  ASSUME LexerInv, PositionInv, pc \in Handlers
  PROVE  /\ ptr \in 1..Len(src) /\ src[ptr] \in ByteAt(pc)
         /\ pc \notin Comments => At(token_pos, ptr)
<1>1. ptr \in 1..Len(src) /\ src[ptr] \in ByteAt(pc)
  BY Facts DEF LexerInv, ControlOK
<1>2. InToken
  BY DEF PositionInv
<1>3. ASSUME pc \notin Comments PROVE At(token_pos, ptr)
  <2>1. token_pos.start = ptr
    BY <1>2, <1>3 DEF InToken
  <2> QED
    BY <1>2, <2>1, Facts DEF InToken, At
<1> QED
  BY <1>1, <1>3

(* Characters that end no line. *)
LEMMA NoBreaks ==
  /\ \A c \in IdentChar \cup NumChar \cup Punct \cup {SP, STAR, SLASH, DQ, SQ, DOT} :
       c \notin {LF, CR, NUL}
  /\ Letter \cup Digit \subseteq IdentChar
  /\ Digit \cup {DOT} \subseteq NumChar
<1>1. /\ (Letter \cup Digit \cup Punct) \cap {LF, CR, NUL} = {}
      /\ {"x", "b"} \subseteq Letter
  BY CharAssumption DEF Special
<1> QED
  BY <1>1 DEF IdentChar, NumChar, LF, CR, NUL, SP, STAR, SLASH, DQ, SQ, DOT

(* Nothing moves in lex_dispatch but pc. *)
LEMMA DispatchKeepsPositions ==
  ASSUME LexerInv, PositionInv, lex_dispatch
  PROVE  PositionInv'
<1>1. /\ pc = "lex_dispatch" /\ pc' = IF ptr >= limit THEN "return" ELSE "lexer_next"
      /\ UNCHANGED <<src, ptr, line_start, line_num, token_pos, tok_array, pos_array>>
  BY DEF lex_dispatch, AtLimit
<1>2. limit' = limit /\ tok_count' = tok_count
  BY <1>1 DEF limit, tok_count
<1>3. /\ Stored(src', tok_array', pos_array')
      /\ Seen(src', tok_array', pos_array', ptr', line_num', line_start')
  BY <1>1 DEF PositionInv
<1>4. pc' = "return" => ptr' = limit'
  BY <1>1, <1>2, Facts
<1>5. pc' = "return" => tok_count' > 0 /\ EofAt(tok_array', pos_array', tok_count', Len(src'))
  BY <1>1, <1>2, <1>4 DEF PositionInv
<1> QED
  BY <1>1, <1>3, <1>4, <1>5 DEF PositionInv, Handlers

(* Tokens of one character, and the hand-over to the others. *)
LEMMA NextCharKeepsPositions ==
  ASSUME LexerInv, PositionInv, lexer_next
  PROVE  PositionInv'
<1>1. PICK q \in ScanStops(ptr, {SP}) :
        \/ /\ src[q] \in Punct \cup {STAR}
           /\ lex_append_tok(ValueToken(src[q]), StoredPos(q), q + 1)
        \/ /\ src[q] \notin Punct \cup {STAR}
           /\ pc' = HandlerOf(src[q])
           /\ ptr' = q
           /\ token_pos' = StoredPos(q)
           /\ UNCHANGED <<tok_array, pos_array, tok_capacity, tok_alloc>>
  BY DEF lexer_next
<1>2. pc = "lexer_next" /\ UNCHANGED <<src, line_start, line_num>>
  BY DEF lexer_next
<1>3. /\ q \in ptr..Len(src) /\ src[q] # SP /\ src[q] \in Char
      /\ \A r \in ptr..(q - 1) : src[r] = SP
  BY Facts DEF ScanStops
<1>4. Plain(src, ptr, q)
  BY <1>3, NoBreaks DEF Plain
<1>5. Seen(src, tok_array, pos_array, q, line_num, line_start)
  <2>1. Seen(src, tok_array, pos_array, ptr, line_num, line_start)
    BY <1>2 DEF PositionInv
  <2>2. ptr \in Nat \ {0} /\ q \in Nat /\ ptr <= q
    BY <1>3, Facts
  <2> QED
    BY <1>4, <2>1, <2>2, Facts, SeenFurther
<1>6. At(StoredPos(q), q)
  <2>1. q - line_start \in Nat /\ q \in Nat
    BY <1>3, Facts
  <2>2. StoredPos(q) \in Token_Pos
    BY <2>1, Facts DEF StoredPos, Token_Pos
  <2> QED
    BY <1>5, <2>2 DEF At, StoredPos
<1>7. CASE /\ src[q] \in Punct \cup {STAR}
           /\ lex_append_tok(ValueToken(src[q]), StoredPos(q), q + 1)
  <2>1. src[q] \notin {LF, CR, NUL}
    BY <1>7, NoBreaks
  <2>2. q + 1 < limit /\ q \in Nat \ {0} /\ q + 1 \in Nat /\ q <= q + 1 /\ q + 1 # q
    BY <1>3, <2>1, Facts
  <2>3. Plain(src, q, q + 1) /\ NoBreak(src, q, q + 1)
    BY <1>3, <2>1, Facts DEF Plain, NoBreak
  <2>4. ValueToken(src[q]) \in Token
    BY <1>3, TokensAreTokens
  <2> QED
    BY <1>2, <1>6, <1>7, <2>2, <2>3, <2>4, PlainToken
<1>8. CASE /\ src[q] \notin Punct \cup {STAR}
           /\ pc' = HandlerOf(src[q])
           /\ ptr' = q
           /\ token_pos' = StoredPos(q)
           /\ UNCHANGED <<tok_array, pos_array, tok_capacity, tok_alloc>>
  <2>1. pc' \in Handlers /\ src[q] \in ByteAt(pc')
    BY <1>3, <1>8, SwitchFitsTheHandler
  <2>2. pc' \notin Comments
    <3>1. pc' # "lex_parse_multi_comment"
      BY <1>8, <2>1 DEF ByteAt
    <3>2. ASSUME pc' = "lex_parse_single_comment" PROVE FALSE
      <4>1. src[q] = SLASH
        BY <2>1, <3>2 DEF ByteAt
      <4>2. HandlerOf(SLASH) = "lex_parse_slash"
        BY CharAssumption DEF HandlerOf, SLASH, NUL, DOT, DQ, SQ, CR, LF, Special
      <4> QED
        BY <1>8, <3>2, <4>1, <4>2
    <3> QED
      BY <3>1, <3>2 DEF Comments
  <2>3. InToken'
    <3>1. q \in 1..q /\ Plain(src, q, q)
      BY <1>3, Facts DEF Plain
    <3> QED
      BY <1>2, <1>6, <1>8, <2>2, <3>1 DEF InToken, At
  <2>4. Stored(src', tok_array', pos_array')
    BY <1>2, <1>8 DEF PositionInv
  <2> QED
    BY <2>1, <2>3, <2>4 DEF PositionInv, Handlers
<1> QED
  BY <1>1, <1>7, <1>8

(* The EOF of a NUL. *)
LEMMA EofKeepsPositions ==
  ASSUME LexerInv, PositionInv, lex_parse_eof
  PROVE  PositionInv'
<1>1. /\ pc = "lex_parse_eof" /\ lex_append_tok(ValueToken(TOKEN_EOF), token_pos, ptr + 1)
      /\ UNCHANGED <<src, line_start, line_num>>
  BY DEF lex_parse_eof, lex_append_tok_val
<1>2. pc \in Handlers /\ pc \notin Comments
  BY <1>1 DEF Handlers, Comments
<1>3. ptr \in 1..Len(src) /\ src[ptr] = NUL /\ At(token_pos, ptr)
  BY <1>1, <1>2, InHandler DEF ByteAt
<1> QED
  BY <1>1, <1>3, EofToken

(* A lexeme that begins at ptr, where the handler is, and ends at q. *)
LEMMA LexemeKeepsPositions ==
  ASSUME LexerInv, PositionInv, pc \in Handlers, pc \notin Comments,
         NEW tok \in Token, NEW q \in (ptr + 1)..Len(src), Plain(src, ptr, q),
         NoBreak(src, ptr, q),
         lex_append_tok(tok, token_pos, q), UNCHANGED <<src, line_start, line_num>>
  PROVE  PositionInv'
<1>1. ptr \in Nat \ {0} /\ q \in Nat /\ ptr <= q /\ q # ptr /\ q < limit
  BY Facts
<1>2. At(token_pos, ptr)
  BY InHandler
<1> QED
  BY <1>1, <1>2, PlainToken

(* An identifier or a keyword has no line break and no NUL in it. *)
LEMMA IdentifierKeepsPositions ==
  ASSUME LexerInv, PositionInv, lex_parse_identifier
  PROVE  PositionInv'
<1>1. PICK q \in ScanStops(ptr + 1, IdentChar) :
        \/ lex_append_tok_substr("IDENTIFIER", q)
        \/ \E i \in DOMAIN tok_map :
             IF tok_map[i].value \in BoolKeyword
             THEN lex_append_tok(BoolToken, token_pos, q)
             ELSE lex_append_tok_val(tok_map[i].value, q)
  BY DEF lex_parse_identifier, FindLen
<1>2. /\ pc = "lex_parse_identifier" /\ pc \in Handlers /\ pc \notin Comments
      /\ UNCHANGED <<src, line_start, line_num>>
  BY DEF lex_parse_identifier, Handlers, Comments
<1>3. ptr \in 1..Len(src) /\ src[ptr] \in IdentChar
  BY <1>2, InHandler, NoBreaks DEF ByteAt
<1>4. q \in (ptr + 1)..Len(src) /\ \A r \in ptr..(q - 1) : src[r] \in IdentChar
  BY <1>3, Facts DEF ScanStops
<1>5. Plain(src, ptr, q) /\ NoBreak(src, ptr, q)
  BY <1>3, <1>4, NoBreaks DEF Plain, NoBreak
<1>6. CASE lex_append_tok_substr("IDENTIFIER", q)
  <2>1. TextToken("IDENTIFIER", SubSeq(src, ptr, q - 1)) \in Token
    <3>1. q \in ptr..limit /\ "IDENTIFIER" \in TokenTypes
      BY <1>3, <1>4, Facts DEF TokenTypes
    <3> QED
      BY <1>3, <3>1, SourceText, TokensAreTokens
  <2> QED
    BY <1>2, <1>4, <1>5, <1>6, <2>1, LexemeKeepsPositions DEF lex_append_tok_substr
<1>7. ASSUME NEW i \in DOMAIN tok_map, tok_map[i].value \in BoolKeyword,
             lex_append_tok(BoolToken, token_pos, q)
      PROVE  PositionInv'
  BY <1>2, <1>4, <1>5, <1>7, TokensAreTokens, LexemeKeepsPositions
<1>8. ASSUME NEW i \in DOMAIN tok_map, lex_append_tok_val(tok_map[i].value, q)
      PROVE  PositionInv'
  <2>1. ValueToken(tok_map[i].value) \in Token
    BY TokensAreTokens DEF KeywordValues
  <2> QED
    BY <1>2, <1>4, <1>5, <1>8, <2>1, LexemeKeepsPositions DEF lex_append_tok_val
<1> QED
  BY <1>1, <1>6, <1>7, <1>8

(* A token of text. *)
LEMMA TextKeepsPositions ==
  ASSUME LexerInv, PositionInv, pc \in Handlers, pc \notin Comments,
         NEW type \in TokenTypes, NEW q \in (ptr + 1)..Len(src), Plain(src, ptr, q),
         NoBreak(src, ptr, q), lex_append_tok_substr(type, q),
         UNCHANGED <<src, line_start, line_num>>
  PROVE  PositionInv'
<1> DEFINE tok == TextToken(type, SubSeq(src, ptr, q - 1))
<1>1. ptr \in 1..Len(src) /\ q \in ptr..limit
  BY InHandler, Facts
<1>2. tok \in Token
  BY <1>1, SourceText, TokensAreTokens
<1>3. lex_append_tok(tok, token_pos, q)
  BY DEF lex_append_tok_substr
<1> HIDE DEF tok
<1> QED
  BY <1>2, <1>3, LexemeKeepsPositions

(* Nor has a number. *)
LEMMA NumberKeepsPositions ==
  ASSUME LexerInv, PositionInv, lex_parse_num_literal
  PROVE  PositionInv'
<1>1. PICK q \in ScanStops(ptr, NumChar) : lex_append_tok_substr("LITERAL_NUM", q)
  BY DEF lex_parse_num_literal
<1>2. /\ pc = "lex_parse_num_literal" /\ pc \in Handlers /\ pc \notin Comments
      /\ UNCHANGED <<src, line_start, line_num>>
  BY DEF lex_parse_num_literal, Handlers, Comments
<1>3. ptr \in 1..Len(src) /\ src[ptr] \in NumChar
  BY <1>2, InHandler, NoBreaks DEF ByteAt
<1>4. q \in (ptr + 1)..Len(src) /\ \A r \in ptr..(q - 1) : src[r] \in NumChar
  BY <1>3, Facts DEF ScanStops
<1>5. Plain(src, ptr, q) /\ NoBreak(src, ptr, q)
  BY <1>3, <1>4, NoBreaks DEF Plain, NoBreak
<1>6. "LITERAL_NUM" \in TokenTypes
  BY DEF TokenTypes
<1> QED
  BY <1>1, <1>2, <1>4, <1>5, <1>6, TextKeepsPositions

(* A literal in quotes ends at the first line break or NUL. *)
LEMMA QuotedKeepsPositions ==
  ASSUME LexerInv, PositionInv, pc \in Handlers, pc \notin Comments,
         NEW quote \in {DQ, SQ}, src[ptr] = quote,
         NEW type \in TokenTypes, QuotedLiteral(quote, type)
  PROVE  PositionInv'
<1>1. PICK q \in ScanStops(ptr + 1, Char \ (LineEnd \cup {quote})) :
        lex_append_tok_substr(type, IF src[q] = quote THEN q + 1 ELSE q)
  BY DEF QuotedLiteral
<1>2. UNCHANGED <<src, line_start, line_num>>
  BY DEF QuotedLiteral
<1>3. ptr \in 1..Len(src) /\ quote \notin {LF, CR, NUL}
  BY InHandler, NoBreaks
<1>4. /\ q \in (ptr + 1)..Len(src)
      /\ \A r \in (ptr + 1)..(q - 1) : src[r] \notin {LF, CR, NUL}
  BY <1>3, Facts DEF ScanStops, LineEnd
<1> DEFINE e == IF src[q] = quote THEN q + 1 ELSE q
<1>5. e \in (ptr + 1)..Len(src)
  BY <1>3, <1>4, Facts
<1>6. Plain(src, ptr, e) /\ NoBreak(src, ptr, e)
  <2> SUFFICES ASSUME NEW k \in ptr..(e - 1) PROVE src[k] \notin {LF, CR, NUL}
    BY <1>3 DEF Plain, NoBreak
  <2>1. CASE k = ptr \/ (k = q /\ src[q] = quote)
    BY <1>3, <2>1
  <2>2. CASE k # ptr /\ ~(k = q /\ src[q] = quote)
    <3>1. k \in (ptr + 1)..(q - 1)
      BY <1>3, <1>4, <2>2
    <3> QED
      BY <1>4, <3>1
  <2> QED
    BY <2>1, <2>2
<1>7. lex_append_tok_substr(type, e)
  BY <1>1
<1> HIDE DEF e
<1> QED
  BY <1>2, <1>5, <1>6, <1>7, TextKeepsPositions

(* Both quotes do. *)
LEMMA LiteralKeepsPositions ==
  ASSUME LexerInv, PositionInv, lex_parse_string_literal \/ lex_parse_char_literal
  PROVE  PositionInv'
<1>1. "LITERAL_STR" \in TokenTypes /\ "LITERAL_CHAR" \in TokenTypes
  BY DEF TokenTypes
<1>2. CASE lex_parse_string_literal
  <2>1. /\ pc = "lex_parse_string_literal" /\ pc \in Handlers /\ pc \notin Comments
        /\ QuotedLiteral(DQ, "LITERAL_STR")
    BY <1>2 DEF lex_parse_string_literal, Handlers, Comments
  <2>2. src[ptr] = DQ
    BY <2>1, InHandler DEF ByteAt
  <2> QED
    BY <1>1, <2>1, <2>2, QuotedKeepsPositions
<1>3. CASE lex_parse_char_literal
  <2>1. /\ pc = "lex_parse_char_literal" /\ pc \in Handlers /\ pc \notin Comments
        /\ QuotedLiteral(SQ, "LITERAL_CHAR")
    BY <1>3 DEF lex_parse_char_literal, Handlers, Comments
  <2>2. src[ptr] = SQ
    BY <2>1, InHandler DEF ByteAt
  <2> QED
    BY <1>1, <2>1, <2>2, QuotedKeepsPositions
<1> QED
  BY <1>2, <1>3

(* A slash is a token, or the first byte of a comment. *)
LEMMA SlashKeepsPositions ==
  ASSUME LexerInv, PositionInv, lex_parse_slash
  PROVE  PositionInv'
<1>1. /\ pc = "lex_parse_slash" /\ pc \in Handlers /\ pc \notin Comments
      /\ UNCHANGED <<src, line_start, line_num>>
  BY DEF lex_parse_slash, Handlers, Comments
<1>2. ptr \in 1..Len(src) /\ src[ptr] = SLASH /\ At(token_pos, ptr)
  BY <1>1, InHandler DEF ByteAt
<1>3. /\ ptr + 1 \in (ptr + 1)..Len(src)
      /\ Plain(src, ptr, ptr + 1) /\ NoBreak(src, ptr, ptr + 1)
  BY <1>2, Facts DEF Plain, NoBreak, SLASH, LF, CR, NUL
<1>4. CASE lex_append_tok_val(TOKEN_SLASH, ptr + 1)
  <2>1. ValueToken(TOKEN_SLASH) \in Token
    BY TokensAreTokens DEF TOKEN_SLASH, Char, Special
  <2> QED
    BY <1>1, <1>3, <1>4, <2>1, LexemeKeepsPositions DEF lex_append_tok_val
<1>5. CASE /\ ptr' = ptr + 1
           /\ pc' \in Comments
           /\ UNCHANGED <<token_pos, tok_array, pos_array>>
  <2>1. InToken'
    <3>1. /\ token_pos'.start \in 1..ptr' /\ ptr' = token_pos'.start + 1
          /\ src'[token_pos'.start] = SLASH
      BY <1>1, <1>2, <1>5 DEF At
    <3>2. Plain(src', token_pos'.start, ptr')
      BY <1>1, <1>2, <1>3, <1>5 DEF At
    <3> QED
      BY <1>1, <1>2, <1>5, <3>1, <3>2 DEF InToken, At
  <2>2. Stored(src', tok_array', pos_array')
    BY <1>1, <1>5 DEF PositionInv
  <2> QED
    BY <1>5, <2>1, <2>2 DEF PositionInv, Comments
<1>6. \/ lex_append_tok_val(TOKEN_SLASH, ptr + 1)
      \/ /\ ptr' = ptr + 1
         /\ pc' \in Comments
         /\ UNCHANGED <<token_pos, tok_array, pos_array>>
  BY DEF lex_parse_slash, Comments
<1> QED
  BY <1>4, <1>5, <1>6

(* A comment is entered behind its first slash. *)
LEMMA InComment ==
  ASSUME LexerInv, PositionInv, pc \in Comments
  PROVE  /\ ptr \in 1..Len(src) /\ src[ptr] \in {SLASH, STAR}
         /\ token_pos.start \in 1..ptr /\ src[token_pos.start] = SLASH
         /\ ptr = token_pos.start + 1
         /\ Plain(src, token_pos.start, ptr) /\ At(token_pos, token_pos.start)
<1>1. pc \in Handlers /\ ByteAt(pc) \subseteq {SLASH, STAR}
  BY DEF Comments, Handlers, ByteAt
<1>2. InToken
  BY <1>1 DEF PositionInv
<1>3. ptr \in 1..Len(src) /\ src[ptr] \in {SLASH, STAR}
  BY <1>1, InHandler
<1> QED
  BY <1>2, <1>3, Facts DEF InToken, At

(* A line comment is the token of its line's end, and stops before it. *)
LEMMA LineCommentKeepsPositions ==
  ASSUME LexerInv, PositionInv, lex_parse_single_comment
  PROVE  PositionInv'
<1>1. PICK q \in ScanStops(ptr + 1, Char \ LineEnd) :
        lex_append_tok(ValueToken(TOKEN_BREAK), token_pos, q)
  BY DEF lex_parse_single_comment, lex_append_tok_val
<1>2. pc \in Comments /\ UNCHANGED <<src, line_start, line_num>>
  BY DEF lex_parse_single_comment, Comments
<1> DEFINE a == token_pos.start
<1>3. /\ ptr \in 1..Len(src) /\ src[ptr] \in {SLASH, STAR}
      /\ a \in 1..ptr /\ ptr = a + 1 /\ src[a] = SLASH
      /\ Plain(src, a, ptr) /\ At(token_pos, a)
  BY <1>2, InComment
<1> HIDE DEF a
<1>4. /\ q \in (ptr + 1)..Len(src)
      /\ \A r \in (ptr + 1)..(q - 1) : src[r] \notin {LF, CR, NUL}
  BY <1>3, Facts DEF ScanStops, LineEnd
<1>5. \A r \in ptr..(q - 1) : src[r] \notin {LF, CR, NUL}
  BY <1>3, <1>4 DEF SLASH, STAR, LF, CR, NUL
<1>6. Plain(src, a, q)
  BY <1>3, <1>4, <1>5 DEF Plain
<1>7. NoBreak(src, a, q)
  BY <1>3, <1>4, <1>5 DEF NoBreak, SLASH, LF, CR
<1>8. a \in Nat \ {0} /\ q \in Nat /\ a <= q /\ q # a /\ q < limit
  BY <1>3, <1>4, Facts
<1>9. ValueToken(TOKEN_BREAK) \in Token
  BY TokensAreTokens DEF TOKEN_BREAK, Char, Special
<1> QED
  BY <1>1, <1>2, <1>3, <1>6, <1>7, <1>8, <1>9, PlainToken

(* Where nothing is appended, and no token begun. *)
LEMMA SkippedKeepsPositions ==
  ASSUME LexerInv, PositionInv, UNCHANGED <<src, tok_array, pos_array>>,
         pc' \in {"lex_dispatch", "multi_comment_loop"}, ptr' < limit,
         Seen(src, tok_array, pos_array, ptr', line_num', line_start')
  PROVE  PositionInv'
<1>1. Stored(src', tok_array', pos_array') /\ ptr' # limit'
  BY Facts DEF PositionInv, limit
<1> QED
  BY <1>1 DEF PositionInv, Handlers

(* A block comment begins behind its slash and star. *)
LEMMA CommentKeepsPositions ==
  ASSUME LexerInv, PositionInv, lex_parse_multi_comment
  PROVE  PositionInv'
<1>1. /\ pc \in Comments /\ pc \in Handlers /\ ptr' = ptr + 1 /\ pc' = "multi_comment_loop"
      /\ UNCHANGED <<src, line_start, line_num, tok_array, pos_array>>
  BY DEF lex_parse_multi_comment, Comments, Handlers
<1> DEFINE a == token_pos.start
<1>2. /\ ptr \in 1..Len(src) /\ src[ptr] \in {SLASH, STAR}
      /\ a \in 1..ptr /\ Plain(src, a, ptr) /\ At(token_pos, a)
  BY <1>1, InComment
<1>3. src[ptr] \notin {LF, NUL}
  BY <1>2 DEF SLASH, STAR, LF, NUL
<1> HIDE DEF a
<1>4. /\ a \in Nat \ {0} /\ ptr + 1 \in Nat /\ a <= ptr + 1 /\ ptr + 1 < limit
      /\ Plain(src, a, ptr + 1)
  BY <1>2, <1>3, Facts DEF Plain
<1>5. Seen(src, tok_array, pos_array, ptr + 1, line_num, line_start)
  BY <1>2, <1>4, Facts, SeenFurther DEF At
<1> QED
  BY <1>1, <1>4, <1>5, SkippedKeepsPositions

(* Inside a block comment an LF begins a line, and nothing else does. *)
LEMMA CommentLoopKeepsPositions ==
  ASSUME LexerInv, PositionInv, multi_comment_loop
  PROVE  PositionInv'
<1>1. /\ pc = "multi_comment_loop" /\ UNCHANGED <<src, tok_array, pos_array>>
      /\ pc' \in {"lex_dispatch", "multi_comment_loop"}
  BY DEF multi_comment_loop
<1>2. Seen(src, tok_array, pos_array, ptr, line_num, line_start)
  BY <1>1 DEF PositionInv
<1>3. ptr \in 1..Len(src) /\ ptr \in Nat \ {0}
  BY <1>1, Facts DEF LexerInv, ControlOK
<1>4. CASE src[ptr] = NUL
  <2>1. UNCHANGED <<ptr, line_start, line_num>>
    BY <1>4 DEF multi_comment_loop
  <2> QED
    BY <1>1, <1>2, <1>3, <2>1, Facts, SkippedKeepsPositions
<1>5. CASE src[ptr] = LF
  <2>1. ptr' = ptr + 1 /\ line_start' = ptr /\ line_num' = line_num + 1
    BY <1>5 DEF multi_comment_loop, Opens, Closes, LF, NUL, SLASH, STAR
  <2>2. ptr + 1 < limit
    BY <1>3, <1>5, Facts DEF LF, NUL
  <2>3. Seen(src, tok_array, pos_array, ptr + 1, line_num + 1, ptr)
    BY <1>2, <1>3, <1>5, Facts, SeenBreak
  <2> QED
    BY <1>1, <2>1, <2>2, <2>3, SkippedKeepsPositions
<1>6. CASE src[ptr] \notin {NUL, LF}
  <2>1. /\ ptr' = IF Opens(ptr) \/ Closes(ptr) THEN ptr + 2 ELSE ptr + 1
        /\ UNCHANGED <<line_start, line_num>>
    BY <1>6 DEF multi_comment_loop
  <2>2. ptr' \in (ptr + 1)..Len(src) /\ Plain(src, ptr, ptr')
    <3>1. ptr + 1 \in 1..Len(src)
      BY <1>3, <1>6, Facts
    <3>2. CASE Opens(ptr) \/ Closes(ptr)
      <4>1. src[ptr + 1] \in {SLASH, STAR}
        BY <3>2 DEF Opens, Closes
      <4>2. src[ptr + 1] \notin {NUL, LF}
        BY <4>1 DEF SLASH, STAR, NUL, LF
      <4>3. ptr + 1 < Len(src)
        BY <3>1, <4>2, Facts
      <4> QED
        BY <1>3, <1>6, <2>1, <3>1, <3>2, <4>2, <4>3 DEF Plain
    <3>3. CASE ~(Opens(ptr) \/ Closes(ptr))
      BY <1>3, <1>6, <2>1, <3>1, <3>3 DEF Plain
    <3> QED
      BY <3>2, <3>3
  <2>3. ptr' \in Nat /\ ptr <= ptr' /\ ptr' < limit
    BY <1>3, <2>2, Facts
  <2>4. Seen(src, tok_array, pos_array, ptr', line_num, line_start)
    BY <1>2, <1>3, <2>2, <2>3, Facts, SeenFurther
  <2> QED
    BY <1>1, <2>1, <2>3, <2>4, SkippedKeepsPositions
<1> QED
  BY <1>4, <1>5, <1>6

(* A break token ends its line and begins the next behind itself. *)
LEMMA BreakKeepsPositions ==
  ASSUME LexerInv, PositionInv, lex_parse_linebreak
  PROVE  PositionInv'
<1> DEFINE q == BreakEnd(ptr)
<1>1. /\ pc = "lex_parse_linebreak" /\ pc \in Handlers /\ pc \notin Comments
      /\ line_start' = q /\ line_num' = line_num + 1 /\ src' = src
      /\ lex_append_tok(ValueToken(TOKEN_BREAK), token_pos, q)
  BY DEF lex_parse_linebreak, lex_append_tok_val, Handlers, Comments
<1>2. ptr \in 1..Len(src) /\ src[ptr] \in {LF, CR} /\ At(token_pos, ptr)
  BY <1>1, InHandler DEF ByteAt
<1>3. ptr + 1 \in 1..Len(src)
  BY <1>2, Facts DEF LF, CR, NUL
<1>4. Break(src, ptr, q)
  BY <1>2 DEF BreakEnd, Break, LF, CR
<1>5. q \in Nat /\ q < limit
  <2>1. src[ptr + 1] = LF => ptr + 1 < Len(src)
    BY <1>3, Facts DEF LF, NUL
  <2> QED
    BY <1>2, <1>3, <1>4, <2>1, Facts DEF Break
<1> HIDE DEF q
<1> QED
  BY <1>1, <1>2, <1>4, <1>5, BreakToken

(* A bare dot is appended where it begins, and again. *)
LEMMA DotKeepsPositions ==
  ASSUME LexerInv, PositionInv, lex_parse_dot
  PROVE  PositionInv'
<1>1. /\ pc = "lex_parse_dot" /\ pc \in Handlers /\ pc \notin Comments
      /\ UNCHANGED <<src, line_start, line_num>>
  BY DEF lex_parse_dot, Handlers, Comments
<1>2. ptr \in 1..Len(src) /\ src[ptr] = DOT /\ At(token_pos, ptr)
  BY <1>1, InHandler DEF ByteAt
<1>3. ptr < limit /\ ptr \in Nat \ {0} /\ Plain(src, ptr, ptr)
  BY <1>2, Facts DEF Plain
<1>4. CASE lex_append_tok_val(TOKEN_DOT, ptr)
  <2>1. ValueToken(TOKEN_DOT) \in Token /\ ValueToken(TOKEN_DOT).token = DOT
    BY TokensAreTokens DEF TOKEN_DOT, Char, Special, ValueToken
  <2>2. NoBreak(src, ptr, ptr)
    BY <1>2, <1>3 DEF NoBreak, DOT, LF, CR
  <2> QED
    BY <1>1, <1>2, <1>3, <1>4, <2>1, <2>2, PlainToken DEF lex_append_tok_val
<1>5. CASE /\ pc' = "lex_parse_num_literal"
           /\ UNCHANGED <<ptr, token_pos, tok_array, pos_array>>
  <2>1. InToken'
    <3>1. InToken
      BY <1>1 DEF PositionInv
    <3> QED
      BY <1>1, <1>5, <3>1 DEF InToken, Comments
  <2>2. Stored(src', tok_array', pos_array')
    BY <1>1, <1>5 DEF PositionInv
  <2> QED
    BY <1>5, <2>1, <2>2 DEF PositionInv
<1>6. \/ lex_append_tok_val(TOKEN_DOT, ptr)
      \/ /\ pc' = "lex_parse_num_literal"
         /\ UNCHANGED <<ptr, token_pos, tok_array, pos_array>>
  BY DEF lex_parse_dot
<1> QED
  BY <1>4, <1>5, <1>6

-----------------------------------------------------------------------------
(* lexetize.                                                               *)

(* No token, and the first byte of the first line. *)
LEMMA InitMakesPositions ==
  ASSUME Init
  PROVE  PositionInv
<1>1. /\ pc = "lex_dispatch" /\ ptr = 1 /\ line_start = 1 /\ line_num = 1
      /\ tok_array = << >> /\ pos_array = << >> /\ Len(src) > 0 /\ Len(src) \in Nat
  BY SourceAssumption DEF Init
<1>2. Len(pos_array) = 0
  BY <1>1
<1>3. Cardinality(LFs(src, 1)) = 0 /\ Cardinality(LoneCRs(src, tok_array, pos_array, 1)) = 0
  <2>1. LFs(src, 1) = {} /\ LoneCRs(src, tok_array, pos_array, 1) = {}
    BY DEF LFs, LoneCRs
  <2> QED
    BY <2>1, FS_EmptySet
<1>4. Ends(src, tok_array, pos_array, 1) = {}
  BY DEF Ends
<1>5. Begins(src, {}, 1) = {1}
  BY DEF Begins
<1>6. Counted(src, tok_array, pos_array, 1, 1, 1, 1)
  BY <1>3, <1>4, <1>5 DEF Counted
<1>7. Stored(src, tok_array, pos_array)
  BY <1>2 DEF Stored
<1>8. Seen(src, tok_array, pos_array, 1, 1, 1)
  BY <1>2, <1>4, <1>6, <1>7 DEF Seen, Marked, Eofs
<1> QED
  BY <1>1, <1>7, <1>8 DEF PositionInv, Handlers, limit

(* Every function of the lexer keeps the count. *)
LEMMA NextKeepsPositions ==
  ASSUME LexerInv, PositionInv, [Next]_vars
  PROVE  PositionInv'
<1>1. CASE UNCHANGED vars
  BY <1>1 DEF vars, PositionInv, InToken, Comments, Handlers, limit, tok_count
<1>2. CASE Terminating
  BY <1>1, <1>2 DEF Terminating
<1> QED
  BY <1>1, <1>2, DispatchKeepsPositions, NextCharKeepsPositions, EofKeepsPositions,
     IdentifierKeepsPositions, NumberKeepsPositions, LiteralKeepsPositions,
     SlashKeepsPositions, LineCommentKeepsPositions, CommentKeepsPositions,
     CommentLoopKeepsPositions, BreakKeepsPositions, DotKeepsPositions DEF Next

(* Every state of the lexer knows where it is. *)
THEOREM SpecKeepsPositions == Spec => []PositionInv
<1>1. Init => PositionInv
  BY InitMakesPositions
<1>2. LexerInv /\ PositionInv /\ [Next]_vars => PositionInv'
  BY NextKeepsPositions
<1> QED
  BY <1>1, <1>2, SpecKeepsLexerInv, PTL DEF Spec

(* The positions in pos_array have their types. *)
LEMMA PositionTypes ==
  ASSUME LexerInv
  PROVE  \A i \in 1..Len(pos_array) :
           /\ pos_array[i].start \in Nat /\ pos_array[i].end \in Nat
           /\ pos_array[i].line_number \in Nat /\ pos_array[i].character_number \in Nat
<1>1. \A i \in 1..Len(pos_array) : pos_array[i] \in Token_Pos
  BY Facts
<1> QED
  BY <1>1 DEF Token_Pos

(* PositionsIncrease: tokens neither overlap nor share a position, however *)
(* lines are counted, until a bare dot is emitted over and over.           *)
THEOREM TokensComeInOrder == Spec => []PositionsIncrease
<1>1. ASSUME LexerInv, PositionInv PROVE PositionsIncrease
  <2> SUFFICES ASSUME NEW i \in 1..(Len(pos_array) - 1)
               PROVE  \/ /\ pos_array[i].end <= pos_array[i + 1].start
                         /\ Precedes(pos_array[i], pos_array[i + 1])
                      \/ tok_array[i].token = DOT
    BY DEF PositionsIncrease
  <2>1. i + 1 \in 1..Len(pos_array)
    BY <1>1, Facts
  <2> DEFINE p == pos_array[i + 1]
  <2>2. p.start - (p.start - p.character_number) = p.character_number
    BY <1>1, <2>1, PositionTypes
  <2>3. Before(tok_array[i], pos_array[i], p.start, p.line_number,
               p.start - p.character_number)
    BY <1>1 DEF PositionInv, Stored
  <2> QED
    BY <2>2, <2>3 DEF Before, Precedes
<1> QED
  BY <1>1, SpecKeepsLexerInv, SpecKeepsPositions, PTL

(* LineNumbersCountBreaks: each token's line is one more than the LFs and  *)
(* the lone CRs in front of it.                                            *)
THEOREM LinesAreCounted == Spec => []LineNumbersCountBreaks
<1>1. ASSUME LexerInv, PositionInv PROVE LineNumbersCountBreaks
  <2> SUFFICES ASSUME NEW i \in DOMAIN pos_array
               PROVE  pos_array[i].line_number =
                        1 + Cardinality({k \in 1..(pos_array[i].start - 1) : src[k] = LF})
                          + Cardinality(LoneCRBreaks(i))
    BY DEF LineNumbersCountBreaks
  <2>1. i \in 1..Len(pos_array)
    BY <1>1, Facts
  <2>2. Placed(src, tok_array, pos_array, i)
    BY <1>1, <2>1 DEF PositionInv, Stored
  <2>3. LoneCRs(src, tok_array, pos_array, i) = LoneCRBreaks(i)
    BY DEF LoneCRs, LoneCR, LoneCRBreaks
  <2> QED
    BY <2>2, <2>3 DEF Placed, Counted, LFs
<1> QED
  BY <1>1, SpecKeepsLexerInv, SpecKeepsPositions, PTL

(* CharacterNumbersCountFromTheBreak: each token is counted from the last  *)
(* line begin before it, which inside a comment is the LF itself.          *)
THEOREM CharactersAreCounted == Spec => []CharacterNumbersCountFromTheBreak
<1>1. ASSUME LexerInv, PositionInv PROVE CharacterNumbersCountFromTheBreak
  <2> SUFFICES ASSUME NEW i \in DOMAIN pos_array
               PROVE  LET k == pos_array[i].start - pos_array[i].character_number
                      IN  k \in LineBegins(i) /\ \A b \in LineBegins(i) : b <= k
    BY DEF CharacterNumbersCountFromTheBreak
  <2>1. i \in 1..Len(pos_array)
    BY <1>1, Facts
  <2>2. Placed(src, tok_array, pos_array, i)
    BY <1>1, <2>1 DEF PositionInv, Stored
  <2>3. Ends(src, tok_array, pos_array, i)
          = {pos_array[j].end : j \in {k \in 1..(i - 1) : EndsALine(k)}}
    BY DEF Ends, Ending, EndsALine
  <2>4. Begins(src, Ends(src, tok_array, pos_array, i), pos_array[i].start) = LineBegins(i)
    BY <2>3 DEF Begins, LineBegins
  <2> QED
    BY <2>2, <2>4 DEF Placed, Counted
<1> QED
  BY <1>1, SpecKeepsLexerInv, SpecKeepsPositions, PTL

(* EveryNulGivesAnEof: when lexetize returns, the NULs of the source have  *)
(* their EOFs, the last of them behind all other tokens.                   *)
THEOREM NulsAreKept == Spec => []EveryNulGivesAnEof
<1>1. ASSUME LexerInv, PositionInv PROVE EveryNulGivesAnEof
  <2> SUFFICES ASSUME pc = "return"
               PROVE  /\ tok_count > 0
                      /\ IsEof(tok_count, Len(src))
                      /\ \A k \in 1..Len(src) :
                           src[k] = NUL => \E i \in 1..tok_count : IsEof(i, k)
    BY DEF EveryNulGivesAnEof
  <2>1. ASSUME NEW i, NEW k, EofAt(tok_array, pos_array, i, k) PROVE IsEof(i, k)
    BY <2>1 DEF EofAt, IsEof
  <2>2. ptr = limit /\ tok_count > 0 /\ EofAt(tok_array, pos_array, tok_count, Len(src))
    BY <1>1 DEF PositionInv
  <2>3. Eofs(src, tok_array, pos_array, Len(src) + 1)
    BY <1>1, <2>2, Facts DEF PositionInv, Seen
  <2>4. Len(pos_array) = tok_count /\ (Len(src) + 1) - 1 = Len(src)
    BY <1>1, Facts DEF LexerInv, TypeOK, tok_count
  <2> QED
    BY <2>1, <2>2, <2>3, <2>4 DEF Eofs
<1> QED
  BY <1>1, SpecKeepsLexerInv, SpecKeepsPositions, PTL
=============================================================================
