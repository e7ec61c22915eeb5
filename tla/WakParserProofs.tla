-------------------------- MODULE WakParserProofs --------------------------
(* The parser, for every stream of tokens that ends with an EOF and        *)
(* whatever unwritten memory holds: first its invariants, then that every  *)
(* call reads a phrase of WakGrammar or gives up where none fits.          *)
EXTENDS WakParserRefinement, WakInduction, SequenceTheorems

-----------------------------------------------------------------------------
(* Number literals: the four counters, by induction over the characters.   *)

CountStart(dig) ==
  [int_val |-> 0, int_dig |-> dig, frac_val |-> 0, frac_dig |-> 0, bad |-> "none"]

(* A remainder is a natural number. *)
LEMMA RemainderIsNat ==
  ASSUME NEW n \in Nat, NEW m \in Nat \ {0}
  PROVE  n % m \in Nat
BY SMTT(20)

(* A character more keeps the counters natural numbers. *)
LEMMA CountStepType ==
  ASSUME NumberAssumption, NEW s \in Counts, NEW c \in Char
  PROVE  CountStep(s, c) \in Counts
<1>1. /\ s.int_val \in Nat /\ s.int_dig \in Nat /\ s.frac_val \in Nat /\ s.frac_dig \in Nat
      /\ s.bad \in {"none", "multiple decimal points", "invalid character"}
  BY DEF Counts
<1>2. CASE c \in Digit
  <2>1. digit_val[c] \in Nat
    BY <1>2 DEF NumberAssumption
  <2>2. \A x, y \in Nat : x * y + digit_val[c] \in Nat /\ x * 10 \in Nat
    BY <2>1, SMTT(20)
  <2>3. /\ (s.frac_val * s.frac_dig + digit_val[c]) % ULongMod \in Nat
        /\ (s.int_val * s.int_dig + digit_val[c]) % ULongMod \in Nat
        /\ (s.frac_dig * 10) % UIntMod \in Nat
        /\ (s.int_dig * 10) % UIntMod \in Nat
    BY <1>1, <2>2, RemainderIsNat DEF NumberAssumption
  <2> DEFINE f == (s.frac_val * s.frac_dig + digit_val[c]) % ULongMod
  <2> DEFINE g == (s.frac_dig * 10) % UIntMod
  <2> DEFINE i == (s.int_val * s.int_dig + digit_val[c]) % ULongMod
  <2> DEFINE j == (s.int_dig * 10) % UIntMod
  <2>4. CountStep(s, c) \in {s, [s EXCEPT !.frac_dig = 1],
                             [s EXCEPT !.bad = "multiple decimal points"],
                             [s EXCEPT !.frac_val = f, !.frac_dig = g],
                             [s EXCEPT !.int_val = i, !.int_dig = j]}
    BY <1>2 DEF CountStep
  <2>5. f \in Nat /\ g \in Nat /\ i \in Nat /\ j \in Nat
    BY <2>3
  <2> HIDE DEF f, g, i, j
  <2>6. /\ [s EXCEPT !.frac_dig = 1] \in Counts
        /\ [s EXCEPT !.bad = "multiple decimal points"] \in Counts
    BY DEF Counts
  <2>7. [s EXCEPT !.frac_val = f, !.frac_dig = g] \in Counts
    BY <2>5 DEF Counts
  <2>8. [s EXCEPT !.int_val = i, !.int_dig = j] \in Counts
    BY <2>5 DEF Counts
  <2> QED
    BY <2>4, <2>6, <2>7, <2>8
<1>3. CASE c \notin Digit
  BY <1>1, <1>3 DEF CountStep, Counts
<1> QED
  BY <1>2, <1>3

(* A character more, as a function of the counters before it. *)
Counted(c) == [s \in Counts |-> CountStep(s, c)]

(* From any start, the counters after each character exist. *)
LEMMA CountingExists ==
  ASSUME NumberAssumption, NEW str \in Seq(Char), NEW start \in Counts
  PROVE  \E g : g = [i \in 0..Len(str) |-> IF i = 0 THEN start
                                          ELSE Counted(str[i])[g[i - 1]]]
<1> DEFINE len == Len(str)
<1> DEFINE counting == [i \in 1..len |-> Counted(str[i])]
<1>1. len \in Nat /\ \A i \in 1..len : str[i] \in Char
  OBVIOUS
<1>2. counting \in Steps(Counts, len)
  BY <1>1, CountStepType DEF Steps, Counted
<1>3. \A i \in 1..len : counting[i] = Counted(str[i])
  OBVIOUS
<1> HIDE DEF counting, len
<1>4. PICK g : Iterates(g, Counts, start, len, counting)
  BY <1>1, <1>2, RecursionExists
<1> USE DEF Iterates
<1>5. \A i \in 1..len : g[i] = Counted(str[i])[g[i - 1]]
  BY <1>3, <1>4
<1>6. g = [i \in 0..len |-> IF i = 0 THEN start ELSE Counted(str[i])[g[i - 1]]]
  BY <1>1, <1>4, <1>5
<1> QED
  BY <1>6 DEF len

(* The counters after each character are natural numbers. *)
LEMMA CountersAfter ==
  ASSUME NumberAssumption, NEW str \in Seq(Char), NEW dig \in Nat
  PROVE  \E after \in [0..Len(str) -> Counts] :
           /\ after[0] = CountStart(dig)
           /\ \A i \in 1..Len(str) : after[i] = CountStep(after[i - 1], str[i])
           /\ Counters(str, dig) = after[Len(str)]
<1> DEFINE len == Len(str)
<1> DEFINE Body(f) == [i \in 0..len |-> IF i = 0 THEN CountStart(dig)
                                        ELSE Counted(str[i])[f[i - 1]]]
<1> DEFINE f == CHOOSE f : f = Body(f)
<1>1. len \in Nat /\ \A i \in 1..len : str[i] \in Char
  OBVIOUS
<1>2. CountStart(dig) \in Counts
  BY DEF CountStart, Counts
<1>3. \E g : g = Body(g)
  BY <1>2, CountingExists
<1>4. f = Body(f)
  BY <1>3
<1>5. Counters(str, dig) = f[len]
  BY DEF Counters, CountStart, Counted
<1> HIDE DEF f
<1>6. f[0] = CountStart(dig) /\ \A i \in 1..len : f[i] = Counted(str[i])[f[i - 1]]
  BY <1>1, <1>4
<1>7. \A i \in 0..len : f[i] \in Counts
  <2> DEFINE T == {i \in Nat : i <= len => f[i] \in Counts}
  <2>1. 0 \in T
    BY <1>2, <1>6
  <2>2. ASSUME NEW i \in Nat, i \in T
        PROVE  i + 1 \in T
    <3> SUFFICES ASSUME i + 1 <= len
                 PROVE  f[i + 1] \in Counts
      OBVIOUS
    <3>1. i + 1 \in 1..len /\ f[i] \in Counts
      BY <1>1, <2>2
    <3>2. f[i + 1] = Counted(str[i + 1])[f[i]]
      <4>1. (i + 1) - 1 = i
        OBVIOUS
      <4> QED
        BY <1>6, <3>1, <4>1
    <3>3. f[i + 1] = CountStep(f[i], str[i + 1])
      BY <3>1, <3>2 DEF Counted
    <3> QED
      BY <1>1, <3>1, <3>3, CountStepType
  <2> HIDE DEF T
  <2>3. Nat \subseteq T
    BY <2>1, <2>2, SetInduction
  <2> QED
    BY <1>1, <2>3 DEF T
<1>8. f \in [0..len -> Counts]
  BY <1>4, <1>7
<1>9. \A i \in 1..len : f[i] = CountStep(f[i - 1], str[i])
  <2>1. \A i \in 1..len : i - 1 \in 0..len
    BY <1>1
  <2> QED
    BY <1>6, <1>7, <2>1 DEF Counted
<1> QED
  BY <1>5, <1>6, <1>8, <1>9

(* While int_dig is 0, a digit replaces the value. *)
OnlyDigits(s) == s.int_dig = 0 /\ s.frac_dig = 0 /\ s.bad = "none"

(* A digit with only digits before it is the whole value. *)
LEMMA DigitReplacesTheValue ==
  ASSUME NumberAssumption, CharAssumption,
         NEW s \in Counts, OnlyDigits(s), NEW c \in Digit
  PROVE  /\ OnlyDigits(CountStep(s, c))
         /\ CountStep(s, c).int_val = digit_val[c] % ULongMod
<1>1. c # DOT
  BY CharAssumption DEF Special
<1>2. digit_val[c] \in Nat
  BY DEF NumberAssumption
<1>3. s.int_val \in Nat /\ s.int_dig = 0
  BY DEF Counts, OnlyDigits
<1>4. s.int_val * s.int_dig + digit_val[c] = digit_val[c] /\ s.int_dig * 10 = 0
  BY <1>2, <1>3
<1>5. 0 % UIntMod = 0
  BY SMTT(20) DEF NumberAssumption
<1>6. CountStep(s, c) =
        [s EXCEPT !.int_val = (@ * s.int_dig + digit_val[c]) % ULongMod,
                  !.int_dig = (@ * 10) % UIntMod]
  BY <1>1 DEF CountStep, OnlyDigits
<1>7. CountStep(s, c) = [s EXCEPT !.int_val = digit_val[c] % ULongMod, !.int_dig = 0]
  BY <1>4, <1>5, <1>6
<1> QED
  BY <1>7 DEF Counts, OnlyDigits

(* Of an integer literal, whatever its length, the last digit is the value. *)
THEOREM OnlyTheLastDigitCounts ==
  ASSUME NumberAssumption, CharAssumption, NEW str \in Seq(Digit), str # << >>
  PROVE  /\ Counters(str, 0).int_val = digit_val[str[Len(str)]] % ULongMod
         /\ Counters(str, 0).frac_dig = 0
         /\ Counters(str, 0).bad = "none"
<1> DEFINE len == Len(str)
<1>1. len \in Nat \ {0} /\ \A i \in 1..len : str[i] \in Digit
  OBVIOUS
<1>2. str \in Seq(Char)
  BY DEF Char
<1>3. PICK after \in [0..len -> Counts] :
        /\ after[0] = CountStart(0)
        /\ \A i \in 1..len : after[i] = CountStep(after[i - 1], str[i])
        /\ Counters(str, 0) = after[len]
  BY <1>2, CountersAfter
<1> HIDE DEF len
<1> DEFINE T == {i \in Nat : i <= len => OnlyDigits(after[i])}
<1>4. 0 \in T
  BY <1>3 DEF CountStart, OnlyDigits
<1>5. ASSUME NEW i \in Nat, i \in T
      PROVE  i + 1 \in T
  <2> SUFFICES ASSUME i + 1 <= len
               PROVE  OnlyDigits(after[i + 1])
    OBVIOUS
  <2>1. i + 1 \in 1..len /\ after[i] \in Counts /\ OnlyDigits(after[i])
    BY <1>1, <1>3, <1>5
  <2>2. after[i + 1] = CountStep(after[i], str[i + 1])
    BY <1>3, <2>1
  <2> QED
    BY <1>1, <2>1, <2>2, DigitReplacesTheValue
<1> HIDE DEF T
<1>6. Nat \subseteq T
  BY <1>4, <1>5, SetInduction
<1>7. len - 1 \in 0..len /\ OnlyDigits(after[len - 1]) /\ len \in 1..len
  BY <1>1, <1>6 DEF T
<1>8. after[len] = CountStep(after[len - 1], str[len])
  BY <1>3, <1>7
<1>9. /\ OnlyDigits(after[len])
       /\ after[len].int_val = digit_val[str[len]] % ULongMod
  BY <1>1, <1>3, <1>7, <1>8, DigitReplacesTheValue
<1> QED
  BY <1>3, <1>9 DEF OnlyDigits, len

-----------------------------------------------------------------------------
(* The inductive invariant.                                                *)

Statement ==
  [type : {"RETURN"}, value : Values]
    \cup [type : {"ASSIGN"}, dest : Nat, value : Values]
    \cup [type : {"DECLARE"}, name : Seq(Char), data_type : DataTypes]
    \cup [type : {"BLOCK_FUNCTION"}, name : Seq(Char), ret_type : DataTypes]
    \cup {BlockEnd}

(* The tokens before i are no EOF, so i is the index of a token. *)
Clear(i) == /\ i \in 1..Len(tokens)
            /\ \A k \in 1..(i - 1) : ~Is(k, TOKEN_EOF)

(* The statement at C index i of sts is a declaration before position p. *)
DeclaredBefore(i, p, sts) == i + 1 \in 1..(p - 1) /\ sts[i + 1].type = "DECLARE"

(* What ReferencesPointBack says of a statement s at position p of sts. *)
Fits(s, p, sts) ==
  /\ s.type = "ASSIGN" => s.dest = p - 2 /\ DeclaredBefore(s.dest, p, sts)
  /\ s.type \in {"ASSIGN", "RETURN"} /\ s.value.type = "INSTR_REF" =>
       \/ DeclaredBefore(s.value.u[1], p, sts)
       \/ s.value.u[1] = p - 1 /\ \E x \in Leftovers : x.type = "DECLARE"

Sound(sts) ==
  /\ sts \in Seq(Statement)
  /\ \A p \in DOMAIN sts : Fits(sts[p], p, sts)

(* Between two calls of parser_next_statement no EOF has been passed. *)
ParserInv ==
  /\ tokens \in Streams
  /\ TypeOK
  /\ Sound(statements)
  /\ ParserProgresses
  /\ StopsAtTheFirstEof
  /\ pc = "parse" => Clear(tok_index)

-----------------------------------------------------------------------------
(* Tokens.                                                                 *)

(* The last token is an EOF, and a token has one of the six types. *)
LEMMA StreamFacts ==
  ASSUME StreamAssumption, tokens \in Streams
  PROVE  /\ Len(tokens) \in Nat \ {0}
         /\ \A i \in 1..Len(tokens) : tokens[i] \in Token
         /\ Is(Len(tokens), TOKEN_EOF)
BY DEF StreamAssumption, Is

(* Behind a token that is no EOF there is another. *)
LEMMA Further ==
  ASSUME StreamAssumption, tokens \in Streams,
         NEW i, Clear(i), ~Is(i, TOKEN_EOF)
  PROVE  i \in 1..Len(tokens) /\ i + 1 \in 1..Len(tokens) /\ Clear(i + 1)
<1>1. Len(tokens) \in Nat /\ Is(Len(tokens), TOKEN_EOF)
  BY StreamFacts
<1>2. i \in 1..Len(tokens) /\ \A k \in 1..(i - 1) : ~Is(k, TOKEN_EOF)
  BY DEF Clear
<1>3. i # Len(tokens)
  BY <1>1
<1>4. i + 1 \in 1..Len(tokens)
  BY <1>1, <1>2, <1>3
<1>5. \A k \in 1..((i + 1) - 1) : k = i \/ k \in 1..(i - 1)
  BY <1>1, <1>2
<1> QED
  BY <1>2, <1>4, <1>5 DEF Clear

(* An identifier, and a token with a value that is no NUL, is no EOF. *)
LEMMA NoEof ==
  ASSUME NEW i, ~IsToken(i) \/ tokens[i].token # TOKEN_EOF
  PROVE  ~Is(i, TOKEN_EOF)
BY DEF Is, IsToken

(* j is the first token from i on that is no line break. *)
BreaksStop(i, j) == /\ ~Is(j, TOKEN_BREAK)
                    /\ \A k \in i..(j - 1) : Is(k, TOKEN_BREAK)

(* Line breaks end, and at one token only. *)
LEMMA SkipBreaksStops ==
  ASSUME StreamAssumption, tokens \in Streams, NEW i, Clear(i)
  PROVE  /\ SkipBreaks(i) \in i..Len(tokens)
         /\ BreaksStop(i, SkipBreaks(i))
         /\ \A j \in i..Len(tokens) : BreaksStop(i, j) => j = SkipBreaks(i)
<1> DEFINE T == {j \in i..Len(tokens) : ~Is(j, TOKEN_BREAK)}
<1>1. Len(tokens) \in Nat /\ Is(Len(tokens), TOKEN_EOF) /\ i \in 1..Len(tokens)
  BY StreamFacts DEF Clear
<1>2. ~Is(Len(tokens), TOKEN_BREAK)
  BY <1>1 DEF Is, TOKEN_EOF, TOKEN_BREAK, NUL, LF
<1>3. T \subseteq Nat /\ T # {}
  BY <1>1, <1>2
<1>4. PICK x \in T : \A y \in T : x <= y
  BY <1>3, LeastElement
<1>5. \A k \in i..(x - 1) : k \in i..Len(tokens) /\ ~(x <= k)
  BY <1>1, <1>4
<1>6. x \in i..Len(tokens) /\ BreaksStop(i, x)
  BY <1>4, <1>5 DEF BreaksStop
<1>7. PICK b : b = SkipBreaks(i)
  OBVIOUS
<1>8. b \in i..Len(tokens) /\ BreaksStop(i, b)
  BY <1>6, <1>7 DEF SkipBreaks, BreaksStop
<1>9. ASSUME NEW j \in i..Len(tokens), BreaksStop(i, j)
      PROVE  j = b
  <2>1. ~(j < b)
    <3>1. j < b => j \in i..(b - 1)
      BY <1>1, <1>8
    <3> QED
      BY <1>8, <1>9, <3>1 DEF BreaksStop
  <2>2. ~(b < j)
    <3>1. b < j => b \in i..(j - 1)
      BY <1>1, <1>8
    <3> QED
      BY <1>8, <1>9, <3>1 DEF BreaksStop
  <2> QED
    BY <1>1, <1>8, <2>1, <2>2
<1> QED
  BY <1>7, <1>8, <1>9

(* Behind line breaks comes a token that is none. *)
LEMMA SkipBreaksIsClear ==
  ASSUME StreamAssumption, tokens \in Streams, NEW i, Clear(i)
  PROVE  /\ SkipBreaks(i) \in i..Len(tokens)
         /\ Clear(SkipBreaks(i))
<1>1. Len(tokens) \in Nat /\ i \in 1..Len(tokens)
  BY StreamFacts DEF Clear
<1>2. PICK b : b = SkipBreaks(i)
  OBVIOUS
<1>3. b \in i..Len(tokens) /\ BreaksStop(i, b)
  BY <1>2, SkipBreaksStops
<1>4. b \in 1..Len(tokens)
  BY <1>1, <1>3
<1>5. ASSUME NEW k \in 1..(b - 1)
      PROVE  ~Is(k, TOKEN_EOF)
  <2>1. CASE k < i
    BY <1>1, <2>1 DEF Clear
  <2>2. CASE k >= i
    <3>1. k \in i..(b - 1)
      BY <1>1, <1>3, <2>2
    <3>2. Is(k, TOKEN_BREAK)
      BY <1>3, <3>1 DEF BreaksStop
    <3> QED
      BY <3>2 DEF Is, TOKEN_EOF, TOKEN_BREAK, NUL, LF
  <2> QED
    BY <1>1, <2>1, <2>2
<1>6. Clear(b)
  BY <1>4, <1>5 DEF Clear
<1> QED
  BY <1>2, <1>3, <1>6

-----------------------------------------------------------------------------
(* Expressions.                                                            *)

(* What parser_expr may return for the expression at token i. *)
ExprOK(e, i, sts, leftover) ==
  /\ e.at = i \/ (e.at = i + 1 /\ ~IsToken(i))
  /\ e.code = "NONE" /\ e.value # NullValue =>
       /\ e.value \in Values
       /\ e.value.type = "INSTR_REF" =>
            /\ e.value.u[1] \in 1..Len(sts)
            /\ Append(sts, leftover)[e.value.u[1] + 1].type = "DECLARE"

(* A number is worth a constant. *)
LEMMA NumberIsOK ==
  ASSUME NumberAssumption, NEW i, tokens[i] \in Token, ~IsToken(i),
         NEW sts, NEW leftover
  PROVE  ExprOK(parser_expr_literal_num(i), i, sts, leftover)
<1> DEFINE s == Counters(tokens[i].text, 0)
<1>1. tokens[i].text \in Seq(Char) /\ 0 \in Nat
  BY DEF Token
<1>2. s \in Counts
  <2>1. PICK after \in [0..Len(tokens[i].text) -> Counts] :
          Counters(tokens[i].text, 0) = after[Len(tokens[i].text)]
    BY <1>1, CountersAfter
  <2>2. Len(tokens[i].text) \in 0..Len(tokens[i].text)
    BY <1>1
  <2> QED
    BY <2>1, <2>2
<1> HIDE DEF s
<1>3. s.int_val \in Nat /\ s.frac_val \in Nat /\ s.frac_dig \in Nat
  BY <1>2 DEF Counts
<1>4. /\ Value("CONST_I32", <<s.int_val>>) \in Values
      /\ Value("CONST_F32", <<s.int_val, s.frac_val, s.frac_dig>>) \in Values
  BY <1>3 DEF Value, Values
<1>5. ExprOK(parser_expr_literal_decimal(i), i, sts, leftover)
  BY <1>4 DEF parser_expr_literal_decimal, s, ExprOK, Result, ResultError, Value
<1>6. \A msg : ExprOK(ResultError("UNIMPLEMENTED", msg, i), i, sts, leftover)
  BY DEF ExprOK, ResultError
<1> QED
  BY <1>5, <1>6 DEF parser_expr_literal_num

(* A variable is worth a reference to a declaration. *)
LEMMA VariableIsOK ==
  ASSUME NEW i, ~IsToken(i), NEW T, NEW sts \in Seq(T), NEW leftover
  PROVE  ExprOK(parser_expr_var(i, sts, leftover), i, sts, leftover)
<1> DEFINE slots == Append(sts, leftover)
<1> DEFINE found == {j \in 1..Len(sts) : /\ slots[j + 1].type = "DECLARE"
                                         /\ slots[j + 1].name = tokens[i].text}
<1>1. CASE found = {}
  <2>1. parser_expr_var(i, sts, leftover) = Result(NullValue, i)
    BY <1>1 DEF parser_expr_var
  <2>2. ExprOK(Result(NullValue, i), i, sts, leftover)
    BY DEF ExprOK, Result
  <2> QED
    BY <2>1, <2>2
<1>2. CASE found # {}
  <2>1. Len(sts) \in Nat /\ found \subseteq 0..Len(sts)
    OBVIOUS
  <2>2. \E x \in found : \A y \in found : y <= x
    BY <1>2, <2>1, GreatestElement
  <2>3. Nearest(found) \in found
    BY <2>2 DEF Nearest
  <2>4. parser_expr_var(i, sts, leftover) = Result(InstrRef(Nearest(found)), i + 1)
    BY <1>2 DEF parser_expr_var
  <2>5. PICK n : n = Nearest(found)
    OBVIOUS
  <2>6. n \in 1..Len(sts) /\ slots[n + 1].type = "DECLARE"
    BY <2>3, <2>5
  <2> HIDE DEF found, slots
  <2>7. InstrRef(n) \in Values /\ InstrRef(n).u[1] = n
    BY <2>1, <2>6 DEF InstrRef, Value, Values
  <2>8. ExprOK(Result(InstrRef(n), i + 1), i, sts, leftover)
    BY <2>6, <2>7 DEF ExprOK, Result, slots
  <2> QED
    BY <2>4, <2>5, <2>8
<1> QED
  BY <1>1, <1>2

(* Every expression. *)
LEMMA ExpressionIsOK ==
  ASSUME NumberAssumption, NEW i, tokens[i] \in Token,
         NEW T, NEW sts \in Seq(T), NEW leftover
  PROVE  ExprOK(parser_expr(i, sts, leftover), i, sts, leftover)
<1>1. \A code, msg : code # "NONE" => ExprOK(ResultError(code, msg, i), i, sts, leftover)
  BY DEF ExprOK, ResultError
<1>2. ExprOK(Result(NullValue, i), i, sts, leftover)
  BY DEF ExprOK, Result
<1>3. CASE tokens[i].type = "LITERAL_NUM"
  <2>1. parser_expr(i, sts, leftover) = parser_expr_literal_num(i)
    BY <1>3 DEF parser_expr, IsIdentifier
  <2>2. ~IsToken(i)
    BY <1>3 DEF IsToken
  <2> QED
    BY <2>1, <2>2, NumberIsOK
<1>4. CASE tokens[i].type \in {"LITERAL_STR", "LITERAL_CHAR", "LITERAL_BOOL"}
  <2>1. parser_expr(i, sts, leftover) = ResultError("UNIMPLEMENTED", "literal type", i)
    BY <1>4 DEF parser_expr, IsIdentifier
  <2> QED
    BY <1>1, <2>1
<1>5. CASE IsIdentifier(i)
  <2>1. parser_expr(i, sts, leftover) = parser_expr_iden(i, sts, leftover)
    BY <1>5 DEF parser_expr, IsIdentifier
  <2>2. ExprOK(parser_expr_var(i, sts, leftover), i, sts, leftover)
    BY <1>5, VariableIsOK DEF IsIdentifier, IsToken
  <2>3. ExprOK(ResultError("UNIMPLEMENTED", "identifier expression", i), i, sts, leftover)
    BY <1>1
  <2> QED
    BY <1>2, <2>1, <2>2, <2>3 DEF parser_expr_iden
<1>6. CASE tokens[i].type = "TOKEN"
  <2>1. parser_expr(i, sts, leftover) = Result(NullValue, i)
    BY <1>6 DEF parser_expr, IsIdentifier
  <2> QED
    BY <1>2, <2>1
<1> QED
  BY <1>3, <1>4, <1>5, <1>6 DEF Token, TokenTypes, IsIdentifier

-----------------------------------------------------------------------------
(* Statements.                                                             *)

(* Each constructor makes a statement of its type. *)
LEMMA StatementsMade ==
  /\ \A value \in Values : Return(value) \in Statement
  /\ \A value \in Values, dest \in Nat : Assign(dest, value) \in Statement
  /\ \A name \in Seq(Char), type \in DataTypes :
       Declare(name, type) \in Statement /\ BlockFunction(name, type) \in Statement
  /\ BlockEnd \in Statement
BY DEF Statement, Return, Assign, Declare, BlockFunction

(* A statement that fits behind the others leaves them sound. *)
LEMMA AppendIsSound ==
  ASSUME NEW sts, Sound(sts), NEW s \in Statement, Fits(s, Len(sts) + 1, sts)
  PROVE  Sound(Append(sts, s))
<1> DEFINE more == Append(sts, s)
<1>1. sts \in Seq(Statement) /\ \A p \in DOMAIN sts : Fits(sts[p], p, sts)
  BY DEF Sound
<1>2. /\ Len(sts) \in Nat
      /\ more \in Seq(Statement)
      /\ DOMAIN more = 1..(Len(sts) + 1)
      /\ \A p \in 1..Len(sts) : more[p] = sts[p]
      /\ more[Len(sts) + 1] = s
  BY <1>1
<1> HIDE DEF more
<1>3. ASSUME NEW p \in 1..(Len(sts) + 1), NEW i, DeclaredBefore(i, p, sts)
      PROVE  DeclaredBefore(i, p, more)
  BY <1>2, <1>3 DEF DeclaredBefore
<1>4. ASSUME NEW p \in 1..(Len(sts) + 1), NEW t, Fits(t, p, sts)
      PROVE  Fits(t, p, more)
  BY <1>3, <1>4 DEF Fits
<1>5. ASSUME NEW p \in 1..(Len(sts) + 1)
      PROVE  Fits(more[p], p, more)
  <2>1. CASE p = Len(sts) + 1
    BY <1>2, <1>4, <2>1
  <2>2. CASE p # Len(sts) + 1
    <3>1. p \in 1..Len(sts) /\ p \in DOMAIN sts
      BY <1>1, <1>2, <2>2
    <3> QED
      BY <1>1, <1>2, <1>4, <3>1
  <2> QED
    BY <2>1, <2>2
<1> QED
  BY <1>2, <1>5 DEF Sound, more

(* What is no assignment and refers to nothing fits everywhere. *)
LEMMA PlainFits ==
  ASSUME NEW s, s.type \notin {"ASSIGN", "RETURN"}, NEW p, NEW sts
  PROVE  Fits(s, p, sts)
BY DEF Fits

(* The declaration that parser_var_decl appends. *)
LEMMA DeclarationIsSound ==
  ASSUME NEW sts, Sound(sts), NEW name \in Seq(Char), NEW type \in DataTypes
  PROVE  /\ Declare(name, type) \in Statement
         /\ Fits(Declare(name, type), Len(sts) + 1, sts)
         /\ Sound(Append(sts, Declare(name, type)))
         /\ Append(sts, Declare(name, type))[Len(sts) + 1].type = "DECLARE"
         /\ Len(Append(sts, Declare(name, type))) = Len(sts) + 1
<1>1. Declare(name, type) \in Statement
  BY StatementsMade
<1>2. Fits(Declare(name, type), Len(sts) + 1, sts)
  BY DEF Fits, Declare
<1>3. sts \in Seq(Statement)
  BY DEF Sound
<1>4. /\ Append(sts, Declare(name, type))[Len(sts) + 1] = Declare(name, type)
      /\ Len(Append(sts, Declare(name, type))) = Len(sts) + 1
  BY <1>1, <1>3
<1> QED
  BY <1>1, <1>2, <1>4, AppendIsSound DEF Declare

(* An expression's value fits where the statement goes. *)
LEMMA ValueFits ==
  ASSUME NEW sts \in Seq(Statement), NEW leftover \in Leftovers, NEW i,
         NEW e, ExprOK(e, i, sts, leftover), e.code = "NONE", e.value # NullValue
  PROVE  e.value.type = "INSTR_REF" =>
           \/ DeclaredBefore(e.value.u[1], Len(sts) + 1, sts)
           \/ e.value.u[1] = Len(sts) /\ \E x \in Leftovers : x.type = "DECLARE"
<1> SUFFICES ASSUME e.value.type = "INSTR_REF"
             PROVE  \/ DeclaredBefore(e.value.u[1], Len(sts) + 1, sts)
                    \/ e.value.u[1] = Len(sts) /\ \E x \in Leftovers : x.type = "DECLARE"
  OBVIOUS
<1> DEFINE n == e.value.u[1]
<1> DEFINE slots == Append(sts, leftover)
<1>1. n \in 1..Len(sts) /\ slots[n + 1].type = "DECLARE"
  BY DEF ExprOK
<1>2. /\ Len(sts) \in Nat
      /\ slots[Len(sts) + 1] = leftover
      /\ \A p \in 1..Len(sts) : slots[p] = sts[p]
  OBVIOUS
<1> HIDE DEF slots, n
<1>3. CASE n = Len(sts)
  BY <1>1, <1>2, <1>3 DEF n
<1>4. CASE n # Len(sts)
  <2>1. n + 1 \in 1..Len(sts)
    BY <1>1, <1>2, <1>4
  <2>2. n + 1 \in 1..((Len(sts) + 1) - 1)
    BY <1>2, <2>1
  <2> QED
    BY <1>1, <1>2, <2>1, <2>2 DEF DeclaredBefore, n
<1> QED
  BY <1>3, <1>4

(* A return of it, and the assignment behind its declaration. *)
LEMMA MadeFits ==
  ASSUME NEW sts, Sound(sts), NEW leftover \in Leftovers, NEW i,
         NEW e, ExprOK(e, i, sts, leftover), e.code = "NONE", e.value # NullValue,
         NEW type, \/ type = "RETURN"
                   \/ /\ type = "ASSIGN" /\ Len(statements) \in Nat
                      /\ Len(sts) = Len(statements) + 1
                      /\ sts[Len(statements) + 1].type = "DECLARE"
  PROVE  /\ Made(type, e.value) \in Statement
         /\ Fits(Made(type, e.value), Len(sts) + 1, sts)
         /\ ~statement_is_block(Made(type, e.value))
<1>1. e.value \in Values /\ sts \in Seq(Statement) /\ Len(sts) \in Nat
  BY DEF ExprOK, Sound
<1>2. e.value.type = "INSTR_REF" =>
        \/ DeclaredBefore(e.value.u[1], Len(sts) + 1, sts)
        \/ e.value.u[1] = Len(sts) /\ \E x \in Leftovers : x.type = "DECLARE"
  BY <1>1, ValueFits
<1>3. Len(sts) = (Len(sts) + 1) - 1
  BY <1>1
<1>4. CASE type = "RETURN"
  <2>1. Made(type, e.value) = Return(e.value)
    BY <1>4 DEF Made
  <2>2. Fits(Return(e.value), Len(sts) + 1, sts) /\ ~statement_is_block(Return(e.value))
    BY <1>2, <1>3 DEF Fits, Return, statement_is_block
  <2> QED
    BY <1>1, <2>1, <2>2, StatementsMade
<1>5. CASE /\ type = "ASSIGN" /\ Len(statements) \in Nat
           /\ Len(sts) = Len(statements) + 1
           /\ sts[Len(statements) + 1].type = "DECLARE"
  <2> DEFINE dest == Len(statements)
  <2>1. Made(type, e.value) = Assign(dest, e.value)
    BY <1>5 DEF Made, DestIndex
  <2>2. dest = (Len(sts) + 1) - 2 /\ DeclaredBefore(dest, Len(sts) + 1, sts)
    BY <1>5 DEF DeclaredBefore
  <2> HIDE DEF dest
  <2>3. Fits(Assign(dest, e.value), Len(sts) + 1, sts) /\ ~statement_is_block(Assign(dest, e.value))
    BY <1>2, <1>3, <2>2 DEF Fits, Assign, statement_is_block
  <2> QED
    BY <1>1, <1>5, <2>1, <2>3, StatementsMade DEF dest
<1> QED
  BY <1>4, <1>5

-----------------------------------------------------------------------------
(* How a call ends.                                                        *)

(* What holds when parser_next_statement is called. *)
LEMMA BeforeTheCall ==
  ASSUME ParserInv, Parsing
  PROVE  /\ tokens \in Streams /\ tokens' = tokens
         /\ Clear(tok_index) /\ Sound(statements)
         /\ error = NoError
BY DEF ParserInv, Parsing, TypeOK

(* The statements are as TypeOK says. *)
LEMMA SoundIsTyped ==
  ASSUME NEW sts, Sound(sts)
  PROVE  \A p \in DOMAIN sts : StatementOK(sts[p])
<1>1. \A p \in DOMAIN sts : sts[p] \in Statement
  BY DEF Sound
<1>2. ASSUME NEW s \in Statement
      PROVE  StatementOK(s)
  <2>1. CASE s \in [type : {"RETURN"}, value : Values]
    BY <2>1 DEF StatementOK
  <2>2. CASE s \in [type : {"ASSIGN"}, dest : Nat, value : Values]
    BY <2>2 DEF StatementOK
  <2>3. CASE s \in [type : {"DECLARE"}, name : Seq(Char), data_type : DataTypes]
    BY <2>3 DEF StatementOK
  <2>4. CASE s \in [type : {"BLOCK_FUNCTION"}, name : Seq(Char), ret_type : DataTypes]
    BY <2>4 DEF StatementOK
  <2>5. CASE s = BlockEnd
    BY <2>5 DEF StatementOK, BlockEnd
  <2> QED
    BY <2>1, <2>2, <2>3, <2>4, <2>5 DEF Statement
<1> QED
  BY <1>1, <1>2

(* Every ending leaves the state well typed. *)
LEMMA TypeOKAfter ==
  ASSUME NEW len \in Nat, Len(tokens) = len, tokens' = tokens,
         tok_index' \in 1..(len + 1), Sound(statements'),
         \/ pc' = "parse" /\ error' = NoError
         \/ pc' = "return" /\ error'.code # "NONE" /\ error'.at = tok_index'
  PROVE  TypeOK'
<1>1. \A p \in DOMAIN statements' : StatementOK(statements'[p])
  BY SoundIsTyped
<1>2. (\A p \in DOMAIN statements : StatementOK(statements[p]))'
  BY <1>1 DEF StatementOK
<1>3. NoError.at = 0 /\ NoError.code = "NONE"
  BY DEF NoError
<1>4. error'.at \in 0..(Len(tokens') + 1)
  BY <1>3
<1>5. error' = NoError <=> pc' # "return"
  BY <1>3
<1>6. pc' \in {"parse", "return", "assert_failed"}
  OBVIOUS
<1>7. tok_index' \in 1..(Len(tokens') + 1)
  OBVIOUS
<1> QED
  BY <1>2, <1>4, <1>5, <1>6, <1>7 DEF TypeOK, NoError

(* The call goes on at a token with no EOF before it, or an error is       *)
(* printed there.                                                          *)
LEMMA AfterTheCall ==
  ASSUME StreamAssumption, tokens \in Streams, tokens' = tokens,
         Clear(tok_index'), Sound(statements'),
         \/ pc' = "parse" /\ error' = NoError
         \/ pc' = "return" /\ error'.code # "NONE" /\ error'.at = tok_index'
  PROVE  ParserInv'
<1>1. Len(tokens) \in Nat
  BY StreamFacts
<1>2. Clear(tok_index)'
  BY DEF Clear, Is
<1>3. tok_index' \in 1..Len(tokens) /\ \A k \in 1..(tok_index' - 1) : ~Is(k, TOKEN_EOF)
  BY DEF Clear
<1>4. Sound(statements)'
  BY DEF Sound, Fits, DeclaredBefore
<1>5. tok_index' \in 1..(Len(tokens) + 1)
  BY <1>1, <1>3
<1>6. TypeOK'
  BY <1>1, <1>5, TypeOKAfter
<1>7. StopsAtTheFirstEof'
  BY <1>3 DEF StopsAtTheFirstEof, Is
<1>8. ParserProgresses'
  BY DEF ParserProgresses
<1> QED
  BY <1>2, <1>4, <1>6, <1>7, <1>8 DEF ParserInv

(* An error, at a token with no EOF before it. *)
LEMMA EmitErrorKeeps ==
  ASSUME StreamAssumption, ParserInv, Parsing,
         NEW code, code # "NONE", NEW msg, NEW at, Clear(at),
         EmitError(code, msg, at), Sound(statements')
  PROVE  ParserInv'
<1>1. /\ tok_index' = at /\ pc' = "return"
      /\ error'.code # "NONE" /\ error'.at = at
  BY DEF EmitError
<1> QED
  BY <1>1, BeforeTheCall, AfterTheCall

(* An error that leaves the statements as they are. *)
LEMMA RejectKeeps ==
  ASSUME StreamAssumption, ParserInv, Parsing,
         NEW code, code # "NONE", NEW msg, NEW at, Clear(at),
         Reject(code, msg, at)
  PROVE  ParserInv'
BY BeforeTheCall, EmitErrorKeeps DEF Reject

(* The next call begins further on. *)
LEMMA ProceedKeeps ==
  ASSUME StreamAssumption, ParserInv, Parsing,
         NEW sts, Sound(sts), NEW at, Clear(at), at # tok_index,
         Proceed(sts, at)
  PROVE  ParserInv'
<1>1. /\ statements' = sts /\ tok_index' = at
      /\ pc' = "parse" /\ error' = error
  BY DEF Proceed
<1> QED
  BY <1>1, BeforeTheCall, AfterTheCall

(* A statement is read, and its ';' looked for. *)
LEMMA CompleteKeeps ==
  ASSUME StreamAssumption, ParserInv, Parsing,
         NEW sts, Sound(sts), NEW s \in Statement, Fits(s, Len(sts) + 1, sts),
         NEW at, Clear(at), tok_index < at,
         Complete(sts, s, at)
  PROVE  ParserInv'
<1>1. Sound(Append(sts, s))
  BY AppendIsSound
<1>2. tokens \in Streams /\ Len(tokens) \in Nat /\ tok_index \in 1..Len(tokens) /\ at \in 1..Len(tokens)
  BY BeforeTheCall, StreamFacts DEF Clear
<1>3. at # tok_index /\ at + 1 # tok_index
  BY <1>2
<1>4. CASE Proceed(Append(sts, s), at)
  BY <1>1, <1>3, <1>4, ProceedKeeps
<1>5. CASE Is(at, ";") /\ Proceed(Append(sts, s), at + 1)
  <2>1. ~Is(at, TOKEN_EOF)
    BY <1>5 DEF Is, TOKEN_EOF, NUL
  <2>2. Clear(at + 1)
    BY <1>2, <2>1, Further
  <2> QED
    BY <1>1, <1>3, <1>5, <2>2, ProceedKeeps
<1>6. CASE /\ EmitError("INVALID_SYNTAX", "expected a semi colon", at)
           /\ statements' = sts
  BY <1>6, EmitErrorKeeps
<1> QED
  BY <1>4, <1>5, <1>6 DEF Complete

(* An expression is read: behind a return, or behind a declaration. *)
LEMMA CompleteWithKeeps ==
  ASSUME StreamAssumption, NumberAssumption, ParserInv, Parsing,
         NEW sts, Sound(sts), NEW at, Clear(at), tok_index < at,
         NEW type, \/ type = "RETURN"
                   \/ /\ type = "ASSIGN"
                      /\ Len(sts) = Len(statements) + 1
                      /\ sts[Len(statements) + 1].type = "DECLARE",
         CompleteWith(type, sts, at)
  PROVE  ParserInv'
<1>1. /\ tokens \in Streams /\ Len(tokens) \in Nat
      /\ tok_index \in 1..Len(tokens) /\ at \in 1..Len(tokens)
      /\ tokens[at] \in Token
  BY BeforeTheCall, StreamFacts DEF Clear
<1>2. sts \in Seq(Statement) /\ statements \in Seq(Statement)
  BY BeforeTheCall DEF Sound
<1>3. Len(statements) \in Nat
  BY <1>2
<1>4. PICK leftover \in Leftovers :
        LET e == parser_expr(at, sts, leftover)
        IN  \/ /\ e.code # "NONE"
               /\ EmitError(e.code, e.msg, e.at)
               /\ statements' = sts
            \/ /\ e.code = "NONE" /\ e.value = NullValue
               /\ Proceed(sts, e.at)
            \/ /\ e.code = "NONE" /\ e.value # NullValue
               /\ Complete(sts, Made(type, e.value), e.at)
  BY DEF CompleteWith
<1>5. PICK e : e = parser_expr(at, sts, leftover)
  OBVIOUS
<1>6. ExprOK(e, at, sts, leftover)
  BY <1>1, <1>2, <1>5, ExpressionIsOK
<1>7. Clear(e.at) /\ tok_index < e.at
  <2>1. CASE e.at = at
    BY <2>1
  <2>2. CASE e.at = at + 1 /\ ~IsToken(at)
    BY <1>1, <2>2, Further, NoEof
  <2> QED
    BY <1>6, <2>1, <2>2 DEF ExprOK
<1>8. e.at # tok_index
  BY <1>1, <1>7
<1>9. CASE /\ e.code # "NONE"
           /\ EmitError(e.code, e.msg, e.at)
           /\ statements' = sts
  BY <1>7, <1>9, EmitErrorKeeps
<1>10. CASE Proceed(sts, e.at)
  BY <1>7, <1>8, <1>10, ProceedKeeps
<1>11. CASE /\ e.code = "NONE" /\ e.value # NullValue
            /\ Complete(sts, Made(type, e.value), e.at)
  <2>1. Made(type, e.value) \in Statement /\ Fits(Made(type, e.value), Len(sts) + 1, sts)
    BY <1>3, <1>6, <1>11, MadeFits
  <2> QED
    BY <1>7, <1>11, <2>1, CompleteKeeps
<1> QED
  BY <1>4, <1>5, <1>9, <1>10, <1>11

-----------------------------------------------------------------------------
(* The calls, by the token they begin at.                                  *)

(* Behind a token with a value that is no NUL there is another. *)
LEMMA Behind ==
  ASSUME StreamAssumption, tokens \in Streams, NEW i, Clear(i),
         NEW v, Is(i, v), v # TOKEN_EOF
  PROVE  Clear(i + 1) /\ i \in Nat
<1>1. ~Is(i, TOKEN_EOF)
  BY DEF Is
<1> QED
  BY <1>1, Further, StreamFacts

(* So there is behind an identifier. *)
LEMMA BehindIdentifier ==
  ASSUME StreamAssumption, tokens \in Streams, NEW i, Clear(i), IsIdentifier(i)
  PROVE  Clear(i + 1) /\ i \in Nat /\ tokens[i].text \in Seq(Char)
<1>1. ~Is(i, TOKEN_EOF)
  BY DEF Is, IsIdentifier
<1>2. Clear(i + 1) /\ i \in Nat /\ tokens[i] \in Token
  BY <1>1, Further, StreamFacts
<1> QED
  BY <1>2 DEF Token

(* And behind a data type. *)
LEMMA BehindDataType ==
  ASSUME StreamAssumption, tokens \in Streams, NEW i, Clear(i), IsDataType(i)
  PROVE  Clear(i + 1) /\ i \in Nat /\ tokens[i].token \in DataTypes
<1>1. ~Is(i, TOKEN_EOF)
  BY DEF Is, IsDataType, DataTypes, TOKEN_EOF, NUL
<1> QED
  BY <1>1, Further, StreamFacts DEF IsDataType

(* A line break is passed over. *)
LEMMA SkipBreakKeeps ==
  ASSUME StreamAssumption, ParserInv, parser_skip_break
  PROVE  ParserInv'
<1>1. /\ Parsing /\ Is(tok_index, TOKEN_BREAK)
      /\ Proceed(statements, tok_index + 1)
  BY DEF parser_skip_break, AfterBreak
<1>2. TOKEN_BREAK # TOKEN_EOF
  BY DEF TOKEN_BREAK, TOKEN_EOF, NUL, LF
<1>3. Clear(tok_index + 1) /\ tok_index \in Nat
  BY <1>1, <1>2, BeforeTheCall, Behind
<1>4. tok_index + 1 # tok_index
  BY <1>3
<1> QED
  BY <1>1, <1>3, <1>4, BeforeTheCall, ProceedKeeps

(* A return. *)
LEMMA ReturnKeeps ==
  ASSUME StreamAssumption, NumberAssumption, ParserInv, parser_return
  PROVE  ParserInv'
<1>1. /\ Parsing /\ Is(tok_index, "KEYWORD_RETURN")
      /\ CompleteWith("RETURN", statements, tok_index + 1)
  BY DEF parser_return
<1>2. "KEYWORD_RETURN" # TOKEN_EOF
  BY DEF TOKEN_EOF, NUL
<1>3. Clear(tok_index + 1) /\ tok_index \in Nat
  BY <1>1, <1>2, BeforeTheCall, Behind
<1>4. tok_index < tok_index + 1
  BY <1>3
<1> QED
  BY <1>1, <1>3, <1>4, BeforeTheCall, CompleteWithKeeps

(* The end of a block. *)
LEMMA EndBlockKeeps ==
  ASSUME StreamAssumption, ParserInv, parser_end_block
  PROVE  ParserInv'
<1>1. Parsing /\ Is(tok_index, "}")
  BY DEF parser_end_block
<1>2. "}" # TOKEN_EOF
  BY DEF TOKEN_EOF, NUL
<1>3. Clear(tok_index + 1) /\ tok_index \in Nat
  BY <1>1, <1>2, BeforeTheCall, Behind
<1>4. tok_index < tok_index + 1
  BY <1>3
<1>5. BlockEnd \in Statement /\ Fits(BlockEnd, Len(statements) + 1, statements)
  BY StatementsMade DEF Fits, BlockEnd
<1>6. CASE Complete(statements, BlockEnd, tok_index + 1)
  BY <1>1, <1>3, <1>4, <1>5, <1>6, BeforeTheCall, CompleteKeeps
<1>7. CASE Reject("INVALID_SYNTAX", "unexpected '}'", tok_index)
  BY <1>1, <1>7, BeforeTheCall, RejectKeeps
<1> QED
  BY <1>6, <1>7 DEF parser_end_block

(* The numbers up to i, which is among the first n. *)
LEMMA OnePast ==
  ASSUME NEW n \in Nat, NEW i \in 1..n
  PROVE  /\ i + 1 \in 1..(n + 1)
         /\ (i + 1) - 1 = i
         /\ \A k \in 1..i : k = i \/ k \in 1..(i - 1)
OBVIOUS

(* A function whose return type is missing at an EOF: the error is         *)
(* printed behind that EOF.                                                *)
LEMMA MissingTypeAtEofKeeps ==
  ASSUME StreamAssumption, ParserInv, Parsing, NEW i, Clear(i),
         Is(i, TOKEN_EOF), Is(i - 1, ")"),
         Reject("INVALID_SYNTAX", "expected a type", i + 1)
  PROVE  ParserInv'
<1>1. /\ tok_index' = i + 1 /\ pc' = "return"
      /\ error'.code # "NONE" /\ error'.at = tok_index'
      /\ error'.msg = "expected a type"
      /\ statements' = statements
  BY DEF Reject, EmitError
<1>2. /\ tokens \in Streams /\ tokens' = tokens /\ Len(tokens) \in Nat
      /\ i \in 1..Len(tokens) /\ Sound(statements')
      /\ \A k \in 1..(i - 1) : ~Is(k, TOKEN_EOF)
  BY <1>1, BeforeTheCall, StreamFacts DEF Clear
<1>3. /\ i + 1 \in 1..(Len(tokens) + 1)
      /\ (i + 1) - 1 = i
      /\ \A k \in 1..i : k = i \/ k \in 1..(i - 1)
  <2>1. i \in 1..Len(tokens) /\ Len(tokens) \in Nat
    BY <1>2
  <2> QED
    BY <2>1, OnePast
<1>4. TypeOK'
  <2>1. tok_index' \in 1..(Len(tokens) + 1)
    BY <1>1, <1>3
  <2> QED
    BY <1>1, <1>2, <2>1, TypeOKAfter
<1>5. Sound(statements)'
  BY <1>2 DEF Sound, Fits, DeclaredBefore
<1>6. StopsAtTheFirstEof'
  <2>1. tok_index' - 1 = i
    BY <1>1, <1>3
  <2>2. \A k \in 1..(tok_index' - 1) : k = i \/ k \in 1..(i - 1)
    BY <1>3, <2>1
  <2>3. ASSUME NEW k \in 1..(tok_index' - 1), Is(k, TOKEN_EOF)
        PROVE  k = i
    BY <1>2, <2>2, <2>3
  <2> QED
    BY <1>1, <1>2, <2>1, <2>3 DEF StopsAtTheFirstEof, Is
<1> QED
  BY <1>1, <1>2, <1>4, <1>5, <1>6 DEF ParserInv, ParserProgresses

(* The return type and the '{'. *)
LEMMA FunctionBodyKeeps ==
  ASSUME StreamAssumption, ParserInv, Parsing,
         NEW name \in Seq(Char), NEW i, Clear(i), tok_index < i,
         Is(i - 1, ")"), FunctionBody(name, i)
  PROVE  ParserInv'
<1>1. /\ tokens \in Streams /\ Sound(statements) /\ Clear(tok_index)
      /\ Len(tokens) \in Nat /\ i \in 1..Len(tokens) /\ tok_index \in 1..Len(tokens)
  BY BeforeTheCall, StreamFacts DEF Clear
<1>2. CASE \/ Reject("UNIMPLEMENTED", "only i32, f32, bool or void", i)
           \/ Reject("INVALID_SYNTAX", "expected token i32, f32, bool, or void", i)
  BY <1>2, RejectKeeps
<1>3. CASE /\ ~Is(i, "{")
           /\ Reject("INVALID_SYNTAX", "expected a type", AfterType(i))
  <2>1. Reject("INVALID_SYNTAX", "expected a type", i + 1)
    BY <1>3 DEF AfterType
  <2>2. CASE Is(i, TOKEN_EOF)
    BY <2>1, <2>2, MissingTypeAtEofKeeps
  <2>3. CASE ~Is(i, TOKEN_EOF)
    <3>1. Clear(i + 1)
      BY <1>1, <2>3, Further
    <3> QED
      BY <2>1, <3>1, RejectKeeps
  <2> QED
    BY <2>2, <2>3
<1>4. CASE /\ IsDataType(i) \/ Is(i, "{")
           /\ LET b == SkipBreaks(AfterType(i))
              IN  \/ /\ ~Is(b, "{")
                     /\ Reject("INVALID_SYNTAX", "missing '{' after func decl", b)
                  \/ /\ Is(b, "{")
                     /\ Complete(statements, BlockFunction(name, ReturnType(i)), b + 1)
  <2> DEFINE j == AfterType(i)
  <2> DEFINE b == SkipBreaks(AfterType(i))
  <2> DEFINE s == BlockFunction(name, ReturnType(i))
  <2>1. Clear(j) /\ (j = i \/ j = i + 1) /\ ReturnType(i) \in DataTypes
    <3>1. CASE Is(i, "{")
      BY <3>1 DEF AfterType, ReturnType, DataTypes
    <3>2. CASE IsDataType(i) /\ ~Is(i, "{")
      BY <1>1, <3>2, BehindDataType DEF AfterType, ReturnType
    <3> QED
      BY <1>4, <3>1, <3>2
  <2>2. b \in j..Len(tokens) /\ Clear(b)
    BY <1>1, <2>1, SkipBreaksIsClear
  <2>3. s \in Statement /\ Fits(s, Len(statements) + 1, statements)
    BY <2>1, StatementsMade DEF Fits, BlockFunction
  <2>4. \/ Reject("INVALID_SYNTAX", "missing '{' after func decl", b)
        \/ Is(b, "{") /\ Complete(statements, s, b + 1)
    BY <1>4
  <2> HIDE DEF j, b, s
  <2>5. CASE Reject("INVALID_SYNTAX", "missing '{' after func decl", b)
    BY <2>2, <2>5, RejectKeeps
  <2>6. CASE Is(b, "{") /\ Complete(statements, s, b + 1)
    <3>1. "{" # TOKEN_EOF
      BY DEF TOKEN_EOF, NUL
    <3>2. Clear(b + 1)
      BY <1>1, <2>2, <2>6, <3>1, Behind
    <3>3. tok_index < b + 1
      BY <1>1, <2>1, <2>2
    <3> QED
      BY <1>1, <2>3, <2>6, <3>2, <3>3, CompleteKeeps
  <2> QED
    BY <2>4, <2>5, <2>6
<1> QED
  BY <1>2, <1>3, <1>4 DEF FunctionBody

(* A function. *)
LEMMA FuncDeclKeeps ==
  ASSUME StreamAssumption, ParserInv, parser_func_decl
  PROVE  ParserInv'
<1> DEFINE i == tok_index
<1>1. Parsing /\ Is(i, "KEYWORD_FUNC")
  BY DEF parser_func_decl
<1>2. tokens \in Streams
  BY <1>1, BeforeTheCall
<1>3. "KEYWORD_FUNC" # TOKEN_EOF /\ "(" # TOKEN_EOF /\ ")" # TOKEN_EOF
  BY DEF TOKEN_EOF, NUL
<1>4. Clear(i + 1) /\ i \in Nat
  BY <1>1, <1>3, BeforeTheCall, Behind
<1>5. ASSUME NEW code, code # "NONE", NEW msg, NEW at, Clear(at), Reject(code, msg, at)
      PROVE  ParserInv'
  BY <1>1, <1>5, RejectKeeps
<1>6. (i + 1) + 1 = i + 2 /\ (i + 2) + 1 = i + 3 /\ (i + 3) + 1 = i + 4
  BY <1>4
<1>7. IsIdentifier(i + 1) => Clear(i + 2) /\ tokens[i + 1].text \in Seq(Char)
  BY <1>2, <1>4, <1>6, BehindIdentifier
<1>8. IsIdentifier(i + 1) /\ Is(i + 2, "(") => Clear(i + 3)
  BY <1>2, <1>3, <1>6, <1>7, Behind
<1>9. CASE Reject("INVALID_SYNTAX", "missing function name", i + 1)
  BY <1>4, <1>5, <1>9
<1>10. CASE /\ IsIdentifier(i + 1)
            /\ Reject("INVALID_SYNTAX", "missing '(' after func name", i + 2)
  BY <1>5, <1>7, <1>10
<1>11. CASE /\ IsIdentifier(i + 1) /\ Is(i + 2, "(")
            /\ \/ Reject("UNIMPLEMENTED", "function arguments", i + 3)
               \/ Reject("INVALID_SYNTAX", "missing ')' after function", i + 3)
  BY <1>5, <1>8, <1>11
<1>12. CASE /\ IsIdentifier(i + 1) /\ Is(i + 2, "(") /\ Is(i + 3, ")")
            /\ FunctionBody(tokens[i + 1].text, i + 4)
  <2>1. Clear(i + 4)
    BY <1>2, <1>3, <1>6, <1>8, <1>12, Behind
  <2>2. tok_index < i + 4 /\ (i + 4) - 1 = i + 3
    BY <1>4
  <2>3. Is((i + 4) - 1, ")")
    BY <1>12, <2>2
  <2> QED
    BY <1>1, <1>7, <1>12, <2>1, <2>2, <2>3, FunctionBodyKeeps
<1> QED
  BY <1>9, <1>10, <1>11, <1>12 DEF parser_func_decl

(* A declaration. *)
LEMMA VarDeclKeeps ==
  ASSUME StreamAssumption, NumberAssumption, ParserInv, parser_var_decl
  PROVE  ParserInv'
<1> DEFINE i == tok_index
<1> DEFINE decl == Declare(tokens[i].text, tokens[i + 2].token)
<1>1. Parsing /\ IsIdentifier(i) /\ Is(i + 1, ":")
  BY DEF parser_var_decl
<1>2. tokens \in Streams /\ Sound(statements)
  BY <1>1, BeforeTheCall
<1>3. ":" # TOKEN_EOF /\ ";" # TOKEN_EOF /\ "=" # TOKEN_EOF
  BY DEF TOKEN_EOF, NUL
<1>4. Clear(i + 1) /\ i \in Nat /\ tokens[i].text \in Seq(Char)
  BY <1>1, BeforeTheCall, BehindIdentifier
<1>5. ASSUME NEW code, code # "NONE", NEW msg, NEW at, Clear(at), Reject(code, msg, at)
      PROVE  ParserInv'
  BY <1>1, <1>5, RejectKeeps
<1>6. (i + 1) + 1 = i + 2 /\ (i + 2) + 1 = i + 3 /\ (i + 3) + 1 = i + 4
  BY <1>4
<1>7. Clear(i + 2)
  BY <1>1, <1>2, <1>3, <1>4, <1>6, Behind
<1>8. IsDataType(i + 2) => Clear(i + 3) /\ tokens[i + 2].token \in DataTypes
  BY <1>2, <1>6, <1>7, BehindDataType
<1>9. ASSUME IsDataType(i + 2), NEW v, Is(i + 3, v), v # TOKEN_EOF
      PROVE  Clear(i + 4)
  BY <1>2, <1>6, <1>8, <1>9, Behind
<1>10. tok_index < i + 4
  BY <1>4
<1>11. IsDataType(i + 2) =>
         /\ decl \in Statement
         /\ Fits(decl, Len(statements) + 1, statements)
         /\ Sound(Append(statements, decl))
         /\ Append(statements, decl)[Len(statements) + 1].type = "DECLARE"
         /\ Len(Append(statements, decl)) = Len(statements) + 1
  BY <1>2, <1>4, <1>8, DeclarationIsSound
<1>12. CASE \/ Reject("INVALID_SYNTAX", "expected token", i + 2)
            \/ Reject("UNIMPLEMENTED", "type inference", i + 2)
            \/ Reject("INVALID_SYNTAX", "not a type", i + 2)
  BY <1>5, <1>7, <1>12
<1>13. CASE /\ IsDataType(i + 2) /\ Is(i + 3, ";")
            /\ Complete(statements, decl, i + 4)
  <2>1. Clear(i + 4)
    BY <1>3, <1>9, <1>13
  <2> HIDE DEF decl
  <2> QED
    BY <1>1, <1>2, <1>10, <1>11, <1>13, <2>1, CompleteKeeps
<1>14. CASE /\ IsDataType(i + 2)
            /\ Reject("INVALID_SYNTAX", "expected ';' or '='", i + 3)
  BY <1>5, <1>8, <1>14
<1>15. CASE /\ IsDataType(i + 2) /\ Is(i + 3, "=")
            /\ CompleteWith("ASSIGN", Append(statements, decl), i + 4)
  <2>1. Clear(i + 4)
    BY <1>3, <1>9, <1>15
  <2> HIDE DEF decl
  <2> QED
    BY <1>1, <1>10, <1>11, <1>15, <2>1, CompleteWithKeeps
<1> QED
  BY <1>12, <1>13, <1>14, <1>15 DEF parser_var_decl

(* Whatever else a call finds is reported where it began. *)
LEMMA RejectedKeeps ==
  ASSUME StreamAssumption, ParserInv,
         parser_identifier \/ parser_token \/ literal_by_itself
  PROVE  ParserInv'
<1>1. /\ Parsing
      /\ \E code \in {"INVALID_SYNTAX", "UNIMPLEMENTED", "UNSUPPORTED"} :
           \E msg : Reject(code, msg, tok_index)
  BY DEF parser_identifier, parser_token, literal_by_itself
<1>2. Clear(tok_index)
  BY <1>1, BeforeTheCall
<1> QED
  BY <1>1, <1>2, RejectKeeps

(* A step of parse. *)
LEMMA NextKeepsParserInv ==
  ASSUME StreamAssumption, NumberAssumption, ParserInv, [Next]_vars
  PROVE  ParserInv'
<1>1. CASE UNCHANGED vars
  BY <1>1 DEF vars, ParserInv, TypeOK, StatementOK, Sound, Fits, DeclaredBefore,
              ParserProgresses, StopsAtTheFirstEof, Clear, Is
<1> QED
  BY <1>1, SkipBreakKeeps, ReturnKeeps, EndBlockKeeps, FuncDeclKeeps, VarDeclKeeps,
     RejectedKeeps DEF Next, parser_next_statement, Terminating

(* The first call of all. *)
LEMMA InitMakesParserInv ==
  ASSUME StreamAssumption, Init
  PROVE  ParserInv
<1>1. Len(tokens) \in Nat \ {0}
  BY StreamFacts DEF Init
<1>2. Clear(1)
  BY <1>1 DEF Clear
<1>3. Sound(<< >>)
  BY DEF Sound
<1>4. TypeOK
  <2>1. DOMAIN << >> = {}
    OBVIOUS
  <2>2. NoError.at = 0
    BY DEF NoError
  <2> QED
    BY <1>1, <2>1, <2>2 DEF Init, TypeOK
<1>5. StopsAtTheFirstEof /\ ParserProgresses
  BY DEF Init, StopsAtTheFirstEof, ParserProgresses
<1> QED
  BY <1>2, <1>3, <1>4, <1>5 DEF Init, ParserInv

-----------------------------------------------------------------------------
(* parse, whatever it is given.                                            *)

(* ParserInv holds of every state of the parser. *)
THEOREM SpecKeepsParserInv ==
  Spec => []ParserInv
<1>1. Init => ParserInv
  BY StreamAssumption, InitMakesParserInv
<1>2. ParserInv /\ [Next]_vars => ParserInv'
  BY StreamAssumption, NumberAssumption, NextKeepsParserInv
<1> QED
  BY <1>1, <1>2, PTL DEF Spec

(* The indices, the statements and the error are always of their types. *)
THEOREM TypeCorrect ==
  Spec => []TypeOK
<1>1. ParserInv => TypeOK
  BY DEF ParserInv
<1> QED
  BY <1>1, SpecKeepsParserInv, PTL

(* The assertion "parser did not progress" never fails (parser.c, parse). *)
THEOREM ParserMakesProgress ==
  Spec => []ParserProgresses
<1>1. ParserInv => ParserProgresses
  BY DEF ParserInv
<1> QED
  BY <1>1, SpecKeepsParserInv, PTL

(* No statement is read past the first EOF token. *)
THEOREM NothingIsReadPastAnEof ==
  Spec => []StopsAtTheFirstEof
<1>1. ParserInv => StopsAtTheFirstEof
  BY DEF ParserInv
<1> QED
  BY <1>1, SpecKeepsParserInv, PTL

(* Every statement refers to declarations in front of it. *)
THEOREM OnlyBackwardReferences ==
  Spec => []ReferencesPointBack
<1>1. ParserInv => ReferencesPointBack
  <2> SUFFICES ASSUME ParserInv, NEW p \in DOMAIN statements
               PROVE  LET s == statements[p]
                          declared(i) == /\ i + 1 \in 1..(p - 1)
                                         /\ statements[i + 1].type = "DECLARE"
                      IN  /\ s.type = "ASSIGN" => s.dest = p - 2 /\ declared(s.dest)
                          /\ s.type \in {"ASSIGN", "RETURN"} /\ s.value.type = "INSTR_REF" =>
                               LET i == s.value.u[1]
                               IN  \/ declared(i)
                                   \/ i = p - 1 /\ \E x \in Leftovers : x.type = "DECLARE"
    BY DEF ReferencesPointBack
  <2>1. Fits(statements[p], p, statements)
    BY DEF ParserInv, Sound
  <2> QED
    BY <2>1 DEF Fits, DeclaredBefore
<1> QED
  BY <1>1, SpecKeepsParserInv, PTL

-----------------------------------------------------------------------------
(* What a literal is worth, in WakGrammar and in the counters.             *)

(* No more than two digits follow a dot. *)
ShortFraction(s) ==
  \A d, k \in DOMAIN s :
    s[d] = DOT /\ (\A j \in (d + 1)..k : s[j] \in Digit) => k <= d + 2

(* The moduli are large enough for two digits behind the dot. *)
FewDigits ==
  /\ \A s \in Streams : \A i \in DOMAIN s :
       s[i].type = "LITERAL_NUM" => ShortFraction(s[i].text)
  /\ UIntMod > 100 /\ ULongMod > 100

(* Both modules have the same words. *)
LEMMA SameWords ==
  /\ \A type, u : Grammar!Value(type, u) = Value(type, u)
  /\ \A i : Grammar!InstrRef(i) = InstrRef(i)
  /\ \A v : Grammar!Return(v) = Return(v)
  /\ \A d, v : Grammar!Assign(d, v) = Assign(d, v)
  /\ \A n, t : Grammar!Declare(n, t) = Declare(n, t)
  /\ \A n, t : Grammar!BlockFunction(n, t) = BlockFunction(n, t)
  /\ Grammar!BlockEnd = BlockEnd /\ Grammar!DataTypes = DataTypes
  /\ Grammar!TOKEN_BREAK = TOKEN_BREAK /\ Grammar!DOT = DOT
BY DEF Grammar!Value, Grammar!InstrRef, Grammar!Return, Grammar!Assign, Grammar!Declare,
       Grammar!BlockFunction, Grammar!BlockEnd, Grammar!DataTypes, Grammar!TOKEN_BREAK,
       Grammar!LF, Grammar!DOT, Value, InstrRef, Return, Assign, Declare, BlockFunction,
       BlockEnd, DataTypes, TOKEN_BREAK, LF, DOT

(* A literal of digits. *)
LEMMA WholeValues ==
  ASSUME NEW s, \A i \in DOMAIN s : s[i] \in Digit
  PROVE  Grammar!LiteralValues(s) = {Value("CONST_I32", <<Grammar!LastDigit(s)>>)}
BY SameWords DEF Grammar!LiteralValues

(* The one dot of a literal, at d. *)
OneDot(s, d) == /\ d \in DOMAIN s /\ s[d] = DOT
                /\ \A i \in DOMAIN s : i # d => s[i] \in Digit

FloatValue(s, d) ==
  Grammar!DottedValue(SubSeq(s, 1, d - 1), SubSeq(s, d + 1, Len(s)))

(* What is left of a sequence without one of its elements. *)
Without(s, d) == SubSeq(s, 1, d - 1) \o SubSeq(s, d + 1, Len(s))

(* It is all digits if every other element is one. *)
LEMMA WithoutOne ==
  ASSUME NEW s \in Seq(Char), NEW d \in 1..Len(s)
  PROVE  (\A i \in DOMAIN Without(s, d) : Without(s, d)[i] \in Digit)
           <=> (\A i \in 1..Len(s) : i # d => s[i] \in Digit)
<1>0. PICK n, a, z, az : /\ n = Len(s) /\ a = SubSeq(s, 1, d - 1)
                         /\ z = SubSeq(s, d + 1, n) /\ az = a \o z
  OBVIOUS
<1> n \in Nat /\ d \in 1..n
  BY <1>0
<1>1. n = Len(s) /\ \A i \in 1..n : s[i] \in Char
  BY <1>0
<1>2. a \in Seq(Char) /\ Len(a) = d - 1 /\ \A i \in 1..(d - 1) : a[i] = s[i]
  <2>1. /\ a \in Seq(Char)
        /\ Len(a) = IF 1 <= d - 1 THEN (d - 1) - 1 + 1 ELSE 0
        /\ \A i \in 1..((d - 1) - 1 + 1) : a[i] = s[1 + i - 1]
    BY <1>0, <1>1, SubSeqProperties
  <2>2. (d - 1) - 1 + 1 = d - 1 /\ \A i \in Int : 1 + i - 1 = i
    OBVIOUS
  <2> QED
    BY <2>1, <2>2
<1>3. z \in Seq(Char) /\ Len(z) = n - d /\ \A i \in 1..(n - d) : z[i] = s[d + i]
  <2>1. /\ z \in Seq(Char)
        /\ Len(z) = IF d + 1 <= n THEN n - (d + 1) + 1 ELSE 0
        /\ \A i \in 1..(n - (d + 1) + 1) : z[i] = s[(d + 1) + i - 1]
    BY <1>0, <1>1, SubSeqProperties
  <2>2. n - (d + 1) + 1 = n - d /\ \A i \in Int : (d + 1) + i - 1 = d + i
    OBVIOUS
  <2> QED
    BY <2>1, <2>2
<1>4. /\ az \in Seq(Char) /\ Len(az) = Len(a) + Len(z)
      /\ \A i \in 1..(Len(a) + Len(z)) : az[i] = IF i <= Len(a) THEN a[i] ELSE z[i - Len(a)]
  <2>1. az = a \o z /\ a \in Seq(Char) /\ z \in Seq(Char)
    BY <1>0, <1>2, <1>3
  <2> QED
    BY <2>1, ConcatProperties
<1>5. Len(a) + Len(z) = n - 1
  BY <1>2, <1>3
<1>6. DOMAIN az = 1..(n - 1)
  BY <1>4, <1>5
<1>7. \A i \in 1..(d - 1) : i \in 1..(n - 1) /\ az[i] = s[i]
  BY <1>2, <1>4, <1>5
<1>8. ASSUME NEW i \in d..(n - 1) PROVE i \in 1..(n - 1) /\ az[i] = s[i + 1]
  <2>1. i \in 1..(n - 1) /\ ~(i <= d - 1)
    OBVIOUS
  <2>2. i - (d - 1) \in 1..(n - d) /\ d + (i - (d - 1)) = i + 1
    OBVIOUS
  <2>3. az[i] = z[i - (d - 1)]
    BY <1>2, <1>4, <1>5, <2>1
  <2> QED
    BY <1>3, <2>1, <2>2, <2>3
<1>9. ASSUME \A i \in 1..(n - 1) : az[i] \in Digit, NEW i \in 1..n, i # d
      PROVE  s[i] \in Digit
  <2>1. CASE i \in 1..(d - 1)
    BY <1>7, <1>9, <2>1
  <2>2. CASE i - 1 \in d..(n - 1)
    <3>1. (i - 1) + 1 = i
      OBVIOUS
    <3> QED
      BY <1>8, <1>9, <2>2, <3>1
  <2> QED
    BY <1>9, <2>1, <2>2
<1>10. ASSUME \A i \in 1..n : i # d => s[i] \in Digit, NEW i \in 1..(n - 1)
       PROVE  az[i] \in Digit
  <2>1. CASE i \in 1..(d - 1)
    <3>1. i \in 1..n /\ i # d
      BY <2>1
    <3> QED
      BY <1>7, <1>10, <2>1, <3>1
  <2>2. CASE i \in d..(n - 1)
    <3>1. i + 1 \in 1..n /\ i + 1 # d
      BY <2>2
    <3> QED
      BY <1>8, <1>10, <2>2, <3>1
  <2> QED
    BY <2>1, <2>2
<1> QED
  <2>1. az = Without(s, d)
    BY <1>0 DEF Without
  <2> QED
    BY <2>1, <1>1, <1>6, <1>9, <1>10

(* A literal with a dot. *)
LEMMA FloatValues ==
  ASSUME NEW s \in Seq(Char), ~(\A i \in DOMAIN s : s[i] \in Digit)
  PROVE  \A x : x \in Grammar!LiteralValues(s)
                  <=> \E d \in DOMAIN s : OneDot(s, d) /\ x = FloatValue(s, d)
<1>1. DOMAIN s = 1..Len(s)
  OBVIOUS
<1>2. Grammar!LiteralValues(s) =
        {FloatValue(s, d) : d \in {d \in DOMAIN s : /\ s[d] = DOT
                                                    /\ \A i \in DOMAIN Without(s, d) :
                                                         Without(s, d)[i] \in Digit}}
  BY SameWords DEF Grammar!LiteralValues, FloatValue, Without
<1>3. \A d \in DOMAIN s :
        OneDot(s, d) <=> /\ s[d] = DOT
                         /\ \A i \in DOMAIN Without(s, d) : Without(s, d)[i] \in Digit
  BY <1>1, WithoutOne DEF OneDot
<1> QED
  BY <1>2, <1>3

(* A literal with a letter, or with two dots, is worth nothing. *)
LEMMA NoLiteral ==
  ASSUME NEW s \in Seq(Char), NEW m \in DOMAIN s, s[m] \notin Digit,
         \/ s[m] # DOT
         \/ \E d \in DOMAIN s : d # m /\ s[d] \notin Digit
  PROVE  Grammar!LiteralValues(s) = {}
<1>1. \A d \in DOMAIN s : ~OneDot(s, d)
  BY DEF OneDot
<1> QED
  BY <1>1, FloatValues

(* Once a literal is bad it stays so. *)
LEMMA BadStaysBad ==
  ASSUME NumberAssumption, NEW s \in Seq(Char), NEW n \in Nat, n = Len(s),
         NEW after \in [0..n -> Counts],
         \A i \in 1..n : after[i] = CountStep(after[i - 1], s[i]),
         NEW m \in 0..n, after[m].bad # "none"
  PROVE  after[n].bad # "none"
<1> DEFINE T == {k \in Nat : m + k <= n => after[m + k].bad # "none"}
<1>1. 0 \in T
  OBVIOUS
<1>2. ASSUME NEW k \in Nat, k \in T PROVE k + 1 \in T
  <2> SUFFICES ASSUME m + (k + 1) <= n PROVE after[m + (k + 1)].bad # "none"
    OBVIOUS
  <2>1. m + (k + 1) \in 1..n /\ (m + (k + 1)) - 1 = m + k /\ m + k <= n
    OBVIOUS
  <2>2. after[m + k].bad # "none" /\ after[m + (k + 1)] = CountStep(after[m + k], s[m + (k + 1)])
    BY <1>2, <2>1
  <2> QED
    BY <2>2 DEF CountStep
<1> HIDE DEF T
<1>3. Nat \subseteq T
  BY <1>1, <1>2, SetInduction
<1>4. n - m \in T /\ m + (n - m) = n /\ m + (n - m) <= n
  BY <1>3
<1> QED
  BY <1>4 DEF T

(* A number less than the modulus is its own remainder. *)
LEMMA SmallRemainder ==
  ASSUME NEW x \in Nat, NEW m \in Nat, x < m
  PROVE  x % m = x
BY SMTT(20)

(* What the counters hold after the first k characters of s, all digits. *)
WholeCounted(s, t, k) ==
  /\ OnlyDigits(t) /\ t.frac_val = 0
  /\ t.int_val = IF k = 0 THEN 0 ELSE digit_val[s[k]]

(* The value of digits that follow no dot. *)
LEMMA WholeCounts ==
  ASSUME NumberAssumption, CharAssumption, ULongMod > 100,
         NEW s \in Seq(Char), NEW n \in Nat, n = Len(s),
         NEW after \in [0..n -> Counts], after[0] = CountStart(0),
         \A i \in 1..n : after[i] = CountStep(after[i - 1], s[i]),
         NEW m \in 0..n, \A i \in 1..m : s[i] \in Digit
  PROVE  WholeCounted(s, after[m], m)
<1> DEFINE Whole(k) == WholeCounted(s, after[k], k)
           T == {k \in Nat : k <= m => Whole(k)}
<1>1. 0 \in T
  BY DEF CountStart, OnlyDigits, WholeCounted
<1>2. ASSUME NEW k \in Nat, k \in T PROVE k + 1 \in T
  <2> SUFFICES ASSUME k + 1 <= m PROVE Whole(k + 1)
    OBVIOUS
  <2>1. k + 1 \in 1..n /\ k + 1 \in 1..m /\ (k + 1) - 1 = k /\ k \in 0..n /\ k <= m
    OBVIOUS
  <2>2. /\ OnlyDigits(after[k]) /\ after[k].frac_val = 0 /\ after[k] \in Counts
        /\ after[k + 1] = CountStep(after[k], s[k + 1]) /\ s[k + 1] \in Digit
    BY <1>2, <2>1 DEF WholeCounted
  <2>3. /\ OnlyDigits(after[k + 1])
        /\ after[k + 1].int_val = digit_val[s[k + 1]] % ULongMod
    BY <2>2, DigitReplacesTheValue
  <2>4. digit_val[s[k + 1]] % ULongMod = digit_val[s[k + 1]]
    <3>1. digit_val[s[k + 1]] \in 0..9 /\ ULongMod \in Nat
      BY <2>2 DEF NumberAssumption
    <3> QED
      BY <3>1, SmallRemainder
  <2>5. after[k + 1].frac_val = 0
    <3>1. s[k + 1] # DOT
      BY <2>2, CharAssumption DEF Special
    <3>2. after[k].frac_dig = 0 /\ ~(after[k].frac_dig > 0) /\ after[k].bad = "none"
      BY <2>2 DEF OnlyDigits
    <3>3. \A v, w : [after[k] EXCEPT !.int_val = v, !.int_dig = w].frac_val
                     = after[k].frac_val
      BY <2>2 DEF Counts
    <3>4. \E v, w : after[k + 1] = [after[k] EXCEPT !.int_val = v, !.int_dig = w]
      BY <2>2, <3>1, <3>2 DEF CountStep
    <3> QED
      BY <2>2, <3>3, <3>4
  <2>6. k + 1 # 0
    BY <2>1
  <2> QED
    BY <2>3, <2>4, <2>5, <2>6 DEF WholeCounted
<1> HIDE DEF T
<1>3. Nat \subseteq T
  BY <1>1, <1>2, SetInduction
<1>4. m \in T
  BY <1>3
<1> QED
  BY <1>4 DEF T

(* A digit of a fraction, and what may not follow one. *)
LEMMA FractionStep ==
  ASSUME NumberAssumption, CharAssumption, NEW s \in Counts, NEW c \in Char,
         s.bad = "none", s.frac_dig > 0
  PROVE  /\ c \notin Digit => CountStep(s, c).bad # "none"
         /\ c \in Digit =>
              LET t == CountStep(s, c)
              IN  /\ t.bad = "none" /\ t.int_val = s.int_val
                  /\ t.frac_val = (s.frac_val * s.frac_dig + digit_val[c]) % ULongMod
                  /\ t.frac_dig = (s.frac_dig * 10) % UIntMod
<1>1. s.frac_dig \in Nat /\ s.frac_dig # 0
  <2>1. s.frac_dig \in Nat
    BY DEF Counts
  <2>2. \A n \in Nat : n > 0 => n # 0
    OBVIOUS
  <2> QED
    BY <2>1, <2>2
<1>2. c \in Digit => c # DOT
  BY CharAssumption DEF Special
<1>3. CASE c \notin Digit
  BY <1>1, <1>3 DEF CountStep, Counts
<1>4. CASE c \in Digit
  <2>1. CountStep(s, c) = [s EXCEPT !.frac_val = (@ * s.frac_dig + digit_val[c]) % ULongMod,
                                    !.frac_dig = (@ * 10) % UIntMod]
    BY <1>2, <1>4 DEF CountStep
  <2>2. \A v, w : LET t == [s EXCEPT !.frac_val = v, !.frac_dig = w]
                  IN  /\ t.bad = s.bad /\ t.int_val = s.int_val
                      /\ t.frac_val = v /\ t.frac_dig = w
    BY DEF Counts
  <2> QED
    BY <1>4, <2>1, <2>2
<1> QED
  BY <1>3, <1>4

(* Ten, and ten times ten, below a modulus that is large enough. *)
LEMMA TensRemain ==
  ASSUME NEW m \in Nat, m > 100
  PROVE  (1 * 10) % m = 10 /\ (10 * 10) % m = 100
<1>1. 1 * 10 = 10 /\ 10 * 10 = 100
  OBVIOUS
<1>2. 10 % m = 10 /\ 100 % m = 100
  BY SmallRemainder
<1> QED
  BY <1>1, <1>2

(* What the counters hold k characters into s, with the dot at d. *)
DotCounted(s, t, d, k, whole) ==
  /\ t \in Counts /\ t.bad = "none" /\ t.int_val = whole
  /\ k = d => t.frac_val = 0 /\ t.frac_dig = 1
  /\ k = d + 1 => t.frac_val = digit_val[s[d + 1]] /\ t.frac_dig = 10
  /\ k = d + 2 => /\ t.frac_val = 10 * digit_val[s[d + 1]] + digit_val[s[d + 2]]
                  /\ t.frac_dig = 100

(* The two digits behind a dot. *)
LEMMA DotCounts ==
  ASSUME NumberAssumption, CharAssumption, UIntMod > 100, ULongMod > 100,
         NEW s \in Seq(Char), NEW n \in Nat, n = Len(s),
         NEW after \in [0..n -> Counts],
         \A i \in 1..n : after[i] = CountStep(after[i - 1], s[i]),
         NEW d \in 1..n, s[d] = DOT, OnlyDigits(after[d - 1]),
         after[d - 1].frac_val = 0,
         NEW k \in d..n, k <= d + 2, \A i \in (d + 1)..k : s[i] \in Digit
  PROVE  DotCounted(s, after[k], d, k, after[d - 1].int_val)
<1> DEFINE whole == after[d - 1].int_val
<1> HIDE DEF whole
<1>0. UIntMod \in Nat /\ ULongMod \in Nat
  BY DEF NumberAssumption
<1>1. \A c \in Digit : digit_val[c] \in 0..9
  BY DEF NumberAssumption
<1>2. \A i \in 0..n : after[i] \in Counts
  OBVIOUS
<1>3. DotCounted(s, after[d], d, d, whole)
  <2>1. d - 1 \in 0..n /\ d \in 0..n
    OBVIOUS
  <2>2. after[d - 1] \in Counts /\ after[d] \in Counts
    BY <1>2, <2>1
  <2>3. after[d] = [after[d - 1] EXCEPT !.frac_dig = 1]
    BY DEF CountStep, OnlyDigits
  <2>4. LET t == [after[d - 1] EXCEPT !.frac_dig = 1]
        IN  /\ t.bad = after[d - 1].bad /\ t.int_val = whole
            /\ t.frac_val = after[d - 1].frac_val /\ t.frac_dig = 1
    BY <2>2 DEF Counts, whole
  <2>5. d # d + 1 /\ d # d + 2
    OBVIOUS
  <2> QED
    BY <2>2, <2>3, <2>4, <2>5 DEF DotCounted, OnlyDigits
<1>4. ASSUME d + 1 <= k PROVE DotCounted(s, after[d + 1], d, d + 1, whole)
  <2>1. d + 1 \in 1..n /\ (d + 1) - 1 = d /\ d + 1 \in (d + 1)..k /\ d \in 0..n
    BY <1>4
  <2>2. /\ after[d] \in Counts /\ after[d].bad = "none" /\ after[d].int_val = whole
        /\ after[d].frac_val = 0 /\ after[d].frac_dig = 1 /\ after[d].frac_dig > 0
    BY <1>3 DEF DotCounted
  <2>3. s[d + 1] \in Digit /\ s[d + 1] \in Char
    BY <2>1
  <2>4. after[d + 1] = CountStep(after[d], s[d + 1]) /\ after[d + 1] \in Counts
    BY <1>2, <2>1
  <2>5. /\ after[d + 1].bad = "none" /\ after[d + 1].int_val = whole
        /\ after[d + 1].frac_val = (0 * 1 + digit_val[s[d + 1]]) % ULongMod
        /\ after[d + 1].frac_dig = (1 * 10) % UIntMod
    BY <2>2, <2>3, <2>4, FractionStep
  <2>6. digit_val[s[d + 1]] \in 0..9
    BY <1>1, <2>3
  <2>7. /\ (0 * 1 + digit_val[s[d + 1]]) % ULongMod = digit_val[s[d + 1]]
        /\ (1 * 10) % UIntMod = 10
    <3>1. PICK x \in 0..9 : x = digit_val[s[d + 1]]
      BY <2>6
    <3>2. (0 * 1 + x) % ULongMod = x
      <4>1. 0 * 1 + x = x /\ x \in Nat /\ x < ULongMod
        BY <1>0
      <4> QED
        BY <1>0, <4>1, SmallRemainder
    <3>3. (1 * 10) % UIntMod = 10
      BY <1>0, TensRemain
    <3> QED
      BY <3>1, <3>2, <3>3
  <2>8. d + 1 # d /\ d + 1 # d + 2
    OBVIOUS
  <2> QED
    BY <2>4, <2>5, <2>7, <2>8 DEF DotCounted
<1>5. ASSUME d + 2 <= k PROVE DotCounted(s, after[d + 2], d, d + 2, whole)
  <2>1. /\ d + 1 <= k /\ d + 2 \in 1..n /\ (d + 2) - 1 = d + 1
        /\ d + 1 \in (d + 1)..k /\ d + 2 \in (d + 1)..k /\ d + 1 \in 1..n
    BY <1>5
  <2>2. /\ after[d + 1] \in Counts /\ after[d + 1].bad = "none"
        /\ after[d + 1].int_val = whole
        /\ after[d + 1].frac_val = digit_val[s[d + 1]]
        /\ after[d + 1].frac_dig = 10 /\ after[d + 1].frac_dig > 0
    BY <1>4, <2>1 DEF DotCounted
  <2>3. s[d + 1] \in Digit /\ s[d + 2] \in Digit /\ s[d + 2] \in Char
    BY <2>1
  <2>4. after[d + 2] = CountStep(after[d + 1], s[d + 2]) /\ after[d + 2] \in Counts
    BY <1>2, <2>1
  <2>5. /\ after[d + 2].bad = "none" /\ after[d + 2].int_val = whole
        /\ after[d + 2].frac_val
             = (digit_val[s[d + 1]] * 10 + digit_val[s[d + 2]]) % ULongMod
        /\ after[d + 2].frac_dig = (10 * 10) % UIntMod
    <3> DEFINE u == after[d + 1]
    <3>1. u \in Counts /\ u.bad = "none" /\ u.frac_dig > 0
      BY <2>2
    <3>2. LET t == CountStep(u, s[d + 2])
          IN  /\ t.bad = "none" /\ t.int_val = u.int_val
              /\ t.frac_val = (u.frac_val * u.frac_dig + digit_val[s[d + 2]]) % ULongMod
              /\ t.frac_dig = (u.frac_dig * 10) % UIntMod
      <4> HIDE DEF u
      <4> QED
        BY <2>3, <3>1, FractionStep
    <3> QED
      BY <2>2, <2>4, <3>2
  <2>6. digit_val[s[d + 1]] \in 0..9 /\ digit_val[s[d + 2]] \in 0..9
    BY <1>1, <2>3
  <2>7. /\ (digit_val[s[d + 1]] * 10 + digit_val[s[d + 2]]) % ULongMod
             = 10 * digit_val[s[d + 1]] + digit_val[s[d + 2]]
        /\ (10 * 10) % UIntMod = 100
    <3>1. PICK x \in 0..9, y \in 0..9 : x = digit_val[s[d + 1]] /\ y = digit_val[s[d + 2]]
      BY <2>6
    <3>2. (x * 10 + y) % ULongMod = 10 * x + y
      <4>1. PICK v : v = x * 10 + y
        OBVIOUS
      <4>2. v \in Nat /\ v < ULongMod /\ v = 10 * x + y
        BY <1>0, <4>1
      <4>3. v % ULongMod = v
        BY <1>0, <4>2, SmallRemainder
      <4> QED
        BY <4>1, <4>2, <4>3
    <3>3. (10 * 10) % UIntMod = 100
      BY <1>0, TensRemain
    <3> QED
      BY <3>1, <3>2, <3>3
  <2>8. d + 2 # d /\ d + 2 # d + 1
    OBVIOUS
  <2> QED
    BY <2>4, <2>5, <2>7, <2>8 DEF DotCounted
<1>6. k = d \/ (k = d + 1 /\ d + 1 <= k) \/ (k = d + 2 /\ d + 2 <= k)
  OBVIOUS
<1> QED
  BY <1>3, <1>4, <1>5, <1>6 DEF whole

(* What WakGrammar says of a fraction that has been counted. *)
LEMMA DotMeans ==
  ASSUME NEW s \in Seq(Char), NEW n \in Nat, n = Len(s), NEW d \in 1..n, n <= d + 2,
         NEW t, NEW whole, whole = Grammar!LastDigit(SubSeq(s, 1, d - 1)),
         DotCounted(s, t, d, n, whole)
  PROVE  Value("CONST_F32", <<t.int_val, t.frac_val, t.frac_dig>>) = FloatValue(s, d)
<1> DEFINE z == SubSeq(s, d + 1, n)
<1>1. Len(z) = n - d /\ \A i \in 1..(n - d) : z[i] = s[d + i]
  <2>1. /\ \A i \in 1..n : s[i] \in Char
        /\ n = Len(s)
    OBVIOUS
  <2>2. /\ Len(z) = IF d + 1 <= n THEN n - (d + 1) + 1 ELSE 0
        /\ \A i \in 1..(n - (d + 1) + 1) : z[i] = s[(d + 1) + i - 1]
    BY <2>1, SubSeqProperties
  <2>3. n - (d + 1) + 1 = n - d /\ \A i \in Int : (d + 1) + i - 1 = d + i
    OBVIOUS
  <2>4. (d + 1 <= n <=> n - d >= 1) /\ (~(d + 1 <= n) => n - d = 0)
    OBVIOUS
  <2> HIDE DEF z
  <2>5. Len(z) = n - d
    BY <2>2, <2>3, <2>4
  <2>6. ASSUME NEW i \in 1..(n - d) PROVE z[i] = s[d + i]
    <3>1. i \in 1..(n - (d + 1) + 1)
      BY <2>3
    <3>2. z[i] = s[(d + 1) + i - 1]
      BY <2>2, <3>1
    <3>3. (d + 1) + i - 1 = d + i
      OBVIOUS
    <3> QED
      BY <3>2, <3>3
  <2> QED
    BY <2>5, <2>6
<1>2. <<t.frac_val, t.frac_dig>> = Grammar!Fraction(z)
  <2> HIDE DEF z
  <2>1. CASE n = d
    <3>1. Len(z) = 0 /\ Grammar!Fraction(z) = <<0, 1>>
      BY <1>1, <2>1 DEF Grammar!Fraction
    <3> QED
      BY <2>1, <3>1 DEF DotCounted
  <2>2. CASE n = d + 1
    <3>1. Len(z) = 1 /\ z[1] = s[d + 1]
      BY <1>1, <2>2
    <3>2. Grammar!Fraction(z) = <<digit_val[s[d + 1]], 10>>
      BY <3>1 DEF Grammar!Fraction
    <3> QED
      BY <2>2, <3>2 DEF DotCounted
  <2>3. CASE n = d + 2
    <3>1. Len(z) = 2 /\ z[1] = s[d + 1] /\ z[2] = s[d + 2]
      BY <1>1, <2>3
    <3>2. Grammar!Fraction(z) = <<10 * digit_val[s[d + 1]] + digit_val[s[d + 2]], 100>>
      BY <3>1 DEF Grammar!Fraction
    <3> QED
      BY <2>3, <3>2 DEF DotCounted
  <2>4. n = d \/ n = d + 1 \/ n = d + 2
    OBVIOUS
  <2> QED
    BY <2>1, <2>2, <2>3, <2>4
<1>3. <<whole, t.frac_val, t.frac_dig>> = <<whole>> \o <<t.frac_val, t.frac_dig>>
  OBVIOUS
<1>4. t.int_val = whole
  BY DEF DotCounted
<1>5. ~Grammar!Wraps(z)
  <2> HIDE DEF z
  <2> QED
    BY <1>1 DEF Grammar!Wraps
<1>6. FloatValue(s, d) = Value("CONST_F32", <<whole>> \o Grammar!Fraction(z))
  BY <1>5, SameWords DEF FloatValue, Grammar!DottedValue
<1> QED
  BY <1>2, <1>3, <1>4, <1>6

(* The digit in front of a dot, if there is one. *)
LEMMA LastDigitBefore ==
  ASSUME NEW s \in Seq(Char), NEW d \in 1..Len(s)
  PROVE  Grammar!LastDigit(SubSeq(s, 1, d - 1))
           = IF d - 1 = 0 THEN 0 ELSE digit_val[s[d - 1]]
<1> DEFINE a == SubSeq(s, 1, d - 1)
<1>1. a \in Seq(Char) /\ Len(a) = d - 1 /\ \A i \in 1..(d - 1) : a[i] = s[i]
  <2>1. \A i \in 1..Len(s) : s[i] \in Char
    OBVIOUS
  <2>2. /\ a \in Seq(Char)
        /\ Len(a) = IF 1 <= d - 1 THEN (d - 1) - 1 + 1 ELSE 0
        /\ \A i \in 1..((d - 1) - 1 + 1) : a[i] = s[1 + i - 1]
    BY <2>1, SubSeqProperties
  <2>3. (d - 1) - 1 + 1 = d - 1 /\ \A i \in Int : 1 + i - 1 = i
    OBVIOUS
  <2> HIDE DEF a
  <2> QED
    BY <2>2, <2>3
<1> HIDE DEF a
<1>2. CASE d - 1 = 0
  <2>1. a = << >>
    BY <1>1, <1>2
  <2> QED
    BY <1>2, <2>1 DEF Grammar!LastDigit, a
<1>3. CASE d - 1 # 0
  <2>1. a # << >> /\ d - 1 \in 1..(d - 1)
    BY <1>1, <1>3
  <2>2. a[Len(a)] = s[d - 1]
    BY <1>1, <2>1
  <2> QED
    BY <1>3, <2>1, <2>2 DEF Grammar!LastDigit, a
<1> QED
  BY <1>2, <1>3

(* The counters of a literal hold a value WakGrammar gives it, or are bad  *)
(* and it gives none.                                                      *)
LEMMA LiteralMeans ==
  ASSUME NumberAssumption, CharAssumption, UIntMod > 100, ULongMod > 100,
         NEW s \in Seq(Char), ShortFraction(s), NEW c, c = Counters(s, 0)
  PROVE  /\ c.bad # "none" => Grammar!LiteralValues(s) = {}
         /\ c.bad = "none" /\ c.frac_dig = 0 =>
              Value("CONST_I32", <<c.int_val>>) \in Grammar!LiteralValues(s)
         /\ c.bad = "none" /\ c.frac_dig # 0 =>
              Value("CONST_F32", <<c.int_val, c.frac_val, c.frac_dig>>)
                \in Grammar!LiteralValues(s)
<1> DEFINE n == Len(s)
<1>1. /\ n \in Nat /\ DOMAIN s = 1..n /\ n = Len(s) /\ 0 \in Nat
      /\ \A i \in 1..n : s[i] \in Char
  OBVIOUS
<1>2. PICK after \in [0..n -> Counts] :
        /\ after[0] = CountStart(0)
        /\ \A i \in 1..n : after[i] = CountStep(after[i - 1], s[i])
        /\ c = after[n]
  BY <1>1, CountersAfter
<1> HIDE DEF n
<1>3. CASE \A i \in 1..n : s[i] \in Digit
  <2>1. n \in 0..n
    BY <1>1
  <2>2. /\ OnlyDigits(after[n])
        /\ after[n].int_val = IF n = 0 THEN 0 ELSE digit_val[s[n]]
    <3>1. WholeCounted(s, after[n], n)
      BY <1>1, <1>2, <1>3, <2>1, WholeCounts
    <3> QED
      BY <3>1 DEF WholeCounted
  <2>3. c.int_val = Grammar!LastDigit(s)
    BY <1>1, <1>2, <2>2 DEF Grammar!LastDigit
  <2>4. Grammar!LiteralValues(s) = {Value("CONST_I32", <<Grammar!LastDigit(s)>>)}
    BY <1>1, <1>3, WholeValues
  <2> QED
    BY <1>2, <2>2, <2>3, <2>4 DEF OnlyDigits
<1>4. CASE ~\A i \in 1..n : s[i] \in Digit
  <2> DEFINE T == {i \in 1..n : s[i] \notin Digit}
  <2>1. PICK d \in T : \A i \in T : d <= i
    <3>1. T \subseteq Nat /\ T # {}
      BY <1>4
    <3> HIDE DEF T
    <3> QED
      BY <3>1, LeastElement
  <2>2. d \in 1..n /\ s[d] \notin Digit /\ \A i \in 1..(d - 1) : s[i] \in Digit
    <3>1. \A i \in 1..(d - 1) : i \in 1..n /\ ~(d <= i)
      BY <1>1
    <3> QED
      BY <2>1, <3>1
  <2>3. d - 1 \in 0..n /\ d \in 0..n /\ n \in 0..n
    BY <1>1, <2>2
  <2>4. /\ OnlyDigits(after[d - 1]) /\ after[d - 1].frac_val = 0
        /\ after[d - 1].int_val = IF d - 1 = 0 THEN 0 ELSE digit_val[s[d - 1]]
    <3>1. WholeCounted(s, after[d - 1], d - 1)
      BY <1>1, <1>2, <2>2, <2>3, WholeCounts
    <3> QED
      BY <3>1 DEF WholeCounted
  <2>5. ASSUME NEW m \in 1..n, after[m].bad # "none" PROVE c.bad # "none"
    <3>1. m \in 0..n
      BY <1>1
    <3> QED
      BY <1>1, <1>2, <2>5, <3>1, BadStaysBad
  <2> HIDE DEF T
  <2>6. CASE s[d] # DOT
    <3>1. after[d].bad # "none"
      <4>1. after[d] = CountStep(after[d - 1], s[d]) /\ after[d - 1] \in Counts
        BY <1>2, <2>2, <2>3
      <4>2. after[d] = [after[d - 1] EXCEPT !.bad = "invalid character"]
        BY <2>2, <2>4, <2>6, <4>1 DEF CountStep, OnlyDigits
      <4> QED
        BY <4>1, <4>2 DEF Counts
    <3>2. Grammar!LiteralValues(s) = {}
      BY <1>1, <2>2, <2>6, NoLiteral
    <3> QED
      BY <2>2, <2>5, <3>1, <3>2
  <2>7. CASE s[d] = DOT /\ \E i \in (d + 1)..n : s[i] \notin Digit
    <3> DEFINE U == {i \in (d + 1)..n : s[i] \notin Digit}
    <3>1. PICK m \in U : \A i \in U : m <= i
      <4>1. U \subseteq Nat /\ U # {}
        BY <2>2, <2>7
      <4> HIDE DEF U
      <4> QED
        BY <4>1, LeastElement
    <3>2. m \in (d + 1)..n /\ s[m] \notin Digit /\ \A i \in (d + 1)..(m - 1) : s[i] \in Digit
      <4>1. \A i \in (d + 1)..(m - 1) : i \in (d + 1)..n /\ ~(m <= i)
        BY <1>1, <2>2
      <4> QED
        BY <3>1, <4>1
    <3>3. m \in 1..n /\ m # d /\ m - 1 \in d..n /\ m - 1 \in 1..n /\ m - 1 \in 0..n
      BY <1>1, <2>2, <3>2
    <3>4. m - 1 <= d + 2
      BY <1>1, <2>2, <2>7, <3>2, <3>3 DEF ShortFraction
    <3>5. DotCounted(s, after[m - 1], d, m - 1, after[d - 1].int_val)
      BY <1>1, <1>2, <2>2, <2>4, <2>7, <3>2, <3>3, <3>4, DotCounts
    <3>6. after[m - 1] \in Counts /\ after[m - 1].bad = "none" /\ after[m - 1].frac_dig > 0
      <4>1. m - 1 = d \/ m - 1 = d + 1 \/ m - 1 = d + 2
        BY <2>2, <3>3, <3>4
      <4> QED
        BY <3>5, <4>1 DEF DotCounted
    <3>7. after[m].bad # "none"
      <4>1. after[m] = CountStep(after[m - 1], s[m]) /\ s[m] \in Char
        BY <1>1, <1>2, <3>3
      <4> QED
        BY <3>2, <3>6, <4>1, FractionStep
    <3>8. Grammar!LiteralValues(s) = {}
      BY <1>1, <2>2, <3>2, <3>3, NoLiteral
    <3> QED
      BY <2>5, <3>3, <3>7, <3>8
  <2>8. CASE s[d] = DOT /\ \A i \in (d + 1)..n : s[i] \in Digit
    <3>1. n \in 1..n /\ n \in d..n
      BY <1>1, <2>2
    <3>2. n <= d + 2
      BY <1>1, <2>2, <2>8, <3>1 DEF ShortFraction
    <3>3. DotCounted(s, c, d, n, after[d - 1].int_val)
      BY <1>1, <1>2, <2>2, <2>4, <2>8, <3>1, <3>2, DotCounts
    <3>4. after[d - 1].int_val = Grammar!LastDigit(SubSeq(s, 1, d - 1))
      BY <1>1, <2>2, <2>4, LastDigitBefore
    <3>5. Value("CONST_F32", <<c.int_val, c.frac_val, c.frac_dig>>) = FloatValue(s, d)
      BY <1>1, <2>2, <3>2, <3>3, <3>4, DotMeans
    <3>6. OneDot(s, d)
      <4>1. \A i \in 1..n : i # d => i \in 1..(d - 1) \/ i \in (d + 1)..n
        BY <1>1, <2>2
      <4> QED
        BY <1>1, <2>2, <2>8, <4>1 DEF OneDot
    <3>7. Value("CONST_F32", <<c.int_val, c.frac_val, c.frac_dig>>) \in Grammar!LiteralValues(s)
      BY <1>1, <1>4, <2>2, <3>5, <3>6, FloatValues
    <3>8. c.bad = "none" /\ c.frac_dig # 0
      <4>1. n = d \/ n = d + 1 \/ n = d + 2
        BY <2>2, <3>1, <3>2
      <4> QED
        BY <3>3, <4>1 DEF DotCounted
    <3> QED
      BY <3>7, <3>8
  <2> QED
    BY <2>6, <2>7, <2>8
<1> QED
  BY <1>3, <1>4

-----------------------------------------------------------------------------
(* Expressions: what parser_expr returns is what WakGrammar says.          *)

ExprMeans(e, i, sts) ==
  \/ /\ e.code # "NONE"
     /\ ~Grammar!NoValue(i, sts) /\ Grammar!ValuesOf(i, sts, FALSE) = {}
  \/ /\ e.code = "NONE" /\ e.value = NullValue /\ e.at = i
     /\ Grammar!NoValue(i, sts)
  \/ /\ e.code = "NONE" /\ e.value # NullValue /\ e.at = i + 1
     /\ e.value \in Grammar!ValuesOf(i, sts, TRUE)
     /\ Is(i + 1, ";") \/ ~Grammar!NoValue(i, sts)

(* A number. *)
LEMMA NumberMeans ==
  ASSUME NumberAssumption, CharAssumption, UIntMod > 100, ULongMod > 100,
         NEW i, tokens[i] \in Token, tokens[i].type = "LITERAL_NUM",
         ShortFraction(tokens[i].text), NEW sts
  PROVE  ExprMeans(parser_expr_literal_num(i), i, sts)
<1> DEFINE s == tokens[i].text
<1> DEFINE c == Counters(s, 0)
<1>1. s \in Seq(Char)
  BY DEF Token
<1>2. /\ c.bad # "none" => Grammar!LiteralValues(s) = {}
      /\ c.bad = "none" /\ c.frac_dig = 0 =>
           Value("CONST_I32", <<c.int_val>>) \in Grammar!LiteralValues(s)
      /\ c.bad = "none" /\ c.frac_dig # 0 =>
           Value("CONST_F32", <<c.int_val, c.frac_val, c.frac_dig>>)
             \in Grammar!LiteralValues(s)
  <2> HIDE DEF s
  <2>1. PICK k : k = c
    OBVIOUS
  <2>2. ShortFraction(s)
    BY DEF s
  <2> QED
    BY <1>1, <2>1, <2>2, LiteralMeans
<1>3. /\ Grammar!Values(i, sts) = Grammar!LiteralValues(s)
      /\ ~Grammar!NoValue(i, sts)
      /\ Grammar!ValuesOf(i, sts, FALSE) = Grammar!LiteralValues(s)
      /\ Grammar!LiteralValues(s) \subseteq Grammar!ValuesOf(i, sts, TRUE)
  BY DEF Grammar!Values, Grammar!NoValue, Grammar!ValuesOf, Grammar!Variable,
         Grammar!Identifier, s
<1>4. ASSUME NEW v, v \in {"x", "b"}, Len(s) > 1, s[1] \in Digit, s[2] = v
      PROVE  Grammar!LiteralValues(s) = {}
  <2>1. v \notin Digit /\ v # DOT
    BY <1>4, CharAssumption DEF Special
  <2>2. 2 \in DOMAIN s
    BY <1>1, <1>4
  <2> HIDE DEF s
  <2> QED
    BY <1>1, <1>4, <2>1, <2>2, NoLiteral
<1>5. \A code, msg, at : LET e == ResultError(code, msg, at)
                         IN  e.code = code
  BY DEF ResultError
<1>6. \A type, u, at : LET e == Result(Value(type, u), at)
                       IN  /\ e.code = "NONE" /\ e.at = at /\ e.value = Value(type, u)
                           /\ type # "NULL" => e.value # NullValue
  BY DEF Result, Value, NullValue
<1> HIDE DEF c, s
<1>7. ASSUME NEW e, e.code # "NONE", Grammar!LiteralValues(s) = {}
       PROVE  ExprMeans(e, i, sts)
  BY <1>3, <1>7 DEF ExprMeans
<1>8. ASSUME NEW e, e.code = "NONE", e.value # NullValue, e.at = i + 1,
              e.value \in Grammar!LiteralValues(s)
       PROVE  ExprMeans(e, i, sts)
  BY <1>3, <1>8 DEF ExprMeans
<1>9. ExprMeans(parser_expr_literal_decimal(i), i, sts)
  <2>1. CASE c.bad # "none"
    <3>1. parser_expr_literal_decimal(i) = ResultError("INVALID_SYNTAX", c.bad, i + 1)
      BY <2>1 DEF parser_expr_literal_decimal, c, s
    <3> QED
      BY <1>2, <1>5, <1>7, <2>1, <3>1
  <2>2. CASE c.bad = "none" /\ c.frac_dig = 0
    <3>1. parser_expr_literal_decimal(i) = Result(Value("CONST_I32", <<c.int_val>>), i + 1)
      BY <2>2 DEF parser_expr_literal_decimal, c, s
    <3>2. "CONST_I32" # "NULL"
      OBVIOUS
    <3> QED
      BY <1>2, <1>6, <1>8, <2>2, <3>1, <3>2
  <2>3. CASE c.bad = "none" /\ c.frac_dig # 0
    <3>1. parser_expr_literal_decimal(i)
            = Result(Value("CONST_F32", <<c.int_val, c.frac_val, c.frac_dig>>), i + 1)
      BY <2>3 DEF parser_expr_literal_decimal, c, s
    <3>2. "CONST_F32" # "NULL"
      OBVIOUS
    <3> QED
      BY <1>2, <1>6, <1>8, <2>3, <3>1, <3>2
  <2> QED
    BY <2>1, <2>2, <2>3
<1>10. ASSUME NEW v, v \in {"x", "b"}, Len(s) > 1, s[1] \in Digit, s[2] = v,
             NEW msg, parser_expr_literal_num(i) = ResultError("UNIMPLEMENTED", msg, i)
      PROVE  ExprMeans(parser_expr_literal_num(i), i, sts)
  BY <1>4, <1>5, <1>10, <1>7
<1>11. \/ /\ Len(s) > 1 /\ s[1] \in Digit /\ s[2] \in {"x", "b"}
         /\ \E msg : parser_expr_literal_num(i) = ResultError("UNIMPLEMENTED", msg, i)
      \/ parser_expr_literal_num(i) = parser_expr_literal_decimal(i)
  BY DEF parser_expr_literal_num, s
<1> QED
  BY <1>9, <1>10, <1>11

(* A variable: its nearest declaration, or what lies behind the last one.  *)
LEMMA VariableMeans ==
  ASSUME NEW i \in Nat, Grammar!Variable(i),
         NEW sts \in Seq(Statement), NEW leftover \in Leftovers
  PROVE  ExprMeans(parser_expr_var(i, sts, leftover), i, sts)
<1> DEFINE slots == Append(sts, leftover)
<1> DEFINE name == tokens[i].text
<1> DEFINE len == Len(sts)
<1> DEFINE found == {j \in 1..len : /\ slots[j + 1].type = "DECLARE"
                                    /\ slots[j + 1].name = name}
<1> DEFINE decls == Grammar!Declared(name, sts)
<1>0. len \in Nat
  OBVIOUS
<1>1. /\ slots[len + 1] = leftover
      /\ \A p \in 1..len : slots[p] = sts[p]
  OBVIOUS
<1>2. IsIdentifier(i) /\ Is(i + 1, ";")
  BY DEF Grammar!Variable, Grammar!Identifier, Grammar!Tok, IsIdentifier, Is
<1>3. decls = {p \in 2..len : sts[p].type = "DECLARE" /\ sts[p].name = name}
  BY DEF Grammar!Declared
<1>4. tokens[i].type = "IDENTIFIER" /\ ~IsToken(i)
  BY <1>2 DEF IsIdentifier, IsToken
<1>5. /\ decls = {} => Grammar!NoValue(i, sts)
      /\ decls # {} => InstrRef(Grammar!Last(decls) - 1) \in Grammar!ValuesOf(i, sts, TRUE)
      /\ leftover.type = "DECLARE" /\ leftover.name = name =>
           InstrRef(len) \in Grammar!ValuesOf(i, sts, TRUE)
  <2>1. decls = {} => Grammar!NoValue(i, sts)
    BY <1>2 DEF Grammar!NoValue
  <2> HIDE DEF slots, found
  <2>2. decls # {} => Grammar!Values(i, sts) = {InstrRef(Grammar!Last(decls) - 1)}
    BY <1>2, <1>4, SameWords DEF Grammar!Values
  <2>3. leftover.type = "DECLARE" /\ leftover.name = name =>
          InstrRef(len) \in Grammar!StrayValues(i, sts)
    BY <1>2, SameWords DEF Grammar!StrayValues
  <2>4. Grammar!ValuesOf(i, sts, TRUE) = Grammar!Values(i, sts) \cup Grammar!StrayValues(i, sts)
    BY DEF Grammar!ValuesOf
  <2> QED
    BY <2>1, <2>2, <2>3, <2>4
<1> HIDE DEF slots, len
<1>6. CASE found = {}
  <2>1. parser_expr_var(i, sts, leftover) = Result(NullValue, i)
    BY <1>6 DEF parser_expr_var, slots, len
  <2>2. decls = {}
    <3> SUFFICES ASSUME NEW p \in decls PROVE FALSE
      OBVIOUS
    <3>1. p \in 2..len /\ sts[p].type = "DECLARE" /\ sts[p].name = name
      BY <1>3
    <3>2. p - 1 \in 1..len /\ (p - 1) + 1 = p /\ p \in 1..len
      BY <1>0, <3>1
    <3>3. slots[p] = sts[p]
      BY <1>1, <3>2
    <3> QED
      BY <1>6, <3>1, <3>2, <3>3
  <2> QED
    <3>1. LET e == Result(NullValue, i)
          IN  e.code = "NONE" /\ e.value = NullValue /\ e.at = i
      BY DEF Result
    <3> QED
      BY <1>5, <2>1, <2>2, <3>1 DEF ExprMeans
<1>7. CASE found # {}
  <2>1. found \subseteq 0..len
    BY <1>0
  <2>2. \E x \in found : \A y \in found : y <= x
    BY <1>0, <1>7, <2>1, GreatestElement
  <2>3. PICK n : n = Nearest(found)
    OBVIOUS
  <2>4. n \in found /\ \A y \in found : y <= n
    BY <2>2, <2>3 DEF Nearest
  <2>5. parser_expr_var(i, sts, leftover) = Result(InstrRef(n), i + 1)
    BY <1>7, <2>3 DEF parser_expr_var, slots, len
  <2>6. InstrRef(n) \in Grammar!ValuesOf(i, sts, TRUE)
    <3>1. n \in 1..len /\ slots[n + 1].type = "DECLARE" /\ slots[n + 1].name = name
      BY <2>4
    <3>2. CASE n = len
      BY <1>1, <1>5, <3>1, <3>2
    <3>3. CASE n # len
      <4>1. n + 1 \in 2..len /\ n + 1 \in 1..len
        BY <1>0, <3>1, <3>3
      <4>2. n + 1 \in decls
        BY <1>1, <1>3, <3>1, <4>1
      <4>3. ASSUME NEW p \in decls PROVE p <= n + 1
        <5>1. p \in 2..len /\ sts[p].type = "DECLARE" /\ sts[p].name = name
          BY <1>3
        <5>2. p - 1 \in 1..len /\ (p - 1) + 1 = p /\ p \in 1..len
          BY <1>0, <5>1
        <5>3. slots[p] = sts[p]
          BY <1>1, <5>2
        <5>4. p - 1 \in found
          BY <5>1, <5>2, <5>3
        <5>5. p - 1 <= n
          BY <2>4, <5>4
        <5> QED
          BY <1>0, <3>1, <5>1, <5>5
      <4>4. PICK l : l = Grammar!Last(decls)
        OBVIOUS
      <4>5. l \in decls /\ \A p \in decls : p <= l
        BY <4>2, <4>3, <4>4 DEF Grammar!Last
      <4>6. l = n + 1
        <5>1. l <= n + 1 /\ n + 1 <= l /\ l \in 2..len
          BY <1>3, <4>2, <4>3, <4>5
        <5> QED
          BY <1>0, <3>1, <5>1
      <4>7. l - 1 = n
        BY <1>0, <3>1, <4>6
      <4> QED
        BY <1>5, <4>2, <4>4, <4>7
    <3> QED
      BY <3>2, <3>3
  <2>7. InstrRef(n) # NullValue
    BY DEF InstrRef, Value, NullValue
  <2> QED
    <3>1. LET e == Result(InstrRef(n), i + 1)
          IN  e.code = "NONE" /\ e.value = InstrRef(n) /\ e.at = i + 1
      BY DEF Result
    <3> QED
      BY <1>2, <2>5, <2>6, <2>7, <3>1 DEF ExprMeans
<1> QED
  BY <1>6, <1>7

(* Any expression. *)
LEMMA ExpressionMeans ==
  ASSUME NumberAssumption, CharAssumption, UIntMod > 100, ULongMod > 100,
         NEW i \in Nat, tokens[i] \in Token,
         tokens[i].type = "LITERAL_NUM" => ShortFraction(tokens[i].text),
         IsIdentifier(i) => /\ Grammar!Identifier(i)
                            /\ \A v : Is(i + 1, v) => Grammar!Tok(i + 1, v),
         NEW sts \in Seq(Statement), NEW leftover \in Leftovers
  PROVE  ExprMeans(parser_expr(i, sts, leftover), i, sts)
<1> DEFINE e == parser_expr(i, sts, leftover)
<1> SUFFICES ExprMeans(e, i, sts)
  OBVIOUS
<1>1. ASSUME NEW code, code # "NONE", NEW msg,
             ~Grammar!NoValue(i, sts), Grammar!ValuesOf(i, sts, FALSE) = {}
      PROVE  ExprMeans(ResultError(code, msg, i), i, sts)
  BY <1>1 DEF ExprMeans, ResultError
<1>2. ASSUME Grammar!NoValue(i, sts)
      PROVE  ExprMeans(Result(NullValue, i), i, sts)
  BY <1>2 DEF ExprMeans, Result
<1>3. ASSUME tokens[i].type # "LITERAL_NUM", ~Grammar!Variable(i)
      PROVE  Grammar!ValuesOf(i, sts, FALSE) = {}
  BY <1>3 DEF Grammar!ValuesOf, Grammar!Values
<1>4. CASE tokens[i].type = "LITERAL_NUM"
  <2>1. e = parser_expr_literal_num(i)
    BY <1>4 DEF parser_expr, IsIdentifier
  <2> QED
    BY <1>4, <2>1, NumberMeans
<1>5. CASE tokens[i].type \in {"LITERAL_STR", "LITERAL_CHAR", "LITERAL_BOOL"}
  <2>1. e = ResultError("UNIMPLEMENTED", "literal type", i)
    BY <1>5 DEF parser_expr, IsIdentifier
  <2>2. ~Grammar!Variable(i) /\ ~Grammar!NoValue(i, sts) /\ tokens[i].type # "LITERAL_NUM"
    BY <1>5 DEF Grammar!Variable, Grammar!NoValue, Grammar!Identifier
  <2>3. "UNIMPLEMENTED" # "NONE"
    OBVIOUS
  <2> HIDE DEF e
  <2> QED
    BY <1>1, <1>3, <2>1, <2>2, <2>3
<1>6. CASE IsIdentifier(i)
  <2>1. e = parser_expr_iden(i, sts, leftover)
    BY <1>6 DEF parser_expr, IsIdentifier
  <2>2. CASE Is(i + 1, "(")
    <3>1. Grammar!NoValue(i, sts)
      BY <1>6, <2>2 DEF Grammar!NoValue
    <3> QED
      BY <1>2, <2>1, <2>2, <3>1 DEF parser_expr_iden
  <2>3. CASE ~Is(i + 1, "(") /\ Is(i + 1, ";")
    <3>1. Grammar!Variable(i)
      BY <1>6, <2>3 DEF Grammar!Variable
    <3>2. e = parser_expr_var(i, sts, leftover)
      BY <2>1, <2>3 DEF parser_expr_iden
    <3> HIDE DEF e
    <3> QED
      BY <3>1, <3>2, VariableMeans
  <2>4. CASE ~Is(i + 1, "(") /\ ~Is(i + 1, ";")
    <3>1. e = ResultError("UNIMPLEMENTED", "identifier expression", i)
      BY <2>1, <2>4 DEF parser_expr_iden
    <3>2. ~Grammar!Variable(i) /\ ~Grammar!NoValue(i, sts) /\ tokens[i].type # "LITERAL_NUM"
      BY <1>6, <2>4 DEF Grammar!Variable, Grammar!NoValue, Grammar!Tok, Is, IsIdentifier
    <3>3. "UNIMPLEMENTED" # "NONE"
      OBVIOUS
    <3> HIDE DEF e
    <3> QED
      BY <1>1, <1>3, <3>1, <3>2, <3>3
  <2> QED
    BY <2>2, <2>3, <2>4
<1>7. CASE tokens[i].type = "TOKEN"
  <2>1. e = Result(NullValue, i)
    BY <1>7 DEF parser_expr, IsIdentifier
  <2>2. Grammar!NoValue(i, sts)
    BY <1>7 DEF Grammar!NoValue
  <2> HIDE DEF e
  <2> QED
    BY <1>2, <2>1, <2>2
<1>8. tokens[i].type \in TokenTypes
  BY DEF Token
<1> QED
  BY <1>4, <1>5, <1>6, <1>7, <1>8 DEF TokenTypes, IsIdentifier

-----------------------------------------------------------------------------
(* Phrases, by the token they begin with.                                  *)

(* A line break is a phrase. *)
LEMMA BreakMeans ==
  ASSUME NEW b \in Nat, NEW e, Grammar!Tok(b, TOKEN_BREAK), NEW stray
  PROVE  Grammar!Meanings(b, e, stray) = IF e = b + 1 THEN {<< >>} ELSE {}
<1>1. /\ ~Grammar!Tok(b, "}") /\ ~Grammar!Tok(b, "KEYWORD_RETURN")
      /\ ~Grammar!Tok(b, "KEYWORD_FUNC") /\ ~Grammar!Identifier(b)
  BY DEF Grammar!Tok, Grammar!Identifier, TOKEN_BREAK, LF
<1>2. ~Grammar!Function(b, e) /\ ~Grammar!Declaration(b)
  BY <1>1 DEF Grammar!Function, Grammar!Declaration
<1> QED
  BY <1>1, <1>2, SameWords DEF Grammar!Meanings

(* A '}' is one, if it is not the first statement. *)
LEMMA EndMeans ==
  ASSUME pc = "parse", NEW b \in Nat, NEW e, Grammar!Tok(b, "}"), NEW stray
  PROVE  Grammar!Meanings(b, e, stray)
           = IF e = b + 1 /\ statements # << >> THEN {<<BlockEnd>>} ELSE {}
<1>1. /\ ~Grammar!Tok(b, TOKEN_BREAK) /\ ~Grammar!Tok(b, "KEYWORD_RETURN")
      /\ ~Grammar!Tok(b, "KEYWORD_FUNC") /\ ~Grammar!Identifier(b)
  BY DEF Grammar!Tok, Grammar!Identifier, TOKEN_BREAK, LF
<1>2. ~Grammar!Function(b, e) /\ ~Grammar!Declaration(b)
  BY <1>1 DEF Grammar!Function, Grammar!Declaration
<1> QED
  BY <1>1, <1>2, SameWords DEF Grammar!Meanings

(* A return is one with its expression and ';', or alone if nothing that   *)
(* could be read follows.                                                  *)
LEMMA ReturnMeans ==
  ASSUME pc = "parse", NEW b \in Nat, NEW e, Grammar!Tok(b, "KEYWORD_RETURN"), NEW stray
  PROVE  Grammar!Meanings(b, e, stray) =
           IF e = b + 1 THEN {x \in {<< >>} : Grammar!NoValue(b + 1, statements)}
           ELSE IF e = b + 3 /\ Grammar!Tok(b + 2, ";")
           THEN {<<Return(v)>> : v \in Grammar!ValuesOf(b + 1, statements, stray)}
           ELSE {}
<1>1. /\ ~Grammar!Tok(b, TOKEN_BREAK) /\ ~Grammar!Tok(b, "}")
      /\ ~Grammar!Tok(b, "KEYWORD_FUNC") /\ ~Grammar!Identifier(b)
  BY DEF Grammar!Tok, Grammar!Identifier, TOKEN_BREAK, LF
<1>2. ~Grammar!Function(b, e) /\ ~Grammar!Declaration(b)
  BY <1>1 DEF Grammar!Function, Grammar!Declaration
<1>3. CASE e = b + 1
  <2>1. ~Grammar!Tok(b, Grammar!TOKEN_BREAK) /\ b + 1 # b + 3
    <3>1. b + 1 # b + 3
      OBVIOUS
    <3> QED
      BY <1>1, <3>1, SameWords
  <2>2. Grammar!Meanings(b, e, stray)
          = {x \in {<< >>} :
               Grammar!NoValue(b + 1, IF pc = "return" THEN << >> ELSE statements)}
    BY <1>1, <1>2, <1>3, <2>1 DEF Grammar!Meanings
  <2> QED
    BY <1>3, <2>2
<1>4. CASE e # b + 1 /\ e = b + 3 /\ Grammar!Tok(b + 2, ";")
  <2>1. Grammar!Meanings(b, e, stray)
          = {<<Grammar!Return(v)>> : v \in Grammar!ValuesOf(b + 1, statements, stray)}
    BY <1>1, <1>2, <1>4 DEF Grammar!Meanings
  <2> QED
    BY <1>4, <2>1, SameWords
<1>5. CASE e # b + 1 /\ ~(e = b + 3 /\ Grammar!Tok(b + 2, ";"))
  BY <1>1, <1>2, <1>5 DEF Grammar!Meanings
<1> QED
  BY <1>3, <1>4, <1>5

(* The head of a function is one. *)
LEMMA FunctionMeans ==
  ASSUME NEW b \in Nat, NEW e, Grammar!Tok(b, "KEYWORD_FUNC"), NEW stray
  PROVE  Grammar!Meanings(b, e, stray) =
           IF Grammar!Function(b, e)
           THEN {<<BlockFunction(tokens[b + 1].text,
                     IF e = b + 5 THEN "KEYWORD_VOID" ELSE tokens[b + 4].token)>>}
           ELSE {}
<1>1. /\ ~Grammar!Tok(b, TOKEN_BREAK) /\ ~Grammar!Tok(b, "}")
      /\ ~Grammar!Tok(b, "KEYWORD_RETURN") /\ ~Grammar!Identifier(b)
  BY DEF Grammar!Tok, Grammar!Identifier, TOKEN_BREAK, LF
<1>2. ~Grammar!Declaration(b)
  BY <1>1 DEF Grammar!Declaration
<1> QED
  BY <1>1, <1>2, SameWords DEF Grammar!Meanings

(* So is a declaration: a second ';' behind it, a '=' with an expression   *)
(* and a ';', or a '=' in front of nothing that could be read.             *)
DeclarationMeanings(b, e, stray, decl) ==
  IF ~Grammar!Declaration(b) THEN {}
  ELSE IF e = b + 4 /\ Grammar!Tok(b + 3, "=")
  THEN {x \in {<<decl>>} : Grammar!NoValue(b + 4, Append(statements, decl))}
  ELSE IF e = b + 5 /\ Grammar!Tok(b + 3, ";") /\ Grammar!Tok(b + 4, ";")
  THEN {<<decl>>}
  ELSE IF e = b + 6 /\ Grammar!Tok(b + 3, "=") /\ Grammar!Tok(b + 5, ";")
  THEN {<<decl, Assign(Len(statements), v)>> :
          v \in Grammar!ValuesOf(b + 4, Append(statements, decl), stray)}
  ELSE {}

(* That is all an identifier can begin. *)
LEMMA DeclarationMeans ==
  ASSUME pc = "parse", NEW b \in Nat, NEW e, Grammar!Identifier(b), NEW stray,
         NEW decl, decl = Declare(tokens[b].text, tokens[b + 2].token)
  PROVE  Grammar!Meanings(b, e, stray) = DeclarationMeanings(b, e, stray, decl)
<1>1. /\ ~Grammar!Tok(b, TOKEN_BREAK) /\ ~Grammar!Tok(b, "}")
      /\ ~Grammar!Tok(b, "KEYWORD_RETURN") /\ ~Grammar!Tok(b, "KEYWORD_FUNC")
  BY DEF Grammar!Tok, Grammar!Identifier
<1>2. ~Grammar!Function(b, e)
  BY <1>1 DEF Grammar!Function
<1>3. b + 4 # b + 5 /\ b + 4 # b + 6 /\ b + 5 # b + 6
  OBVIOUS
<1> QED
  BY <1>1, <1>2, <1>3, SameWords DEF Grammar!Meanings, DeclarationMeanings

(* Nothing else is. *)
LEMMA NothingMeans ==
  ASSUME NEW b \in Nat, NEW e, NEW stray, ~Grammar!Identifier(b),
         \A v \in {TOKEN_BREAK, "}", "KEYWORD_RETURN", "KEYWORD_FUNC"} : ~Grammar!Tok(b, v)
  PROVE  Grammar!Meanings(b, e, stray) = {}
<1>1. ~Grammar!Function(b, e) /\ ~Grammar!Declaration(b)
  BY DEF Grammar!Function, Grammar!Declaration
<1> QED
  BY <1>1, SameWords DEF Grammar!Meanings

-----------------------------------------------------------------------------
(* A call of parser_next_statement reads a phrase or gives up.             *)

(* Both modules see the same tokens. *)
LEMMA SameTokens ==
  ASSUME StreamAssumption, tokens \in Streams
  PROVE  /\ \A i \in 1..Len(tokens) :
              /\ \A v : Grammar!Tok(i, v) <=> Is(i, v)
              /\ Grammar!Identifier(i) <=> IsIdentifier(i)
              /\ Grammar!DataType(i) <=> IsDataType(i)
         /\ \A i : /\ \A v : Grammar!Tok(i, v) => Is(i, v)
                   /\ Grammar!Identifier(i) => IsIdentifier(i)
                   /\ Grammar!DataType(i) => IsDataType(i)
<1>1. DOMAIN tokens = 1..Len(tokens)
  BY DEF StreamAssumption
<1> QED
  BY <1>1, SameWords DEF Grammar!Tok, Grammar!Identifier, Grammar!DataType,
     Is, IsIdentifier, IsToken, IsDataType

(* A phrase read. *)
LEMMA ReadStep ==
  ASSUME Parsing, pc' = "parse", NEW sts,
         tok_index' \in (tok_index + 1)..Len(tokens),
         sts \in Grammar!Meanings(tok_index, tok_index', TRUE),
         statements' = statements \o sts
  PROVE  Grammar!Next
<1>1. pc = "parse" /\ tokens' = tokens /\ pc # "return" /\ pc' # "return"
  BY DEF Parsing
<1> DEFINE m == tok_index'
<1>2. /\ m \in (tok_index + 1)..Len(tokens)
      /\ sts \in Grammar!Meanings(tok_index, m, TRUE)
  OBVIOUS
<1>3. tok_index' = m
  OBVIOUS
<1> HIDE DEF m
<1>4. Grammar!Read
  BY <1>1, <1>2, <1>3 DEF Grammar!Read
<1> QED
  BY <1>4 DEF Grammar!Next

(* No phrase fits. *)
LEMMA GiveUpStep ==
  ASSUME Parsing, pc' = "return",
         \A e \in (tok_index + 1)..Len(tokens) : Grammar!Meanings(tok_index, e, FALSE) = {}
  PROVE  Grammar!Next
<1>1. pc = "parse" /\ tokens' = tokens /\ pc # "return"
  BY DEF Parsing
<1>2. Grammar!GiveUp
  BY <1>1 DEF Grammar!GiveUp
<1> QED
  BY <1>2 DEF Grammar!Next

(* The parser goes on: there is a token where it goes. *)
LEMMA ProceedStep ==
  ASSUME StreamAssumption, ParserInv, ParserInv', Parsing,
         NEW more, NEW at \in Nat, tok_index < at,
         Proceed(statements \o more, at),
         at <= Len(tokens) => more \in Grammar!Meanings(tok_index, at, TRUE)
  PROVE  Grammar!Next
<1>1. /\ tokens \in Streams /\ tokens' = tokens /\ Len(tokens) \in Nat
      /\ tok_index \in 1..Len(tokens)
  BY BeforeTheCall, StreamFacts DEF Clear
<1>2. at # tok_index
  BY <1>1
<1>3. /\ statements' = statements \o more /\ tok_index' = at /\ pc' = "parse"
  BY <1>2 DEF Proceed
<1>4. tok_index' \in 1..Len(tokens)
  BY <1>1, <1>3 DEF ParserInv, Clear
<1>5. tok_index' \in (tok_index + 1)..Len(tokens) /\ at <= Len(tokens)
  BY <1>1, <1>3, <1>4
<1>6. more \in Grammar!Meanings(tok_index, tok_index', TRUE)
  <2>1. more \in Grammar!Meanings(tok_index, at, TRUE)
    BY <1>5
  <2> QED
    BY <1>3, <2>1
<1> QED
  BY <1>3, <1>5, <1>6, ReadStep

(* A line break is read. *)
LEMMA SkipBreakFollows ==
  ASSUME StreamAssumption, ParserInv, ParserInv', parser_skip_break
  PROVE  Grammar!Next
<1>1. /\ Parsing /\ Is(tok_index, TOKEN_BREAK)
      /\ Proceed(statements, tok_index + 1)
  BY DEF parser_skip_break, AfterBreak
<1>2. /\ tokens \in Streams /\ Len(tokens) \in Nat /\ tok_index \in 1..Len(tokens)
      /\ statements \in Seq(Statement)
  BY <1>1, BeforeTheCall, StreamFacts DEF Clear, Sound
<1>3. statements = statements \o << >>
  BY <1>2
<1>4. << >> \in Grammar!Meanings(tok_index, tok_index + 1, TRUE)
  <2>1. tok_index \in Nat
    BY <1>2
  <2>2. Grammar!Tok(tok_index, TOKEN_BREAK)
    BY <1>1, <1>2, SameTokens
  <2> QED
    BY <2>1, <2>2, BreakMeans
<1>5. tok_index + 1 \in Nat /\ tok_index < tok_index + 1
  BY <1>2
<1>6. Proceed(statements \o << >>, tok_index + 1)
  BY <1>1, <1>3
<1> QED
  BY <1>1, <1>4, <1>5, <1>6, ProceedStep

(* A '}' is. *)
LEMMA EndBlockFollows ==
  ASSUME StreamAssumption, ParserInv, ParserInv', parser_end_block
  PROVE  Grammar!Next
<1>1. Parsing /\ Is(tok_index, "}") /\ pc = "parse"
  BY DEF parser_end_block, Parsing
<1>2. /\ tokens \in Streams /\ Len(tokens) \in Nat /\ tok_index \in 1..Len(tokens)
      /\ statements \in Seq(Statement)
  BY <1>1, BeforeTheCall, StreamFacts DEF Clear, Sound
<1>3. Grammar!Tok(tok_index, "}") /\ tok_index \in Nat
  <2>1. tok_index \in Nat
    BY <1>2
  <2>2. Grammar!Tok(tok_index, "}")
    BY <1>1, <1>2, SameTokens
  <2> QED
    BY <2>1, <2>2
<1>4. CASE statements # << >> /\ Complete(statements, BlockEnd, tok_index + 1)
  <2>1. statement_is_block(BlockEnd)
    BY DEF statement_is_block, BlockEnd
  <2>2. Proceed(Append(statements, BlockEnd), tok_index + 1)
    BY <1>4, <2>1 DEF Complete
  <2>3. Append(statements, BlockEnd) = statements \o <<BlockEnd>>
    BY <1>2
  <2>4. <<BlockEnd>> \in Grammar!Meanings(tok_index, tok_index + 1, TRUE)
    BY <1>1, <1>3, <1>4, EndMeans
  <2>5. tok_index + 1 \in Nat /\ tok_index < tok_index + 1
    BY <1>2
  <2>6. Proceed(statements \o <<BlockEnd>>, tok_index + 1)
    BY <2>2, <2>3
  <2> QED
    BY <1>1, <2>4, <2>5, <2>6, ProceedStep
<1>5. CASE /\ statements = << >>
           /\ Reject("INVALID_SYNTAX", "unexpected '}'", tok_index)
  <2>1. pc' = "return"
    BY <1>5 DEF Reject, EmitError
  <2>2. \A e : Grammar!Meanings(tok_index, e, FALSE) = {}
    BY <1>1, <1>3, <1>5, EndMeans
  <2> QED
    BY <1>1, <2>1, <2>2, GiveUpStep
<1> QED
  BY <1>4, <1>5 DEF parser_end_block

(* Where no function can be read, the error gives up. *)
LEMMA NoFunctionFollows ==
  ASSUME Parsing, NEW b \in Nat, b = tok_index, Grammar!Tok(b, "KEYWORD_FUNC"),
         NEW code, NEW msg, NEW at, Reject(code, msg, at),
         \A e \in Nat : ~Grammar!Function(b, e), Len(tokens) \in Nat
  PROVE  Grammar!Next
<1>1. pc' = "return"
  BY DEF Reject, EmitError
<1>2. ASSUME NEW e \in (tok_index + 1)..Len(tokens)
      PROVE  Grammar!Meanings(tok_index, e, FALSE) = {}
  <2>1. e \in Nat
    OBVIOUS
  <2>2. Grammar!Meanings(b, e, FALSE) = {}
    BY <2>1, FunctionMeans
  <2> QED
    BY <2>2
<1> QED
  BY <1>1, <1>2, GiveUpStep

(* The numbers from one past i on. *)
LEMMA Beyond ==
  ASSUME NEW len \in Nat, NEW i \in 1..len, NEW x \in 1..len, x >= i, x # i
  PROVE  x \in (i + 1)..len
OBVIOUS

(* The return type and the '{'. *)
LEMMA FunctionBodyFollows ==
  ASSUME StreamAssumption, ParserInv, ParserInv', Parsing,
         NEW b \in Nat, b = tok_index, Grammar!Tok(b, "KEYWORD_FUNC"),
         Grammar!Identifier(b + 1), Grammar!Tok(b + 2, "("), Grammar!Tok(b + 3, ")"),
         NEW i, i = b + 4, Clear(i), FunctionBody(tokens[b + 1].text, i)
  PROVE  Grammar!Next
<1> DEFINE len == Len(tokens)
<1>1. /\ tokens \in Streams /\ len \in Nat /\ i \in 1..len
      /\ statements \in Seq(Statement)
  BY BeforeTheCall, StreamFacts DEF Clear, Sound
<1> HIDE DEF len
<1>0. len \in Nat /\ i \in 1..len
  BY <1>1
<1>2. ASSUME NEW code, NEW msg, NEW at, Reject(code, msg, at),
             \A e \in Nat : ~Grammar!Function(b, e)
      PROVE  Grammar!Next
  BY <1>1, <1>2, NoFunctionFollows DEF len
<1>3. ASSUME NEW e \in Nat, Grammar!Function(b, e)
      PROVE  /\ e - 1 >= i /\ Is(e - 1, "{") /\ e - 1 \in 1..len
             /\ \/ e - 1 = i
                \/ IsDataType(i) /\ \A k \in (i + 1)..(e - 2) : Is(k, TOKEN_BREAK)
  <2>1. /\ e - 1 >= b + 4 /\ Grammar!Tok(e - 1, "{")
        /\ \/ e - 1 = b + 4
           \/ /\ Grammar!DataType(b + 4)
              /\ \A k \in (b + 5)..(e - 2) : Grammar!Tok(k, Grammar!TOKEN_BREAK)
    BY <1>3 DEF Grammar!Function
  <2>2. e - 1 \in 1..len
    <3>1. DOMAIN tokens = 1..len
      BY <1>1 DEF StreamAssumption, len
    <3> QED
      BY <2>1, <3>1 DEF Grammar!Tok
  <2>3. b + 4 = i /\ b + 5 = i + 1
    OBVIOUS
  <2> QED
    BY <1>1, <2>1, <2>2, <2>3, SameTokens, SameWords
<1>4. CASE /\ ~(IsDataType(i) \/ Is(i, "{"))
           /\ \E code, msg, at : Reject(code, msg, at)
  <2>1. \A e \in Nat : ~Grammar!Function(b, e)
    BY <1>3, <1>4
  <2> QED
    BY <1>2, <1>4, <2>1
<1>5. CASE /\ IsDataType(i) \/ Is(i, "{")
           /\ LET x == SkipBreaks(AfterType(i))
              IN  \/ /\ ~Is(x, "{")
                     /\ Reject("INVALID_SYNTAX", "missing '{' after func decl", x)
                  \/ /\ Is(x, "{")
                     /\ Complete(statements,
                                 BlockFunction(tokens[b + 1].text, ReturnType(i)), x + 1)
  <2> DEFINE j == AfterType(i)
  <2> DEFINE s == BlockFunction(tokens[b + 1].text, ReturnType(i))
  <2>1. PICK x : x = SkipBreaks(j)
    OBVIOUS
  <2>2. \/ ~Is(x, "{") /\ Reject("INVALID_SYNTAX", "missing '{' after func decl", x)
        \/ Is(x, "{") /\ Complete(statements, s, x + 1)
    BY <1>5, <2>1
  <2>3. /\ Is(i, "{") => j = i
        /\ IsDataType(i) => j = i + 1 /\ ~Is(i, "{")
    BY DEF AfterType, IsDataType, DataTypes, Is
  <2>4. Clear(j)
    BY <1>1, <1>5, <2>3, BehindDataType
  <2> HIDE DEF j, s
  <2>5. j \in 1..len
    BY <2>4 DEF Clear, len
  <2>6. /\ x \in j..len /\ BreaksStop(j, x)
        /\ \A y \in j..len : BreaksStop(j, y) => y = x
    BY <1>1, <2>1, <2>4, SkipBreaksStops DEF len
  <2>7. ASSUME NEW e \in Nat, Grammar!Function(b, e) PROVE Is(x, "{")
    <3>1. /\ e - 1 >= i /\ Is(e - 1, "{") /\ e - 1 \in 1..len
          /\ \/ e - 1 = i
             \/ IsDataType(i) /\ \A k \in (i + 1)..(e - 2) : Is(k, TOKEN_BREAK)
      BY <1>3, <2>7
    <3>2. ~Is(e - 1, TOKEN_BREAK)
      BY <3>1 DEF Is, TOKEN_BREAK, LF
    <3>3. CASE e - 1 = i
      <4>1. j = e - 1
        BY <2>3, <3>1, <3>3
      <4>2. j..(j - 1) = {} /\ j \in j..len
        BY <2>5
      <4>3. BreaksStop(j, j)
        BY <3>2, <4>1, <4>2 DEF BreaksStop
      <4> QED
        BY <2>6, <3>1, <4>1, <4>2, <4>3
    <3>4. CASE e - 1 # i
      <4>1. IsDataType(i) /\ j = i + 1
        BY <2>3, <3>1, <3>4
      <4>2. e - 1 \in j..len /\ (e - 1) - 1 = e - 2
        <5>1. e - 1 \in 1..len /\ e - 1 >= i /\ e - 1 # i
          BY <3>1, <3>4
        <5>2. e - 1 \in (i + 1)..len
          BY <1>0, <5>1, Beyond
        <5>3. (e - 1) - 1 = e - 2
          OBVIOUS
        <5> QED
          BY <4>1, <5>2, <5>3
      <4>3. BreaksStop(j, e - 1)
        BY <3>1, <3>2, <3>4, <4>1, <4>2 DEF BreaksStop
      <4>4. e - 1 = x
        BY <2>6, <4>2, <4>3
      <4> QED
        BY <3>1, <4>4
    <3> QED
      BY <3>3, <3>4
  <2>8. CASE ~Is(x, "{") /\ Reject("INVALID_SYNTAX", "missing '{' after func decl", x)
    BY <1>2, <2>7, <2>8
  <2>9. CASE Is(x, "{") /\ Complete(statements, s, x + 1)
    <3>1. /\ x \in Nat /\ x + 1 \in Nat /\ tok_index < x + 1 /\ (x + 1) - 1 = x
          /\ (x + 1) - 2 = x - 1 /\ x >= i
      <4>1. i \in Nat /\ (j = i \/ j = i + 1)
        <5>1. j = i \/ j = i + 1
          BY <1>5, <2>3
        <5> QED
          BY <1>0, <5>1
      <4>2. x \in Nat /\ x >= i
        BY <1>1, <2>5, <2>6, <4>1
      <4> QED
        BY <4>2
    <3>2. Proceed(Append(statements, s), x + 1)
      <4>1. statement_is_block(s)
        BY DEF statement_is_block, s, BlockFunction
      <4> QED
        BY <2>9, <4>1 DEF Complete
    <3>3. Append(statements, s) = statements \o <<s>>
      BY <1>1
    <3>4. Grammar!Function(b, x + 1)
      <4>1. Grammar!Tok(x, "{")
        <5>1. x \in 1..len
          BY <2>5, <2>6
        <5> QED
          BY <1>1, <2>9, <5>1, SameTokens DEF len
      <4>2. CASE Is(i, "{")
        <5>1. j = i /\ BreaksStop(j, j) /\ j \in j..len
          <6>1. j..(j - 1) = {} /\ j \in j..len
            BY <2>5
          <6> QED
            BY <2>3, <4>2, <6>1 DEF BreaksStop, Is, TOKEN_BREAK, LF
        <5>2. x = i
          BY <2>6, <5>1
        <5> QED
          BY <3>1, <4>1, <5>2 DEF Grammar!Function
      <4>3. CASE IsDataType(i)
        <5>1. Grammar!DataType(b + 4) /\ j = b + 5
          <6>1. Grammar!DataType(i)
            BY <1>1, <4>3, SameTokens DEF len
          <6>2. j = i + 1
            BY <2>3, <4>3
          <6>3. i + 1 = b + 5
            OBVIOUS
          <6> QED
            BY <6>1, <6>2, <6>3
        <5>2. ASSUME NEW k \in (b + 5)..(x - 1)
              PROVE  Grammar!Tok(k, Grammar!TOKEN_BREAK)
          <6>1. Is(k, TOKEN_BREAK)
            BY <2>6, <5>1 DEF BreaksStop
          <6>2. k \in 1..len
            BY <1>1, <2>6, <5>1
          <6> QED
            BY <1>1, <6>1, <6>2, SameTokens, SameWords DEF len
        <5> QED
          BY <3>1, <4>1, <5>1, <5>2 DEF Grammar!Function
      <4> QED
        BY <1>5, <4>2, <4>3
    <3>5. s = BlockFunction(tokens[b + 1].text,
                IF x + 1 = b + 5 THEN "KEYWORD_VOID" ELSE tokens[b + 4].token)
      <4>1. CASE Is(i, "{")
        <5>1. j = i /\ BreaksStop(j, j) /\ j \in j..len
          <6>1. j..(j - 1) = {} /\ j \in j..len
            BY <2>5
          <6> QED
            BY <2>3, <4>1, <6>1 DEF BreaksStop, Is, TOKEN_BREAK, LF
        <5>2. x + 1 = b + 5
          BY <2>6, <5>1
        <5> QED
          BY <4>1, <5>2 DEF s, ReturnType
      <4>2. CASE IsDataType(i)
        <5>1. x + 1 # b + 5 /\ ~Is(i, "{")
          <6>1. ~Is(i, "{") /\ j = i + 1
            BY <2>3, <4>2
          <6>2. x \in (i + 1)..len
            BY <2>6, <6>1
          <6>3. \A y \in (i + 1)..len : y + 1 # b + 5
            BY <1>0
          <6> QED
            BY <6>1, <6>2, <6>3
        <5> QED
          BY <5>1 DEF s, ReturnType
      <4> QED
        BY <1>5, <4>1, <4>2
    <3>6. <<s>> \in Grammar!Meanings(tok_index, x + 1, TRUE)
      <4>1. <<s>> \in Grammar!Meanings(b, x + 1, TRUE)
        BY <3>4, <3>5, FunctionMeans
      <4> QED
        BY <4>1
    <3>7. Proceed(statements \o <<s>>, x + 1)
      BY <3>2, <3>3
    <3> QED
      BY <3>1, <3>6, <3>7, ProceedStep
  <2> QED
    BY <2>2, <2>8, <2>9
<1>6. IsIdentifier(i) \/ ~IsToken(i) => ~(IsDataType(i) \/ Is(i, "{"))
  BY DEF IsIdentifier, IsToken, IsDataType, Is
<1> QED
  BY <1>4, <1>5, <1>6 DEF FunctionBody

(* A function. *)
LEMMA FuncDeclFollows ==
  ASSUME StreamAssumption, ParserInv, ParserInv', parser_func_decl
  PROVE  Grammar!Next
<1>0. PICK b : b = tok_index
  OBVIOUS
<1>1. Parsing /\ Is(b, "KEYWORD_FUNC") /\ Clear(b)
  BY <1>0, BeforeTheCall DEF parser_func_decl
<1>2. tokens \in Streams /\ Len(tokens) \in Nat /\ b \in 1..Len(tokens)
  BY <1>1, BeforeTheCall, StreamFacts DEF Clear
<1>3. "KEYWORD_FUNC" # TOKEN_EOF /\ "(" # TOKEN_EOF /\ ")" # TOKEN_EOF
  BY DEF TOKEN_EOF, NUL
<1>4. Clear(b + 1) /\ b \in Nat
  BY <1>1, <1>2, <1>3, Behind
<1>5. Grammar!Tok(b, "KEYWORD_FUNC")
  BY <1>1, <1>2, SameTokens
<1>6. ASSUME NEW code, NEW msg, NEW at, Reject(code, msg, at),
             \A e \in Nat : ~Grammar!Function(b, e)
      PROVE  Grammar!Next
  BY <1>0, <1>1, <1>2, <1>4, <1>5, <1>6, NoFunctionFollows
<1>7. (b + 1) + 1 = b + 2 /\ (b + 2) + 1 = b + 3 /\ (b + 3) + 1 = b + 4
  BY <1>4
<1>8. /\ \A e : Grammar!Function(b, e) =>
              IsIdentifier(b + 1) /\ Is(b + 2, "(") /\ Is(b + 3, ")")
      /\ IsIdentifier(b + 3) => ~Is(b + 3, ")")
  <2>1. \A i : /\ \A v : Grammar!Tok(i, v) => Is(i, v)
               /\ Grammar!Identifier(i) => IsIdentifier(i)
    BY <1>2, SameTokens
  <2>2. \A e : Grammar!Function(b, e) =>
          Grammar!Identifier(b + 1) /\ Grammar!Tok(b + 2, "(") /\ Grammar!Tok(b + 3, ")")
    BY DEF Grammar!Function
  <2>3. IsIdentifier(b + 3) => ~Is(b + 3, ")")
    BY DEF IsIdentifier, Is
  <2> QED
    BY <2>1, <2>2, <2>3
<1>9. CASE /\ \/ ~IsIdentifier(b + 1) \/ ~Is(b + 2, "(")
              \/ IsIdentifier(b + 3) \/ ~Is(b + 3, ")")
           /\ \E code, msg, at : Reject(code, msg, at)
  <2>1. \A e \in Nat : ~Grammar!Function(b, e)
    BY <1>8, <1>9
  <2> QED
    BY <1>6, <1>9, <2>1
<1>10. CASE /\ IsIdentifier(b + 1) /\ Is(b + 2, "(") /\ Is(b + 3, ")")
            /\ FunctionBody(tokens[b + 1].text, b + 4)
  <2>1. Clear(b + 2)
    BY <1>2, <1>4, <1>7, <1>10, BehindIdentifier
  <2>2. Clear(b + 3)
    BY <1>2, <1>3, <1>7, <1>10, <2>1, Behind
  <2>3. Clear(b + 4)
    BY <1>2, <1>3, <1>7, <1>10, <2>2, Behind
  <2>4. b + 1 \in 1..Len(tokens) /\ b + 2 \in 1..Len(tokens) /\ b + 3 \in 1..Len(tokens)
    BY <1>4, <2>1, <2>2 DEF Clear
  <2>5. Grammar!Identifier(b + 1) /\ Grammar!Tok(b + 2, "(") /\ Grammar!Tok(b + 3, ")")
    BY <1>2, <1>10, <2>4, SameTokens
  <2> QED
    BY <1>0, <1>1, <1>4, <1>5, <1>10, <2>3, <2>5, FunctionBodyFollows
<1> QED
  BY <1>0, <1>9, <1>10 DEF parser_func_decl

(* What is rejected where the call began is no phrase at all. *)
LEMMA RejectedFollows ==
  ASSUME StreamAssumption, ParserInv, ParserInv',
         parser_identifier \/ parser_token \/ literal_by_itself
  PROVE  Grammar!Next
<1>0. PICK b : b = tok_index
  OBVIOUS
<1>1. Parsing /\ pc = "parse" /\ pc' = "return"
  BY DEF parser_identifier, parser_token, literal_by_itself, Reject, EmitError, Parsing
<1>2. tokens \in Streams /\ Len(tokens) \in Nat /\ b \in 1..Len(tokens) /\ b \in Nat
  <2>1. tokens \in Streams /\ Len(tokens) \in Nat /\ b \in 1..Len(tokens)
    BY <1>0, <1>1, BeforeTheCall, StreamFacts DEF Clear
  <2> QED
    BY <2>1
<1>3. \A i : /\ \A v : Grammar!Tok(i, v) => Is(i, v)
             /\ Grammar!Identifier(i) => IsIdentifier(i)
  BY <1>2, SameTokens
<1>4. CASE IsIdentifier(b) /\ ~Is(b + 1, ":")
  <2>1. Grammar!Identifier(b) /\ ~Grammar!Declaration(b)
    <3>1. Grammar!Identifier(b)
      BY <1>2, <1>4, SameTokens
    <3>2. ~Grammar!Tok(b + 1, ":")
      BY <1>3, <1>4
    <3> QED
      BY <3>1, <3>2 DEF Grammar!Declaration
  <2>2. \A e : Grammar!Meanings(b, e, FALSE) = {}
    BY <1>1, <1>2, <2>1, DeclarationMeans DEF DeclarationMeanings
  <2> QED
    BY <1>0, <1>1, <2>2, GiveUpStep
<1>5. CASE /\ ~IsIdentifier(b)
           /\ \A v \in {TOKEN_BREAK, "}", "KEYWORD_RETURN", "KEYWORD_FUNC"} : ~Is(b, v)
  <2>1. /\ ~Grammar!Identifier(b)
        /\ \A v \in {TOKEN_BREAK, "}", "KEYWORD_RETURN", "KEYWORD_FUNC"} :
             ~Grammar!Tok(b, v)
    BY <1>3, <1>5
  <2>2. \A e : Grammar!Meanings(b, e, FALSE) = {}
    BY <1>2, <2>1, NothingMeans
  <2> QED
    BY <1>0, <1>1, <2>2, GiveUpStep
<1>6. CASE parser_identifier
  <2>1. IsIdentifier(b) /\ ~Is(b + 1, ":")
    BY <1>0, <1>6 DEF parser_identifier, Operations, Is, IsToken
  <2> QED
    BY <1>4, <2>1
<1>7. CASE parser_token
  <2>1. /\ ~IsIdentifier(b)
        /\ \A v \in {TOKEN_BREAK, "}", "KEYWORD_RETURN", "KEYWORD_FUNC"} : ~Is(b, v)
    BY <1>0, <1>7 DEF parser_token, Is, IsToken, IsIdentifier, TOKEN_EOF, TOKEN_BREAK, NUL, LF
  <2> QED
    BY <1>5, <2>1
<1>8. CASE literal_by_itself
  <2>1. /\ ~IsIdentifier(b)
        /\ \A v \in {TOKEN_BREAK, "}", "KEYWORD_RETURN", "KEYWORD_FUNC"} : ~Is(b, v)
    BY <1>0, <1>8 DEF literal_by_itself, Is, IsToken
  <2> QED
    BY <1>5, <2>1
<1> QED
  BY <1>6, <1>7, <1>8

(* A statement with an expression: the expression gives it up, or is none  *)
(* and nothing is read, or has a value and a ';' behind it.                *)
LEMMA CompleteWithMeans ==
  ASSUME StreamAssumption, NumberAssumption, CharAssumption, FewDigits,
         tokens \in Streams, NEW at, Clear(at), NEW sts \in Seq(Statement),
         NEW type, CompleteWith(type, sts, at)
  PROVE  \/ /\ pc' = "return" /\ ~Grammar!NoValue(at, sts)
            /\ Grammar!ValuesOf(at, sts, FALSE) = {} \/ ~Is(at + 1, ";")
         \/ Grammar!NoValue(at, sts) /\ Proceed(sts, at)
         \/ /\ Is(at + 1, ";")
            /\ \E v \in Grammar!ValuesOf(at, sts, TRUE) :
                 Proceed(Append(sts, Made(type, v)), at + 2)
<1>1. /\ Len(tokens) \in Nat /\ at \in 1..Len(tokens) /\ tokens[at] \in Token
  BY StreamFacts DEF Clear
<1>2. /\ at \in Nat /\ (at + 1) + 1 = at + 2
  BY <1>1
<1>3. tokens[at].type = "LITERAL_NUM" => ShortFraction(tokens[at].text)
  <2>1. DOMAIN tokens = 1..Len(tokens)
    BY DEF StreamAssumption
  <2> QED
    BY <1>1, <2>1 DEF FewDigits
<1>4. IsIdentifier(at) => /\ Grammar!Identifier(at)
                          /\ \A v : Is(at + 1, v) => Grammar!Tok(at + 1, v)
  <2> SUFFICES ASSUME IsIdentifier(at)
               PROVE  /\ Grammar!Identifier(at)
                      /\ \A v : Is(at + 1, v) => Grammar!Tok(at + 1, v)
    OBVIOUS
  <2>1. at + 1 \in 1..Len(tokens)
    BY BehindIdentifier DEF Clear
  <2> QED
    BY <1>1, <2>1, SameTokens
<1>5. PICK leftover \in Leftovers :
        LET e == parser_expr(at, sts, leftover)
        IN  \/ /\ e.code # "NONE"
               /\ EmitError(e.code, e.msg, e.at)
               /\ statements' = sts
            \/ /\ e.code = "NONE" /\ e.value = NullValue
               /\ Proceed(sts, e.at)
            \/ /\ e.code = "NONE" /\ e.value # NullValue
               /\ Complete(sts, Made(type, e.value), e.at)
  BY DEF CompleteWith
<1>6. UIntMod > 100 /\ ULongMod > 100
  BY DEF FewDigits
<1>7. PICK e : e = parser_expr(at, sts, leftover)
  OBVIOUS
<1>8. ExprMeans(e, at, sts)
  BY <1>1, <1>2, <1>3, <1>4, <1>6, <1>7, ExpressionMeans
<1>9. CASE e.code # "NONE" /\ EmitError(e.code, e.msg, e.at)
  BY <1>8, <1>9 DEF ExprMeans, EmitError
<1>10. CASE e.code = "NONE" /\ e.value = NullValue /\ Proceed(sts, e.at)
  BY <1>8, <1>10 DEF ExprMeans
<1>11. CASE e.code = "NONE" /\ e.value # NullValue /\ Complete(sts, Made(type, e.value), e.at)
  <2>1. /\ e.at = at + 1 /\ e.value \in Grammar!ValuesOf(at, sts, TRUE)
        /\ Is(at + 1, ";") \/ ~Grammar!NoValue(at, sts)
    BY <1>8, <1>11 DEF ExprMeans
  <2>2. ~statement_is_block(Made(type, e.value))
    BY DEF statement_is_block, Made, Return, Assign
  <2>3. \/ Is(at + 1, ";") /\ Proceed(Append(sts, Made(type, e.value)), at + 2)
        \/ ~Is(at + 1, ";") /\ pc' = "return"
    BY <1>2, <1>11, <2>1, <2>2 DEF Complete, EmitError
  <2> QED
    BY <2>1, <2>3
<1> QED
  BY <1>5, <1>7, <1>9, <1>10, <1>11

(* A return. *)
LEMMA ReturnFollows ==
  ASSUME StreamAssumption, NumberAssumption, CharAssumption, FewDigits,
         ParserInv, ParserInv', parser_return
  PROVE  Grammar!Next
<1>0. PICK b : b = tok_index
  OBVIOUS
<1>1. /\ Parsing /\ pc = "parse" /\ Is(b, "KEYWORD_RETURN") /\ Clear(b)
      /\ CompleteWith("RETURN", statements, b + 1)
  BY <1>0, BeforeTheCall DEF parser_return, Parsing
<1>2. /\ tokens \in Streams /\ Len(tokens) \in Nat /\ b \in 1..Len(tokens)
      /\ statements \in Seq(Statement)
  BY <1>1, BeforeTheCall, StreamFacts DEF Clear, Sound
<1>3. "KEYWORD_RETURN" # TOKEN_EOF
  BY DEF TOKEN_EOF, NUL
<1>4. Clear(b + 1) /\ b \in Nat
  BY <1>1, <1>2, <1>3, Behind
<1>5. Grammar!Tok(b, "KEYWORD_RETURN")
  BY <1>1, <1>2, SameTokens
<1>6. (b + 1) + 1 = b + 2 /\ (b + 1) + 2 = b + 3 /\ b + 3 # b + 1
  BY <1>4
<1>7. \A e, stray : Grammar!Meanings(b, e, stray) =
        IF e = b + 1 THEN {x \in {<< >>} : Grammar!NoValue(b + 1, statements)}
        ELSE IF e = b + 3 /\ Grammar!Tok(b + 2, ";")
        THEN {<<Return(v)>> : v \in Grammar!ValuesOf(b + 1, statements, stray)}
        ELSE {}
  BY <1>1, <1>4, <1>5, ReturnMeans
<1>8. \/ /\ pc' = "return" /\ ~Grammar!NoValue(b + 1, statements)
         /\ Grammar!ValuesOf(b + 1, statements, FALSE) = {} \/ ~Is(b + 2, ";")
      \/ Grammar!NoValue(b + 1, statements) /\ Proceed(statements, b + 1)
      \/ /\ Is(b + 2, ";")
         /\ \E v \in Grammar!ValuesOf(b + 1, statements, TRUE) :
              Proceed(Append(statements, Made("RETURN", v)), b + 3)
  BY <1>1, <1>2, <1>4, <1>6, CompleteWithMeans
<1>9. CASE /\ pc' = "return" /\ ~Grammar!NoValue(b + 1, statements)
           /\ Grammar!ValuesOf(b + 1, statements, FALSE) = {} \/ ~Is(b + 2, ";")
  <2>1. ~Is(b + 2, ";") => ~Grammar!Tok(b + 2, ";")
    BY <1>2, SameTokens
  <2>2. \A e : Grammar!Meanings(b, e, FALSE) = {}
    BY <1>7, <1>9, <2>1
  <2> QED
    BY <1>0, <1>1, <1>9, <2>2, GiveUpStep
<1>10. CASE Grammar!NoValue(b + 1, statements) /\ Proceed(statements, b + 1)
  <2>1. statements = statements \o << >>
    BY <1>2
  <2>2. Proceed(statements \o << >>, b + 1)
    BY <1>10, <2>1
  <2>3. << >> \in Grammar!Meanings(b, b + 1, TRUE)
    BY <1>7, <1>10
  <2>4. b + 1 \in Nat /\ b < b + 1
    BY <1>4
  <2> QED
    BY <1>0, <1>1, <2>2, <2>3, <2>4, ProceedStep
<1>11. CASE /\ Is(b + 2, ";")
            /\ \E v \in Grammar!ValuesOf(b + 1, statements, TRUE) :
                 Proceed(Append(statements, Made("RETURN", v)), b + 3)
  <2>1. PICK v \in Grammar!ValuesOf(b + 1, statements, TRUE) :
          Proceed(Append(statements, Return(v)), b + 3)
    BY <1>11 DEF Made
  <2>2. Append(statements, Return(v)) = statements \o <<Return(v)>>
    BY <1>2
  <2>3. Proceed(statements \o <<Return(v)>>, b + 3)
    BY <2>1, <2>2
  <2>4. b + 3 <= Len(tokens) => <<Return(v)>> \in Grammar!Meanings(b, b + 3, TRUE)
    <3> SUFFICES ASSUME b + 3 <= Len(tokens)
                 PROVE  <<Return(v)>> \in Grammar!Meanings(b, b + 3, TRUE)
      OBVIOUS
    <3>1. b + 2 \in 1..Len(tokens)
      BY <1>2, <1>4
    <3>2. Grammar!Tok(b + 2, ";")
      BY <1>2, <1>11, <3>1, SameTokens
    <3>3. Grammar!Meanings(b, b + 3, TRUE)
            = {<<Return(w)>> : w \in Grammar!ValuesOf(b + 1, statements, TRUE)}
      BY <1>6, <1>7, <3>2
    <3> QED
      BY <3>3
  <2>5. b + 3 \in Nat /\ b < b + 3
    BY <1>4
  <2> QED
    BY <1>0, <1>1, <2>3, <2>4, <2>5, ProceedStep
<1> QED
  BY <1>8, <1>9, <1>10, <1>11

(* A declaration. *)
LEMMA VarDeclFollows ==
  ASSUME StreamAssumption, NumberAssumption, CharAssumption, FewDigits,
         ParserInv, ParserInv', parser_var_decl
  PROVE  Grammar!Next
<1>0. PICK b : b = tok_index
  OBVIOUS
<1>1. PICK decl : decl = Declare(tokens[b].text, tokens[b + 2].token)
  OBVIOUS
<1>2. /\ Parsing /\ pc = "parse" /\ IsIdentifier(b) /\ Is(b + 1, ":") /\ Clear(b)
  BY <1>0, BeforeTheCall DEF parser_var_decl, Parsing
<1>3. /\ tokens \in Streams /\ Len(tokens) \in Nat /\ b \in 1..Len(tokens)
      /\ Sound(statements) /\ statements \in Seq(Statement)
  BY <1>2, BeforeTheCall, StreamFacts DEF Clear, Sound
<1>4. ":" # TOKEN_EOF /\ ";" # TOKEN_EOF /\ "=" # TOKEN_EOF
  BY DEF TOKEN_EOF, NUL
<1>5. Clear(b + 1) /\ b \in Nat /\ tokens[b].text \in Seq(Char)
  BY <1>2, <1>3, BehindIdentifier
<1>6. (b + 1) + 1 = b + 2 /\ (b + 2) + 1 = b + 3 /\ (b + 3) + 1 = b + 4
      /\ (b + 4) + 1 = b + 5 /\ (b + 4) + 2 = b + 6
      /\ b + 4 # b + 5 /\ b + 4 # b + 6 /\ b + 5 # b + 6
  BY <1>5
<1>7. Clear(b + 2)
  BY <1>2, <1>3, <1>4, <1>5, <1>6, Behind
<1>8. IsDataType(b + 2) => Clear(b + 3) /\ tokens[b + 2].token \in DataTypes
  BY <1>3, <1>6, <1>7, BehindDataType
<1>9. ASSUME IsDataType(b + 2), NEW v, Is(b + 3, v), v # TOKEN_EOF
      PROVE  Clear(b + 4)
  BY <1>3, <1>6, <1>8, <1>9, Behind
<1>10. Grammar!Identifier(b)
  BY <1>2, <1>3, SameTokens
<1>11. \A e, stray :
         Grammar!Meanings(b, e, stray) = DeclarationMeanings(b, e, stray, decl)
  BY <1>1, <1>2, <1>5, <1>10, DeclarationMeans
<1>12. \A i : /\ \A v : Grammar!Tok(i, v) => Is(i, v)
              /\ Grammar!DataType(i) => IsDataType(i)
  BY <1>3, SameTokens
<1>13. ASSUME \E code, msg, at : Reject(code, msg, at),
              \A e : Grammar!Meanings(b, e, FALSE) = {}
       PROVE  Grammar!Next
  <2>1. pc' = "return"
    BY <1>13 DEF Reject, EmitError
  <2> QED
    BY <1>0, <1>2, <1>13, <2>1, GiveUpStep
<1>14. CASE ~IsDataType(b + 2) /\ \E code, msg, at : Reject(code, msg, at)
  <2>1. ~Grammar!Declaration(b)
    BY <1>12, <1>14 DEF Grammar!Declaration
  <2> QED
    BY <1>11, <1>13, <1>14, <2>1 DEF DeclarationMeanings
<1>15. CASE ~Is(b + 3, ";") /\ ~Is(b + 3, "=") /\ \E code, msg, at : Reject(code, msg, at)
  <2>1. ~Grammar!Tok(b + 3, ";") /\ ~Grammar!Tok(b + 3, "=")
    BY <1>12, <1>15
  <2> QED
    BY <1>11, <1>13, <1>15, <2>1 DEF DeclarationMeanings
<1>16. ASSUME IsDataType(b + 2), NEW v, Is(b + 3, v), v \in {";", "="}
       PROVE  /\ Grammar!Declaration(b) /\ Grammar!Tok(b + 3, v)
              /\ Clear(b + 4) /\ b + 4 \in 1..Len(tokens)
              /\ v = ";" => ~Grammar!Tok(b + 3, "=")
              /\ v = "=" => ~Grammar!Tok(b + 3, ";")
  <2>1. Clear(b + 4)
    BY <1>4, <1>9, <1>16
  <2>2. /\ b + 1 \in 1..Len(tokens) /\ b + 2 \in 1..Len(tokens)
        /\ b + 3 \in 1..Len(tokens) /\ b + 4 \in 1..Len(tokens)
    BY <1>5, <1>7, <1>8, <1>16, <2>1 DEF Clear
  <2>3. Grammar!Tok(b + 1, ":") /\ Grammar!DataType(b + 2) /\ Grammar!Tok(b + 3, v)
    BY <1>2, <1>3, <1>16, <2>2, SameTokens
  <2>4. /\ v = ";" => ~Grammar!Tok(b + 3, "=")
        /\ v = "=" => ~Grammar!Tok(b + 3, ";")
    BY <2>3 DEF Grammar!Tok
  <2> QED
    BY <1>10, <2>1, <2>2, <2>3, <2>4 DEF Grammar!Declaration
<1>17. CASE /\ IsDataType(b + 2) /\ Is(b + 3, ";")
            /\ Complete(statements, decl, b + 4)
  <2>1. /\ Grammar!Declaration(b) /\ Grammar!Tok(b + 3, ";") /\ ~Grammar!Tok(b + 3, "=")
        /\ b + 4 \in 1..Len(tokens)
    BY <1>16, <1>17
  <2>2. ~statement_is_block(decl)
    BY <1>1 DEF statement_is_block, Declare
  <2>3. \/ Is(b + 4, ";") /\ Proceed(Append(statements, decl), b + 5)
        \/ ~Is(b + 4, ";") /\ pc' = "return"
    BY <1>6, <1>17, <2>2 DEF Complete, EmitError
  <2>4. CASE Is(b + 4, ";") /\ Proceed(Append(statements, decl), b + 5)
    <3>1. Grammar!Tok(b + 4, ";")
      BY <1>3, <2>1, <2>4, SameTokens
    <3>2. Append(statements, decl) = statements \o <<decl>>
      BY <1>3
    <3>3. Proceed(statements \o <<decl>>, b + 5)
      BY <2>4, <3>2
    <3>4. <<decl>> \in Grammar!Meanings(b, b + 5, TRUE)
      BY <1>6, <1>11, <2>1, <3>1 DEF DeclarationMeanings
    <3>5. b + 5 \in Nat /\ b < b + 5
      BY <1>5
    <3> QED
      BY <1>0, <1>2, <3>3, <3>4, <3>5, ProceedStep
  <2>5. CASE ~Is(b + 4, ";") /\ pc' = "return"
    <3>1. ~Grammar!Tok(b + 4, ";")
      BY <1>12, <2>5
    <3>2. \A e : Grammar!Meanings(b, e, FALSE) = {}
      BY <1>11, <2>1, <3>1 DEF DeclarationMeanings
    <3> QED
      BY <1>0, <1>2, <2>5, <3>2, GiveUpStep
  <2> QED
    BY <2>3, <2>4, <2>5
<1>18. CASE /\ IsDataType(b + 2) /\ Is(b + 3, "=")
            /\ CompleteWith("ASSIGN", Append(statements, decl), b + 4)
  <2>1. PICK more : more = Append(statements, decl)
    OBVIOUS
  <2>2. /\ Grammar!Declaration(b) /\ Grammar!Tok(b + 3, "=") /\ ~Grammar!Tok(b + 3, ";")
        /\ Clear(b + 4)
    BY <1>16, <1>18
  <2>3. more \in Seq(Statement) /\ more = statements \o <<decl>>
    <3>1. decl \in Statement
      BY <1>1, <1>3, <1>5, <1>8, <1>18, DeclarationIsSound
    <3> QED
      BY <1>3, <2>1, <3>1
  <2>4. \/ /\ pc' = "return" /\ ~Grammar!NoValue(b + 4, more)
           /\ Grammar!ValuesOf(b + 4, more, FALSE) = {} \/ ~Is(b + 5, ";")
        \/ Grammar!NoValue(b + 4, more) /\ Proceed(more, b + 4)
        \/ /\ Is(b + 5, ";")
           /\ \E v \in Grammar!ValuesOf(b + 4, more, TRUE) :
                Proceed(Append(more, Made("ASSIGN", v)), b + 6)
    BY <1>3, <1>6, <1>18, <2>1, <2>2, <2>3, CompleteWithMeans
  <2>5. \A e, stray : Grammar!Meanings(b, e, stray) =
          IF e = b + 4 THEN {x \in {<<decl>>} : Grammar!NoValue(b + 4, more)}
          ELSE IF e = b + 6 /\ Grammar!Tok(b + 5, ";")
          THEN {<<decl, Assign(Len(statements), v)>> :
                  v \in Grammar!ValuesOf(b + 4, more, stray)}
          ELSE {}
    BY <1>6, <1>11, <2>1, <2>2 DEF DeclarationMeanings
  <2>6. CASE /\ pc' = "return" /\ ~Grammar!NoValue(b + 4, more)
             /\ Grammar!ValuesOf(b + 4, more, FALSE) = {} \/ ~Is(b + 5, ";")
    <3>1. ~Is(b + 5, ";") => ~Grammar!Tok(b + 5, ";")
      BY <1>12
    <3>2. \A e : Grammar!Meanings(b, e, FALSE) = {}
      BY <2>5, <2>6, <3>1
    <3> QED
      BY <1>0, <1>2, <2>6, <3>2, GiveUpStep
  <2>7. CASE Grammar!NoValue(b + 4, more) /\ Proceed(more, b + 4)
    <3>1. Proceed(statements \o <<decl>>, b + 4)
      BY <2>3, <2>7
    <3>2. <<decl>> \in Grammar!Meanings(b, b + 4, TRUE)
      BY <2>5, <2>7
    <3>3. b + 4 \in Nat /\ b < b + 4
      BY <1>5
    <3> QED
      BY <1>0, <1>2, <3>1, <3>2, <3>3, ProceedStep
  <2>8. CASE /\ Is(b + 5, ";")
             /\ \E v \in Grammar!ValuesOf(b + 4, more, TRUE) :
                  Proceed(Append(more, Made("ASSIGN", v)), b + 6)
    <3>1. PICK v \in Grammar!ValuesOf(b + 4, more, TRUE) :
            Proceed(Append(more, Made("ASSIGN", v)), b + 6)
      BY <2>8
    <3>2. PICK assign : assign = Assign(Len(statements), v)
      OBVIOUS
    <3>3. Made("ASSIGN", v) = assign
      BY <3>2 DEF Made, DestIndex
    <3>4. Append(more, assign) = statements \o <<decl, assign>>
      BY <1>3, <2>1
    <3>5. Proceed(statements \o <<decl, assign>>, b + 6)
      BY <3>1, <3>3, <3>4
    <3>6. b + 6 <= Len(tokens) => <<decl, assign>> \in Grammar!Meanings(b, b + 6, TRUE)
      <4> SUFFICES ASSUME b + 6 <= Len(tokens)
                   PROVE  <<decl, assign>> \in Grammar!Meanings(b, b + 6, TRUE)
        OBVIOUS
      <4>1. b + 5 \in 1..Len(tokens)
        BY <1>3, <1>5
      <4>2. Grammar!Tok(b + 5, ";")
        BY <1>3, <2>8, <4>1, SameTokens
      <4>3. Grammar!Meanings(b, b + 6, TRUE)
              = {<<decl, Assign(Len(statements), w)>> :
                   w \in Grammar!ValuesOf(b + 4, more, TRUE)}
        BY <1>6, <2>5, <4>2
      <4> QED
        BY <3>2, <4>3
    <3>7. b + 6 \in Nat /\ b < b + 6
      BY <1>5
    <3> QED
      BY <1>0, <1>2, <3>5, <3>6, <3>7, ProceedStep
  <2> QED
    BY <2>4, <2>6, <2>7, <2>8
<1>19. IsDataType(b + 2) => IsToken(b + 2) /\ ~Is(b + 2, "=")
  BY DEF IsDataType, IsToken, Is, DataTypes
<1> QED
  BY <1>0, <1>1, <1>14, <1>15, <1>17, <1>18, <1>19 DEF parser_var_decl

(* A step of parse is a step of WakGrammar, or none. *)
LEMMA NextFollows ==
  ASSUME StreamAssumption, NumberAssumption, CharAssumption, FewDigits,
         ParserInv, ParserInv', [Next]_vars
  PROVE  [Grammar!Next]_(Grammar!vars)
<1>1. CASE UNCHANGED vars
  BY <1>1 DEF vars, Grammar!vars
<1>2. CASE parser_next_statement
  BY <1>2, SkipBreakFollows, ReturnFollows, EndBlockFollows, FuncDeclFollows,
     VarDeclFollows, RejectedFollows DEF parser_next_statement
<1> QED
  BY <1>1, <1>2 DEF Next, Terminating

(* The first phrase begins at the first token. *)
LEMMA InitFollows ==
  ASSUME StreamAssumption, Init
  PROVE  Grammar!Init
<1>1. tokens \in Seq(Token) /\ pc = "parse" /\ tok_index = 1 /\ statements = << >>
  BY DEF Init, StreamAssumption
<1>2. Grammar!Token = Token
  BY DEF Grammar!Token, Grammar!TokenTypes, Grammar!Char, Grammar!Special, Grammar!NUL,
         Grammar!SP, Grammar!LF, Grammar!CR, Grammar!DQ, Grammar!SQ, Grammar!DOT,
         Grammar!SLASH, Grammar!STAR, Token, TokenTypes, Char, Special, NUL, SP, LF, CR,
         DQ, SQ, DOT, SLASH, STAR
<1> QED
  BY <1>1, <1>2 DEF Grammar!Init

(***************************************************************************)
(* Every call of parser_next_statement reads a phrase of WakGrammar and    *)
(* appends what it stands for, or no phrase fits and parse returns: for    *)
(* all streams whose literals have no more than two digits behind a dot,   *)
(* all that unwritten memory may hold, and all moduli above 100.  This is  *)
(* FollowsTheGrammar without its fairness.                                 *)
(***************************************************************************)
THEOREM ParserReadsPhrases ==
  ASSUME FewDigits
  PROVE  Spec => Grammar!Init /\ [][Grammar!Next]_(Grammar!vars)
<1>1. Init => Grammar!Init
  BY StreamAssumption, InitFollows
<1>2. ParserInv /\ ParserInv' /\ [Next]_vars => [Grammar!Next]_(Grammar!vars)
  BY StreamAssumption, NumberAssumption, CharAssumption, NextFollows
<1>3. Spec => []ParserInv
  BY SpecKeepsParserInv
<1> QED
  BY <1>1, <1>2, <1>3, PTL DEF Spec
=============================================================================
