----------------------------- MODULE WakGrammar -----------------------------
(***************************************************************************)
(* What parse promises: the tokens read from the left as phrases, each     *)
(* standing for the statements the grammar gives it, until no phrase fits; *)
(* then the program is given up and nothing of it is left.  A phrase is    *)
(* described by the tokens it consists of.  There is no order of checks    *)
(* here, no lookahead and no kind of error.                                *)
(***************************************************************************)
EXTENDS WakSyntax

LOCAL INSTANCE Functions

CONSTANTS
  digit_val,   (* the value of a digit                                     *)
  UIntMod,     (* 2^w for the w bits of an unsigned int,                   *)
  ULongMod,    (* and of an unsigned long                                  *)
  Leftovers    (* what memory nobody wrote may hold                        *)

VARIABLES
  source,
  at,         (* where the next phrase begins                              *)
  program,    (* the statements so far                                     *)
  done

vars == <<source, at, program, done>>

Tok(i, value) ==
  i \in DOMAIN source /\ source[i].type = "TOKEN" /\ source[i].token = value

Identifier(i) == i \in DOMAIN source /\ source[i].type = "IDENTIFIER"

DataType(i) ==
  /\ i \in DOMAIN source
  /\ source[i].type = "TOKEN"
  /\ source[i].token \in DataTypes
-----------------------------------------------------------------------------
(***************************************************************************)
(* The value of a literal.  Before the dot, only the last digit counts.    *)
(* Behind it up to two digits count as one expects; of more, each digit    *)
(* shifts those before it by as many places as there are of them, as far   *)
(* as an unsigned int goes.                                                *)
(***************************************************************************)
LastDigit(s) == IF s = << >> THEN 0 ELSE digit_val[s[Len(s)]]

Power(k) == 10^k % UIntMod

(* The factor of the k-th of n digits. *)
Factor(n, k) ==
  FoldFunctionOnSet(LAMBDA f, g : f * g, 1, [j \in 1..n |-> Power(j - 1)], (k + 1)..n)

Shifted(s) == SumFunction([k \in DOMAIN s |-> digit_val[s[k]] * Factor(Len(s), k)])

Fraction(s) == CASE Len(s) = 0 -> <<0, 1>>
                 [] Len(s) = 1 -> <<digit_val[s[1]], 10>>
                 [] Len(s) = 2 -> <<10 * digit_val[s[1]] + digit_val[s[2]], 100>>
                 [] Len(s) > 2 -> <<Shifted(s) % ULongMod, Power(Len(s))>>

(* So many digits that 10 to their number is 0 as an unsigned int. *)
Wraps(s) == Len(s) > 2 /\ 2^Len(s) % UIntMod = 0

(***************************************************************************)
(* The digits x, a dot and the digits y.  A y that wraps is forgotten and  *)
(* leaves an integer, whose last digit is the one in front of the dot or,  *)
(* if y went on, the last of all.  A second dot behind a y that wraps,     *)
(* which starts a new fraction, is not described.                          *)
(***************************************************************************)
DottedValue(x, y) ==
  IF ~Wraps(y) THEN Value("CONST_F32", <<LastDigit(x)>> \o Fraction(y))
  ELSE IF ~Wraps(Tail(y)) THEN Value("CONST_I32", <<LastDigit(x)>>)
  ELSE Value("CONST_I32", <<LastDigit(y)>>)

LiteralValues(s) ==
  LET Digits(x) == \A i \in DOMAIN x : x[i] \in Digit
      before(d) == SubSeq(s, 1, d - 1)
      after(d) == SubSeq(s, d + 1, Len(s))
  IN  IF Digits(s) THEN {Value("CONST_I32", <<LastDigit(s)>>)}
      ELSE {DottedValue(before(d), after(d)) :
              d \in {d \in DOMAIN s : s[d] = DOT /\ Digits(before(d) \o after(d))}}

(* The declarations a name can mean behind the statements prog: all but a  *)
(* declaration that is the first statement.                                *)
Declared(name, prog) ==
  {i \in 2..Len(prog) : prog[i].type = "DECLARE" /\ prog[i].name = name}

Last(is) == CHOOSE i \in is : \A j \in is : j <= i

Variable(i) == Identifier(i) /\ Tok(i + 1, ";")

(* What the expression at i is worth behind prog, and what else it may be  *)
(* if memory nobody wrote holds a declaration of the name.                 *)
Values(i, prog) ==
  IF source[i].type = "LITERAL_NUM" THEN LiteralValues(source[i].text)
  ELSE IF Variable(i) /\ Declared(source[i].text, prog) # {}
  THEN {InstrRef(Last(Declared(source[i].text, prog)) - 1)}
  ELSE {}

StrayValues(i, prog) ==
  {InstrRef(Len(prog)) :
     x \in {x \in Leftovers : /\ Variable(i)
                              /\ x.type = "DECLARE"
                              /\ x.name = source[i].text}}

(* With the stray values, or without them. *)
ValuesOf(i, prog, stray) ==
  Values(i, prog) \cup {v \in StrayValues(i, prog) : stray}

(* No expression, a call, or an unknown variable: nothing is read. *)
NoValue(i, prog) ==
  \/ source[i].type = "TOKEN"
  \/ Identifier(i) /\ Tok(i + 1, "(")
  \/ Variable(i) /\ Declared(source[i].text, prog) = {}
-----------------------------------------------------------------------------
Function(b, e) ==
  /\ Tok(b, "KEYWORD_FUNC") /\ Identifier(b + 1)
  /\ Tok(b + 2, "(") /\ Tok(b + 3, ")")
  /\ e - 1 >= b + 4 /\ Tok(e - 1, "{")
  /\ \/ e - 1 = b + 4
     \/ DataType(b + 4) /\ \A k \in (b + 5)..(e - 2) : Tok(k, TOKEN_BREAK)

Declaration(b) == Identifier(b) /\ Tok(b + 1, ":") /\ DataType(b + 2)

(* What the phrase of the tokens b..(e-1) can stand for. *)
Meanings(b, e, stray) ==
  LET decl == Declare(source[b].text, source[b + 2].token)
      type == IF e = b + 5 THEN "KEYWORD_VOID" ELSE source[b + 4].token
      Just(sts, condition) == {x \in {sts} : condition}
  IN  CASE e = b + 1 /\ Tok(b, TOKEN_BREAK) -> {<< >>}
        [] e = b + 1 /\ Tok(b, "}") -> Just(<<BlockEnd>>, program # << >>)
        [] e = b + 1 /\ Tok(b, "KEYWORD_RETURN") ->
             Just(<< >>, NoValue(b + 1, program))
        [] e = b + 3 /\ Tok(b, "KEYWORD_RETURN") /\ Tok(b + 2, ";") ->
             {<<Return(v)>> : v \in ValuesOf(b + 1, program, stray)}
        [] Function(b, e) -> {<<BlockFunction(source[b + 1].text, type)>>}
        [] e = b + 4 /\ Declaration(b) /\ Tok(b + 3, "=") ->
             Just(<<decl>>, NoValue(b + 4, Append(program, decl)))
        [] e = b + 5 /\ Declaration(b) /\ Tok(b + 3, ";") /\ Tok(b + 4, ";") ->
             {<<decl>>}
        [] e = b + 6 /\ Declaration(b) /\ Tok(b + 3, "=") /\ Tok(b + 5, ";") ->
             {<<decl, Assign(Len(program), v)>> :
                v \in ValuesOf(b + 4, Append(program, decl), stray)}
        [] OTHER -> {}

Init == /\ source \in Seq(Token)
        /\ at = 1
        /\ program = << >>
        /\ done = FALSE

Read == /\ ~done
        /\ \E e \in (at + 1)..Len(source) :
             /\ \E sts \in Meanings(at, e, TRUE) : program' = program \o sts
             /\ at' = e
        /\ UNCHANGED <<source, done>>

GiveUp == /\ ~done
          /\ \A e \in (at + 1)..Len(source) : Meanings(at, e, FALSE) = {}
          /\ done' = TRUE
          /\ at' = 0
          /\ program' = << >>
          /\ UNCHANGED source

Next == Read \/ GiveUp

Spec == Init /\ [][Next]_vars /\ WF_vars(Next)
=============================================================================
