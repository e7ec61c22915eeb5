----------------------------- MODULE MCWakParser -----------------------------
(* Instances of WakParser for TLC. *)
EXTENDS WakParserRefinement

MCDigitVal == [c \in Digit |-> IF c = "0" THEN 0 ELSE IF c = "1" THEN 1 ELSE 2]

Tk(v) == [type |-> "TOKEN", token |-> v, text |-> << >>]
Id(name) == [type |-> "IDENTIFIER", token |-> "none", text |-> name]
Num(text) == [type |-> "LITERAL_NUM", token |-> "none", text |-> text]
Str == [type |-> "LITERAL_STR", token |-> "none", text |-> <<DQ, DQ>>]

a == Id(<<"a">>)
b == Id(<<"b">>)
one == Num(<<"1">>)
i32 == Tk("KEYWORD_I32")
func == Tk("KEYWORD_FUNC")
return == Tk("KEYWORD_RETURN")
break == Tk(TOKEN_BREAK)
eof == Tk(TOKEN_EOF)

(* The statements the parser knows, and the beginnings it reads as one. *)
Statements ==
  {<<func, a, Tk("("), Tk(")"), Tk("{")>>,
   <<func, b, Tk("("), Tk(")"), i32, break, Tk("{")>>,
   <<a, Tk(":"), i32, Tk(";"), Tk(";")>>,
   <<a, Tk(":"), i32, Tk("="), one, Tk(";")>>,
   <<b, Tk(":"), i32, Tk("="), a, Tk(";")>>,
   <<return, a, Tk(";")>>,
   <<return, one, Tk(";")>>,
   <<return>>,
   <<break>>,
   <<Tk("}")>>}

(* Behind 14 fraction digits frac_dig is 10^14, a multiple of UIntMod.    *)
Zeros == [i \in 1..14 |-> "0"]

Words ==
  {a, one, Num(<<"1", "2">>), Num(<<"2", DOT, "1", "2">>), Num(<<DOT, "2">>),
   Num(<<"2", DOT>>), Num(<<"1", DOT, "2", DOT>>), Num(<<"0", "x", "1">>),
   Num(<<DOT, "1", "1", "2">>), Num(<<"2", DOT, "2", "0", "1", "2">>),
   Num(<<"1", "2", DOT>> \o Zeros), Num(<<"2", DOT>> \o Zeros \o <<"1">>),
   Num(<<"0", "b">>), Num(<<"1", "b">>), Str, i32, func, return, break, eof,
   Tk("KEYWORD_TYPE"), Tk("("), Tk(")"), Tk("{"), Tk("}"), Tk(":"), Tk("="),
   Tk(";"), Tk("+"), Tk(",")}

Texts(n) ==
  LET texts[k \in 0..n] ==
        IF k = 0 THEN {<< >>} ELSE {t \o s : t \in texts[k - 1], s \in Statements}
  IN  texts[n]

(* Up to two statements with any one token replaced by any other, and up   *)
(* to four statements as they are, each stream ended by the lexer's EOF.   *)
Replaced(T) ==
  UNION {{[t EXCEPT ![i] = w] : i \in DOMAIN t, w \in Words} : t \in T}

MCStreams ==
  {Append(t, eof) : t \in UNION {Texts(n) : n \in 0..4}
                         \cup Replaced(Texts(1) \cup Texts(2))
                         \cup UNION {{SubSeq(t, 1, i) : i \in DOMAIN t} : t \in Texts(1)}}

MCLeftovers == {[type |-> "EMPTY"], Declare(<<"a">>, "KEYWORD_I32")}
=============================================================================
