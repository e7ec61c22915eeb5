--------------------------- MODULE MCWakFrontEnd ---------------------------
(* Instances of WakFrontEnd for TLC: short texts.  Words are cut short to  *)
(* what the lexer still reads as a keyword: fu as func, i as i32, r as     *)
(* return.                                                                 *)
EXTENDS WakFrontEnd, WakKeywords, TLC

MCDigitVal == [c \in Digit |-> IF c = "1" THEN 1 ELSE IF c = "2" THEN 2 ELSE 3]

(* Statements, beginnings of statements, and what can end or hide a line. *)
Pieces ==
  {<<"f", "u", "SP", "a", "(", ")", "{">>, <<"f", "a">>, <<"SP", "f", "u", "SP", "a", "(", ")">>,
   <<"a", ":", "i", ";", ";">>, <<"r", "SP", "1", ";">>, <<"}">>,
   <<"LF">>, <<"CR", "LF">>, <<"CR">>, <<"NUL">>,
   <<"/", "/", "a", "LF">>, <<"/", "*", "LF", "*", "/">>, <<"DQ", "a">>}

Texts(n) ==
  LET texts[k \in 0..n] ==
        IF k = 0 THEN {<< >>} ELSE {t \o p : t \in texts[k - 1], p \in Pieces}
  IN  texts[n]

MCSources == {Append(t, "NUL") : t \in UNION {Texts(n) : n \in 0..3}}

MCLeftovers == {[type |-> "EMPTY"]}
=============================================================================
