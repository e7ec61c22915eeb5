----------------------------- MODULE MCWakLexer -----------------------------
(* Instances of WakLexer for TLC: the keyword table and sources. *)
EXTENDS WakLexerRefinement, WakKeywords, SequencesExt

(* Every text of at most n characters of S, with the NUL at its end. *)
TextsOf(S, n) ==
  UNION {{Append(s, NUL) : s \in [1..k -> S]} : k \in 0..n}

(* Every way a line can end inside and outside of comments. *)
CommentTexts == TextsOf({SLASH, STAR, LF, CR, SP}, 5)
(* Comments in comments: eight characters open and close two levels, and a *)
(* ninth one shows where the outer one has ended.                          *)
NestedTexts == TextsOf({SLASH, STAR}, 9)
(* Literals, words and numbers, with a NUL in the middle of the file; of   *)
(* the words, i begins i32 and if, f begins f32 and func.                  *)
LiteralTexts == TextsOf({DQ, SQ, LF, NUL, "i"}, 4)
WordTexts == TextsOf({"i", "f", "x", "0", ";"}, 4)
DotTexts == TextsOf({DOT, "0", SP}, 4)

TokenSources == CommentTexts \cup NestedTexts \cup LiteralTexts \cup WordTexts
                  \cup DotTexts

(* The sources in which every dot stands before a digit. *)
DotFreeSources ==
  {s \in TokenSources : \A i \in DOMAIN s : s[i] = DOT => s[i + 1] \in Digit}

(* Enough tokens to fill the arrays, in and around comments. *)
ArraySources == TextsOf({";", SLASH, STAR, DOT}, 6)
BareDotSources == TextsOf({DOT, "i"}, 3)
=============================================================================
