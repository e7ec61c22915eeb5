--------------------------- MODULE WakTokenStream ---------------------------
(***************************************************************************)
(* What lexetize promises: the source cut into lexemes, in order, nothing  *)
(* but blanks and block comments between two of them, each as long as its  *)
(* kind allows, the last one the NUL at the end.  There is no position,    *)
(* state or nesting depth here: a comment is defined by its delimiters.    *)
(***************************************************************************)
EXTENDS WakChars, FiniteSets

VARIABLES
  source,
  out,       (* the lexemes so far                                         *)
  done       (* the stream was handed over                                 *)

vars == <<source, out, done>>

(***************************************************************************)
(* Block comments.  Two characters are a delimiter unless the first one    *)
(* already belongs to the delimiter before it, as in slash-star-slash.     *)
(***************************************************************************)
Pair(i, a, b) == i + 1 \in DOMAIN source /\ source[i] = a /\ source[i + 1] = b

Delimiters(b) ==
  LET isDelim[i \in b..Len(source)] ==
        /\ Pair(i, SLASH, STAR) \/ Pair(i, STAR, SLASH)
        /\ i > b => ~isDelim[i - 1]
  IN  {i \in b..Len(source) : isDelim[i]}

(* From b up to e, comments have been opened as often as closed. *)
Balanced(b, e) ==
  LET ds == {i \in Delimiters(b) : i + 2 <= e}
  IN  Cardinality({i \in ds : source[i] = SLASH})
        = Cardinality({i \in ds : source[i] = STAR})

(* A comment ends where it is balanced, or at a NUL, which is not in it. *)
CommentEnds(b) ==
  {e \in (b + 2)..Len(source) : Balanced(b, e) \/ source[e] = NUL}

(* Where a comment at b ends, and where the next lexeme at or after i is. *)
CommentEnd(b) == CHOOSE e \in CommentEnds(b) : \A f \in CommentEnds(b) : e <= f

NextLexeme(i) ==
  LET from[k \in 1..Len(source)] ==
        IF source[k] = SP THEN from[k + 1]
        ELSE IF Pair(k, SLASH, STAR) THEN from[CommentEnd(k)] ELSE k
  IN  from[i]
-----------------------------------------------------------------------------
(* The bytes b..(e-1) and everything they can be. *)
All(b, e, S) == \A i \in b..(e - 1) : source[i] \in S

Word(b, e) == /\ source[b] \in Letter
              /\ All(b, e, IdentChar)
              /\ source[e] \notin IdentChar

Number(b, e) == /\ \/ source[b] \in Digit
                   \/ source[b] = DOT /\ source[b + 1] \in Digit
                /\ All(b, e, NumChar)
                /\ source[e] \notin NumChar

Quoted(b, e, quote) ==
  /\ source[b] = quote
  /\ \/ /\ e - 1 > b
        /\ source[e - 1] = quote
        /\ All(b + 1, e - 1, Char \ (LineEnd \cup {quote}))
     \/ /\ source[e] \in LineEnd
        /\ All(b + 1, e, Char \ (LineEnd \cup {quote}))

Break(b, e) ==
  \/ e = b + 1 /\ source[b] = LF
  \/ e = b + 1 /\ source[b] = CR /\ source[e] # LF
  \/ e = b + 2 /\ source[b] = CR /\ source[b + 1] = LF
  \/ /\ Pair(b, SLASH, SLASH)          \* a line comment reads as a break
     /\ All(b, e, Char \ LineEnd)
     /\ source[e] \in LineEnd

Sign(b, e) ==
  /\ e = b + 1
  /\ source[b] \in Punct \cup {STAR, SLASH, DOT}
  /\ ~Pair(b, SLASH, SLASH)
  /\ source[b] = DOT => source[e] \notin Digit

(* The kinds the bytes b..(e-1) can be read as. *)
Kinds(b, e) ==
  IF b = e - 1 /\ source[b] = NUL THEN {"eof"}
  ELSE IF e > Len(source) THEN {}
  ELSE {k \in {"identifier", "keyword"} : Word(b, e)}
       \cup {k \in {"number"} : Number(b, e)}
       \cup {k \in {"string"} : Quoted(b, e, DQ)}
       \cup {k \in {"char"} : Quoted(b, e, SQ)}
       \cup {k \in {"break"} : Break(b, e)}
       \cup {k \in {"sign"} : Sign(b, e)}

Lexeme(kind, b, e) == [kind |-> kind, first |-> b, after |-> e]

At == IF out = << >> THEN 1 ELSE out[Len(out)].after
-----------------------------------------------------------------------------
Init == /\ source \in Seq(Char)
        /\ source # << >> /\ source[Len(source)] = NUL
        /\ out = << >>
        /\ done = FALSE

Cut == /\ ~done
       /\ At <= Len(source)
       /\ LET b == NextLexeme(At)
          IN  \E e \in (b + 1)..(Len(source) + 1) : \E k \in Kinds(b, e) :
                out' = Append(out, Lexeme(k, b, e))
       /\ UNCHANGED <<source, done>>

HandOver == /\ ~done
            /\ At > Len(source)
            /\ done' = TRUE
            /\ UNCHANGED <<source, out>>

Next == Cut \/ HandOver

Spec == Init /\ [][Next]_vars /\ WF_vars(Next)
=============================================================================
