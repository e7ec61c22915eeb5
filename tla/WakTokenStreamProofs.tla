----------------------- MODULE WakTokenStreamProofs -----------------------
(***************************************************************************)
(* The lexer cuts its source as WakTokenStream says, for every source.     *)
(* Between two cuts the lexer is on its way to the lexeme that             *)
(* WakTokenStream calls the next one; the delimiters it has counted in a   *)
(* block comment are those that WakTokenStream balances.                   *)
(***************************************************************************)
EXTENDS WakLexerProofs, WakLexerRefinement, WakInduction

-----------------------------------------------------------------------------
(* Block comments and the recursions of WakTokenStream.                    *)

(* The source is text that ends with a NUL. *)
LEMMA SourceFacts ==
  ASSUME LexerInv
  PROVE  /\ src \in Seq(Char) /\ Len(src) \in Nat \ {0} /\ src[Len(src)] = NUL
         /\ limit = Len(src) + 1 /\ ptr \in 1..limit
         /\ \A p \in 1..Len(src) : src[p] \in Char
         /\ \A p \in 1..Len(src) : src[p] # NUL => p + 1 \in 1..Len(src)
<1>1. /\ src \in Seq(Char) /\ Len(src) \in Nat \ {0} /\ src[Len(src)] = NUL
      /\ limit = Len(src) + 1 /\ ptr \in 1..limit
  BY DEF LexerInv, TypeOK, ControlOK, limit
<1>2. \A p \in 1..Len(src) : src[p] \in Char
  BY <1>1
<1>3. \A p \in 1..Len(src) : src[p] # NUL => p + 1 \in 1..Len(src)
  BY <1>1
<1> QED
  BY <1>1, <1>2, <1>3

(* Two bytes are a pair unless the first is the last of all. *)
LEMMA PairIs ==
  ASSUME LexerInv, NEW i \in 1..Len(src), NEW a, NEW b
  PROVE  Stream!Pair(i, a, b) <=> i < Len(src) /\ src[i] = a /\ src[i + 1] = b
BY SourceFacts DEF Stream!Pair

Delim(i) == Stream!Pair(i, SLASH, STAR) \/ Stream!Pair(i, STAR, SLASH)

(* Two characters are a delimiter unless the first is the end of one. *)
LEMMA DelimitersAre ==
  ASSUME LexerInv, NEW b \in 1..Len(src)
  PROVE  /\ Stream!Delimiters(b) \subseteq b..Len(src)
         /\ \A i \in b..Len(src) :
              i \in Stream!Delimiters(b)
                <=> Delim(i) /\ (i > b => i - 1 \notin Stream!Delimiters(b))
<1> DEFINE n == Len(src) - b + 1
           step == [k \in 1..n |-> [x \in {0, 1} |->
                      IF x = 0 /\ Delim(b - 1 + k) THEN 1 ELSE 0]]
           Is(f) == f = [i \in b..Len(src) |-> Delim(i) /\ (i > b => ~f[i - 1])]
<1>1. n \in Nat /\ Len(src) \in Nat
  BY SourceFacts
<1>2. step \in Steps({0, 1}, n)
  BY DEF Steps
<1>3. PICK g : Iterates(g, {0, 1}, 0, n, step)
  <2> HIDE DEF n, step
  <2> QED
    BY <1>1, <1>2, RecursionExists
<1> DEFINE f == [i \in b..Len(src) |-> g[i - b + 1] = 1]
<1>4. ASSUME NEW i \in b..Len(src)
      PROVE  g[i - b + 1] = 1 <=> Delim(i) /\ (i > b => ~(g[i - b] = 1))
  <2>1. i - b + 1 \in 1..n /\ (i - b + 1) - 1 = i - b /\ b - 1 + (i - b + 1) = i
    BY <1>1
  <2>2. g[i - b + 1] = step[i - b + 1][g[i - b]] /\ g[i - b] \in {0, 1}
    <3> HIDE DEF step, n
    <3>1. i - b \in 0..n
      BY <1>1, <2>1
    <3> QED
      BY <1>3, <2>1, <3>1 DEF Iterates
  <2>3. g[i - b + 1] = IF g[i - b] = 0 /\ Delim(i) THEN 1 ELSE 0
    BY <2>1, <2>2
  <2>4. i = b => g[i - b] = 0
    BY <1>3 DEF Iterates
  <2>5. i > b \/ i = b
    OBVIOUS
  <2> QED
    BY <2>2, <2>3, <2>4, <2>5
<1>5. Is(f)
  <2>1. \A i \in b..Len(src) : i > b => i - 1 \in b..Len(src)
    BY <1>1
  <2>2. \A i \in b..Len(src) : f[i] <=> g[i - b + 1] = 1
    OBVIOUS
  <2>3. ASSUME NEW i \in b..Len(src), i > b PROVE f[i - 1] <=> g[i - b] = 1
    <3>1. i - 1 \in b..Len(src) /\ (i - 1) - b + 1 = i - b
      BY <1>1, <2>3
    <3> QED
      BY <3>1
  <2> DEFINE h == [i \in b..Len(src) |-> Delim(i) /\ (i > b => ~f[i - 1])]
  <2>4. ASSUME NEW i \in b..Len(src) PROVE f[i] = h[i]
    <3>1. f[i] = (g[i - b + 1] = 1) /\ h[i] = (Delim(i) /\ (i > b => ~f[i - 1]))
      OBVIOUS
    <3> HIDE DEF f, h
    <3> QED
      BY <1>4, <2>3, <3>1
  <2>5. f = h
    BY <2>4
  <2> QED
    BY <2>5
<1> DEFINE isDelim == CHOOSE x : Is(x)
<1>6. Is(isDelim)
  <2> HIDE DEF Is, f
  <2> QED
    BY <1>5
<1>7. Stream!Delimiters(b) = {i \in b..Len(src) : isDelim[i]}
  BY DEF Stream!Delimiters, Delim, Stream!SLASH, Stream!STAR, SLASH, STAR
<1>8. \A i \in b..Len(src) : isDelim[i] = (Delim(i) /\ (i > b => ~isDelim[i - 1]))
  <2> HIDE DEF isDelim
  <2> QED
    BY <1>6
<1> HIDE DEF isDelim, Is
<1>9. \A i \in b..Len(src) : i > b => i - 1 \in b..Len(src)
  BY <1>1
<1>10. \A i \in b..Len(src) : i \in Stream!Delimiters(b) <=> isDelim[i]
  BY <1>7
<1> QED
  BY <1>7, <1>8, <1>9, <1>10

(* A comment ends at the first of its ends. *)
LEMMA CommentEndIs ==
  ASSUME LexerInv, NEW b \in 1..Len(src), NEW e \in Stream!CommentEnds(b),
         \A f \in Stream!CommentEnds(b) : e <= f
  PROVE  Stream!CommentEnd(b) = e
<1>1. Stream!CommentEnds(b) \subseteq Nat
  BY SourceFacts DEF Stream!CommentEnds
<1>2. \A x \in Stream!CommentEnds(b) :
        (\A f \in Stream!CommentEnds(b) : x <= f) => x = e
  BY <1>1
<1> QED
  BY <1>2 DEF Stream!CommentEnd

(* Every comment has an end, at the last NUL at the latest. *)
LEMMA CommentsEnd ==
  ASSUME LexerInv, NEW b \in 1..Len(src), Stream!Pair(b, SLASH, STAR)
  PROVE  Stream!CommentEnd(b) \in (b + 2)..Len(src)
<1>1. b < Len(src) /\ src[b + 1] = STAR
  BY PairIs
<1>2. src[Len(src)] = NUL /\ Len(src) \in Nat
  BY SourceFacts
<1>3. b + 1 # Len(src)
  BY <1>1, <1>2 DEF STAR, NUL
<1>4. Len(src) \in Stream!CommentEnds(b)
  BY <1>1, <1>2, <1>3 DEF Stream!CommentEnds, Stream!NUL, NUL
<1>5. Stream!CommentEnds(b) \subseteq Nat /\ Stream!CommentEnds(b) \subseteq (b + 2)..Len(src)
  BY <1>2 DEF Stream!CommentEnds
<1>6. PICK e \in Stream!CommentEnds(b) : \A f \in Stream!CommentEnds(b) : e <= f
  BY <1>4, <1>5, LeastElement
<1>7. Stream!CommentEnd(b) = e
  BY <1>6, CommentEndIs
<1> QED
  BY <1>5, <1>6, <1>7

(* The next lexeme is behind blanks and block comments. *)
LEMMA NextLexemeIs ==
  ASSUME LexerInv, NEW i \in 1..Len(src)
  PROVE  Stream!NextLexeme(i) =
           IF src[i] = SP THEN Stream!NextLexeme(i + 1)
           ELSE IF Stream!Pair(i, SLASH, STAR) THEN Stream!NextLexeme(Stream!CommentEnd(i))
           ELSE i
<1> DEFINE n == Len(src)
           jump == [k \in 1..n |-> IF src[k] = SP THEN k + 1
                                   ELSE IF Stream!Pair(k, SLASH, STAR)
                                   THEN Stream!CommentEnd(k) ELSE k]
           Is(f) == f = [k \in 1..n |-> IF src[k] = SP THEN f[k + 1]
                                        ELSE IF Stream!Pair(k, SLASH, STAR)
                                        THEN f[Stream!CommentEnd(k)] ELSE k]
<1>1. n \in Nat /\ \A k \in 1..n : src[k] = SP => k + 1 \in 1..n
  BY SourceFacts DEF SP, NUL
<1>2. \A k \in 1..n : Stream!Pair(k, SLASH, STAR) =>
                       Stream!CommentEnd(k) \in (k + 2)..n
  BY CommentsEnd
<1>3. jump \in Jumps(n)
  BY <1>1, <1>2 DEF Jumps
<1>4. PICK f \in [1..n -> Nat] :
        \A k \in 1..n : f[k] = IF jump[k] = k THEN k ELSE f[jump[k]]
  <2> HIDE DEF n, jump
  <2> QED
    BY <1>1, <1>3, FollowingExists
<1>5. Is(f)
  <2> DEFINE h == [k \in 1..n |-> IF src[k] = SP THEN f[k + 1]
                                  ELSE IF Stream!Pair(k, SLASH, STAR)
                                  THEN f[Stream!CommentEnd(k)] ELSE k]
  <2>1. ASSUME NEW k \in 1..n PROVE f[k] = h[k]
    <3>1. jump[k] = IF src[k] = SP THEN k + 1
                    ELSE IF Stream!Pair(k, SLASH, STAR) THEN Stream!CommentEnd(k) ELSE k
      OBVIOUS
    <3>2. h[k] = IF src[k] = SP THEN f[k + 1]
                 ELSE IF Stream!Pair(k, SLASH, STAR) THEN f[Stream!CommentEnd(k)] ELSE k
      OBVIOUS
    <3>3. f[k] = IF jump[k] = k THEN k ELSE f[jump[k]]
      BY <1>4
    <3> HIDE DEF jump, h
    <3> QED
      BY <1>1, <1>2, <3>1, <3>2, <3>3
  <2>2. f = h
    BY <2>1
  <2> QED
    BY <2>2
<1> DEFINE from == CHOOSE x : Is(x)
<1>6. Is(from)
  <2> HIDE DEF Is
  <2> QED
    BY <1>5
<1>7. \A k : Stream!NextLexeme(k) = from[k]
  BY DEF Stream!NextLexeme, Stream!SP, SP, Stream!SLASH, Stream!STAR, SLASH, STAR
<1>8. from[i] = IF src[i] = SP THEN from[i + 1]
                ELSE IF Stream!Pair(i, SLASH, STAR) THEN from[Stream!CommentEnd(i)] ELSE i
  <2> HIDE DEF from
  <2> QED
    BY <1>6
<1> HIDE DEF from
<1> QED
  BY <1>7, <1>8

-----------------------------------------------------------------------------
(* Inside a block comment that begins at c.                                *)

(* The delimiters before p that open (x a slash) or close (x a star). *)
Passed(c, p, x) == {i \in Stream!Delimiters(c) : i + 2 <= p /\ src[i] = x}

WithinComment(c, p, d) ==
  /\ Stream!Pair(c, SLASH, STAR)
  /\ p \in (c + 2)..Len(src)
  /\ p - 1 \notin Stream!Delimiters(c)
  /\ Cardinality(Passed(c, p, SLASH)) = Cardinality(Passed(c, p, STAR)) + d
  /\ \A e \in (c + 2)..(p - 1) : e \notin Stream!CommentEnds(c)

(* Both modules count alike. *)
LEMMA SameCardinality == ASSUME NEW S PROVE Stream!Cardinality(S) = Cardinality(S)
BY DEF Cardinality, Stream!Cardinality

(* The delimiters passed can be counted. *)
LEMMA PassedAreFinite ==
  ASSUME LexerInv, NEW c \in 1..Len(src), NEW p \in Nat, NEW x
  PROVE  IsFiniteSet(Passed(c, p, x)) /\ Cardinality(Passed(c, p, x)) \in Nat
<1> DEFINE S == Passed(c, p, x)
<1>1. S \in SUBSET (c..Len(src)) /\ IsFiniteSet(c..Len(src))
  BY SourceFacts, DelimitersAre, FS_Interval DEF Passed
<1> HIDE DEF S
<1>2. IsFiniteSet(S)
  BY <1>1, FS_Subset
<1>3. Cardinality(S) \in Nat
  BY <1>2, FS_CardinalityType
<1> QED
  BY <1>2, <1>3 DEF S

(* A comment is balanced where as many were passed of one as of the other. *)
LEMMA BalancedIs ==
  ASSUME NEW c, NEW e
  PROVE  Stream!Balanced(c, e)
           <=> Cardinality(Passed(c, e, SLASH)) = Cardinality(Passed(c, e, STAR))
<1> DEFINE D(x) == {i \in {j \in Stream!Delimiters(c) : j + 2 <= e} : src[i] = x}
<1>1. D(SLASH) = Passed(c, e, SLASH) /\ D(STAR) = Passed(c, e, STAR)
  BY DEF Passed
<1>2. Stream!Balanced(c, e) <=> Stream!Cardinality(D(SLASH)) = Stream!Cardinality(D(STAR))
  BY DEF Stream!Balanced, Stream!SLASH, Stream!STAR, SLASH, STAR
<1> HIDE DEF D
<1> QED
  BY <1>1, <1>2, SameCardinality

(* A byte that begins no delimiter is passed alone. *)
LEMMA PassByte ==
  ASSUME LexerInv, NEW c \in 1..Len(src), NEW p \in (c + 1)..Len(src), NEW x,
         p - 1 \notin Stream!Delimiters(c)
  PROVE  /\ Passed(c, p + 1, x) = Passed(c, p, x)
         /\ ~Delim(p) => p \notin Stream!Delimiters(c)
<1>1. Stream!Delimiters(c) \subseteq c..Len(src) /\ Len(src) \in Nat
  BY SourceFacts, DelimitersAre
<1>2. \A i \in Stream!Delimiters(c) : i + 2 <= p + 1 <=> i + 2 <= p
  BY <1>1
<1>3. ~Delim(p) => p \notin Stream!Delimiters(c)
  <2>1. p \in c..Len(src)
    BY <1>1
  <2> QED
    BY <2>1, DelimitersAre
<1> QED
  BY <1>2, <1>3 DEF Passed

(* The two bytes of a delimiter are passed together. *)
LEMMA PassDelimiter ==
  ASSUME LexerInv, NEW c \in 1..Len(src), NEW p \in c..Len(src),
         p = c \/ p - 1 \notin Stream!Delimiters(c),
         Delim(p)
  PROVE  /\ p + 1 \notin Stream!Delimiters(c) /\ p < Len(src) /\ p + 2 \in (c + 2)..Len(src)
         /\ \A x : src[p] # x => Passed(c, p + 2, x) = Passed(c, p, x)
         /\ Cardinality(Passed(c, p + 2, src[p])) = Cardinality(Passed(c, p, src[p])) + 1
<1>1. Stream!Delimiters(c) \subseteq c..Len(src) /\ Len(src) \in Nat
  BY SourceFacts, DelimitersAre
<1>2. p \in Stream!Delimiters(c)
  <2>1. p > c => p - 1 \notin Stream!Delimiters(c)
    BY <1>1
  <2> QED
    BY <2>1, DelimitersAre
<1>3. p < Len(src) /\ (src[p + 1] = STAR \/ src[p + 1] = SLASH)
  <2>1. p \in 1..Len(src)
    BY <1>1
  <2> QED
    BY <2>1, PairIs DEF Delim
<1>4. p + 1 \notin Stream!Delimiters(c)
  <2>1. p + 1 \in c..Len(src) /\ p + 1 > c /\ (p + 1) - 1 = p
    BY <1>1, <1>3
  <2> QED
    BY <1>2, <2>1, DelimitersAre
<1>5. p + 1 # Len(src)
  BY <1>3, SourceFacts DEF STAR, SLASH, NUL
<1>6. \A i \in Stream!Delimiters(c) : i + 2 <= p + 2 <=> i + 2 <= p \/ i = p
  <2>1. p - 1 \notin Stream!Delimiters(c)
    BY <1>1
  <2> QED
    BY <1>1, <2>1
<1>7. \A x : src[p] # x => Passed(c, p + 2, x) = Passed(c, p, x)
  BY <1>6 DEF Passed
<1> DEFINE S == Passed(c, p, src[p])
<1>8. Passed(c, p + 2, src[p]) = S \cup {p} /\ p \notin S
  BY <1>1, <1>2, <1>6 DEF Passed
<1>9. IsFiniteSet(S)
  <2>1. p \in Nat
    BY <1>1
  <2> QED
    BY <2>1, PassedAreFinite
<1> HIDE DEF S
<1>10. Cardinality(S \cup {p}) = Cardinality(S) + 1
  BY <1>8, <1>9, FS_AddElement
<1>11. Cardinality(Passed(c, p + 2, src[p])) = Cardinality(Passed(c, p, src[p])) + 1
  <2>1. Cardinality(Passed(c, p + 2, src[p])) = Cardinality(S) + 1
    BY <1>8, <1>10
  <2> QED
    BY <2>1 DEF S
<1>12. p + 2 \in (c + 2)..Len(src)
  BY <1>1, <1>3, <1>5
<1> QED
  BY <1>3, <1>4, <1>7, <1>11, <1>12

(* Behind its first delimiter a comment is one deep. *)
LEMMA CommentBegins ==
  ASSUME LexerInv, NEW c \in 1..Len(src), Stream!Pair(c, SLASH, STAR)
  PROVE  WithinComment(c, c + 2, 1)
<1>1. src[c] = SLASH /\ SLASH # STAR /\ Delim(c) /\ c \in c..Len(src)
  BY PairIs, SourceFacts DEF SLASH, STAR, Delim
<1>2. /\ (c + 2) - 1 \notin Stream!Delimiters(c) /\ c + 2 \in (c + 2)..Len(src)
      /\ Passed(c, c + 2, STAR) = Passed(c, c, STAR)
      /\ Cardinality(Passed(c, c + 2, SLASH)) = Cardinality(Passed(c, c, SLASH)) + 1
  <2>1. (c + 2) - 1 = c + 1
    OBVIOUS
  <2> QED
    BY <1>1, <2>1, PassDelimiter
<1>3. \A x : Passed(c, c, x) = {}
  BY DelimitersAre, SourceFacts DEF Passed
<1>4. Cardinality({}) = 0
  BY FS_EmptySet
<1>5. \A e \in (c + 2)..((c + 2) - 1) : FALSE
  OBVIOUS
<1> QED
  BY <1>2, <1>3, <1>4, <1>5 DEF WithinComment

(* Inside it, with d comments open, the comment does not end but at a NUL. *)
LEMMA NoEndInside ==
  ASSUME LexerInv, NEW c \in 1..Len(src), NEW p \in 1..Len(src), NEW e,
         NEW d \in Nat \ {0}, WithinComment(c, p, d), src[e] # NUL,
         \A x : Passed(c, e, x) = Passed(c, p, x)
  PROVE  e \notin Stream!CommentEnds(c)
<1>1. Cardinality(Passed(c, p, STAR)) \in Nat
  BY PassedAreFinite
<1>2. ~Stream!Balanced(c, e)
  BY <1>1, BalancedIs DEF WithinComment
<1> QED
  BY <1>2 DEF Stream!CommentEnds, Stream!NUL, NUL

(* Where it first ends, the comment ends. *)
LEMMA FirstEnd ==
  ASSUME LexerInv, NEW c \in 1..Len(src), NEW p \in (c + 2)..Len(src),
         \A e \in (c + 2)..(p - 1) : e \notin Stream!CommentEnds(c),
         src[p] = NUL \/ Stream!Balanced(c, p)
  PROVE  Stream!CommentEnd(c) = p
<1>1. p \in Stream!CommentEnds(c)
  BY DEF Stream!CommentEnds, Stream!NUL, NUL
<1>2. \A f \in Stream!CommentEnds(c) : f \in (c + 2)..Len(src) /\ Len(src) \in Nat
  BY SourceFacts DEF Stream!CommentEnds
<1>3. \A f \in Stream!CommentEnds(c) : p <= f
  BY <1>2
<1> QED
  BY <1>1, <1>3, CommentEndIs

(* One iteration of the loop, and where it leaves the loop. *)
LEMMA CommentStep ==
  ASSUME LexerInv, NEW c \in 1..Len(src), NEW p \in 1..Len(src),
         NEW d \in Nat \ {0}, WithinComment(c, p, d), src[p] # NUL,
         NEW e, e = IF Opens(p) THEN d + 1 ELSE IF Closes(p) THEN d - 1 ELSE d,
         NEW q, q = IF Opens(p) \/ Closes(p) THEN p + 2 ELSE p + 1
  PROVE  WithinComment(c, q, e) /\ (e = 0 => Stream!CommentEnd(c) = q)
<1>1. /\ Len(src) \in Nat /\ p < Len(src) /\ p \in (c + 2)..Len(src)
      /\ p \in c..Len(src) /\ p - 1 \notin Stream!Delimiters(c)
  BY SourceFacts DEF WithinComment
<1>2. /\ Stream!Pair(p, SLASH, STAR) <=> Opens(p)
      /\ Stream!Pair(p, STAR, SLASH) <=> Closes(p)
  BY <1>1, PairIs DEF Opens, Closes
<1>3. p \notin Stream!CommentEnds(c)
  BY NoEndInside
<1>4. /\ Cardinality(Passed(c, p, SLASH)) \in Nat /\ Cardinality(Passed(c, p, STAR)) \in Nat
      /\ Cardinality(Passed(c, p, SLASH)) = Cardinality(Passed(c, p, STAR)) + d
  BY PassedAreFinite DEF WithinComment
<1>5. \A x : Passed(c, p + 1, x) = Passed(c, p, x)
  BY <1>1, PassByte
<1>6. CASE Delim(p)
  <2>1. /\ p + 1 \notin Stream!Delimiters(c) /\ p + 2 \in (c + 2)..Len(src)
        /\ \A x : src[p] # x => Passed(c, p + 2, x) = Passed(c, p, x)
        /\ Cardinality(Passed(c, p + 2, src[p])) = Cardinality(Passed(c, p, src[p])) + 1
    BY <1>1, <1>6, PassDelimiter
  <2>2. q = p + 2 /\ src[p + 1] # NUL
    BY <1>2, <1>6 DEF Delim, Opens, Closes, STAR, SLASH, NUL
  <2>3. p + 1 \notin Stream!CommentEnds(c)
    BY <1>5, <2>2, NoEndInside
  <2>4. Cardinality(Passed(c, q, SLASH)) = Cardinality(Passed(c, q, STAR)) + e
    <3>1. SLASH # STAR
      BY DEF SLASH, STAR
    <3>2. CASE Opens(p)
      <4>1. src[p] = SLASH /\ e = d + 1
        BY <3>2 DEF Opens
      <4> QED
        BY <1>4, <2>1, <2>2, <3>1, <4>1
    <3>3. CASE Closes(p)
      <4>1. src[p] = STAR /\ e = d - 1
        BY <3>1, <3>3 DEF Opens, Closes
      <4> QED
        BY <1>4, <2>1, <2>2, <3>1, <4>1
    <3> QED
      BY <1>2, <1>6, <3>2, <3>3 DEF Delim
  <2>5. q \in (c + 2)..Len(src) /\ q - 1 \notin Stream!Delimiters(c)
    <3>1. q - 1 = p + 1
      BY <1>1, <2>2
    <3> QED
      BY <2>1, <2>2, <3>1
  <2>6. \A f \in (c + 2)..(q - 1) : f \notin Stream!CommentEnds(c)
    <3>1. \A f \in (c + 2)..(q - 1) : f \in (c + 2)..(p - 1) \/ f = p \/ f = p + 1
      BY <1>1, <2>2
    <3> QED
      BY <1>3, <2>3, <3>1 DEF WithinComment
  <2>7. WithinComment(c, q, e)
    BY <2>4, <2>5, <2>6 DEF WithinComment
  <2>8. e = 0 => Stream!Balanced(c, q)
    <3>1. ASSUME e = 0
          PROVE  Cardinality(Passed(c, q, SLASH)) = Cardinality(Passed(c, q, STAR))
      <4>1. Cardinality(Passed(c, q, STAR)) \in Nat
        BY <1>1, <2>2, PassedAreFinite
      <4> QED
        BY <2>4, <3>1, <4>1
    <3> QED
      BY <3>1, BalancedIs
  <2> QED
    BY <2>5, <2>6, <2>7, <2>8, FirstEnd
<1>7. CASE ~Delim(p)
  <2>1. q = p + 1 /\ e = d
    BY <1>2, <1>7 DEF Delim
  <2>2. p \notin Stream!Delimiters(c)
    BY <1>1, <1>7, PassByte
  <2>3. q \in (c + 2)..Len(src) /\ q - 1 = p
    BY <1>1, <2>1
  <2>4. \A f \in (c + 2)..(q - 1) : f \notin Stream!CommentEnds(c)
    <3>1. \A f \in (c + 2)..(q - 1) : f \in (c + 2)..(p - 1) \/ f = p
      BY <1>1, <2>1
    <3> QED
      BY <1>3, <3>1 DEF WithinComment
  <2>5. Cardinality(Passed(c, q, SLASH)) = Cardinality(Passed(c, q, STAR)) + e
    BY <1>4, <1>5, <2>1
  <2> QED
    BY <2>1, <2>2, <2>3, <2>4, <2>5 DEF WithinComment
<1> QED
  BY <1>6, <1>7

-----------------------------------------------------------------------------
(* Between the cuts.                                                       *)

(* From where the last lexeme ended, the next lexeme is the one from b.    *)
Leads(b) ==
  /\ Stream!At \in 1..b
  /\ IF b = limit THEN Stream!At = limit
                  ELSE Stream!NextLexeme(Stream!At) = Stream!NextLexeme(b)

CutInv ==
  /\ pc \in {"lex_dispatch", "lexer_next"} => Leads(ptr)
  /\ pc \in Handlers \cup {"multi_comment_loop"} =>
       /\ token_pos.start \in 1..Len(src) /\ src[token_pos.start] # SP
       /\ Leads(token_pos.start)
  /\ pc = "lex_parse_num_literal" => src[ptr] \in Digit \/ src[ptr + 1] \in Digit
  /\ pc = "multi_comment_loop" => WithinComment(token_pos.start, ptr, depth)

(* The abstract stream ends where the last token does. *)
LEMMA AtIs ==
  ASSUME LexerInv
  PROVE  Stream!At = IF tok_count = 0 THEN 1 ELSE pos_array[tok_count].end
<1> DEFINE s == [i \in 1..tok_count |-> LexemeOf(i)]
<1>1. tok_count \in Nat
  BY DEF LexerInv, TypeOK, tok_count
<1>2. Len(s) = tok_count /\ (s = << >> <=> tok_count = 0)
  BY <1>1
<1>3. tok_count # 0 => s[tok_count].after = pos_array[tok_count].end
  BY <1>1 DEF LexemeOf
<1>4. Stream!At = IF s = << >> THEN 1 ELSE s[Len(s)].after
  BY DEF Stream!At
<1> QED
  BY <1>2, <1>3, <1>4

(* What WakTokenStream says of a source changes with the source only. *)
LEMMA SameLexemes ==
  ASSUME UNCHANGED src
  PROVE  /\ \A i : Stream!NextLexeme(i)' = Stream!NextLexeme(i)
         /\ \A c, p, d : WithinComment(c, p, d)' = WithinComment(c, p, d)
<1>1. \A i : Stream!NextLexeme(i)' = Stream!NextLexeme(i)
  BY DEF Stream!NextLexeme, Stream!CommentEnd, Stream!CommentEnds, Stream!Balanced,
         Stream!Delimiters, Stream!Pair
<1>2. \A c, p, d : WithinComment(c, p, d)' = WithinComment(c, p, d)
  BY DEF WithinComment, Passed, Stream!CommentEnds, Stream!Balanced, Stream!Delimiters,
         Stream!Pair
<1> QED
  BY <1>1, <1>2

(* The abstract stream changes with the source, the tokens and the return. *)
LEMMA Stutters ==
  ASSUME UNCHANGED <<src, tok_array, pos_array>>, pc' = "return" <=> pc = "return"
  PROVE  UNCHANGED Stream!vars /\ Stream!At' = Stream!At
<1>1. tok_count' = tok_count
  BY DEF tok_count
<1>2. ASSUME NEW i PROVE LexemeOf(i)' = LexemeOf(i)
  BY DEF LexemeOf, KindOf
<1> DEFINE s == [i \in 1..tok_count |-> LexemeOf(i)]
<1>3. s' = s
  BY <1>1, <1>2
<1>4. (pc = "return")' = (pc = "return")
  OBVIOUS
<1>5. Stream!vars = <<src, s, pc = "return">>
  BY DEF Stream!vars
<1>6. Stream!vars' = <<src', s', (pc = "return")'>>
  BY DEF Stream!vars
<1>7. Stream!At = IF s = << >> THEN 1 ELSE s[Len(s)].after
  BY DEF Stream!At
<1>8. Stream!At' = IF s' = << >> THEN 1 ELSE s'[Len(s')].after
  BY DEF Stream!At
<1> HIDE DEF s
<1> QED
  BY <1>3, <1>4, <1>5, <1>6, <1>7, <1>8

(* A sequence that is longer by one has been appended to. *)
LEMMA LongerByOne ==
  ASSUME NEW n \in Nat, NEW f, f = [i \in 1..n |-> f[i]],
         NEW g, g = [i \in 1..(n + 1) |-> g[i]], \A i \in 1..n : g[i] = f[i]
  PROVE  g = Append(f, g[n + 1])
<1> DEFINE S == {f[i] : i \in 1..n} \cup {g[n + 1]}
<1>1. \A i \in 1..(n + 1) : g[i] \in S
  <2>1. (\A i \in 1..n : f[i] \in S) /\ g[n + 1] \in S
    OBVIOUS
  <2>2. \A i \in 1..(n + 1) : i \in 1..n \/ i = n + 1
    OBVIOUS
  <2> HIDE DEF S
  <2> QED
    BY <2>1, <2>2
<1>2. f \in Seq(S) /\ Len(f) = n
  <2>1. \A i \in 1..n : f[i] \in S
    OBVIOUS
  <2> HIDE DEF S
  <2> QED
    BY <2>1
<1>3. g \in Seq(S) /\ Len(g) = n + 1
  <2> HIDE DEF S
  <2> QED
    BY <1>1
<1>4. g[n + 1] \in S
  OBVIOUS
<1> HIDE DEF S
<1>5. /\ Append(f, g[n + 1]) \in Seq(S) /\ Len(Append(f, g[n + 1])) = n + 1
      /\ \A i \in 1..n : Append(f, g[n + 1])[i] = f[i]
      /\ Append(f, g[n + 1])[n + 1] = g[n + 1]
  BY <1>2, <1>4, AppendProperties
<1>6. \A i \in 1..(n + 1) : i \in 1..n \/ i = n + 1
  OBVIOUS
<1>7. \A i \in 1..(n + 1) : g[i] = Append(f, g[n + 1])[i]
  BY <1>5, <1>6
<1> QED
  BY <1>3, <1>5, <1>7, SeqEqual

Lexemes == [i \in 1..tok_count |-> LexemeOf(i)]

(* A token appended is a lexeme appended. *)
LEMMA AppendsALexeme ==
  ASSUME LexerInv, UNCHANGED src, NEW tok, NEW pos \in Token_Pos, NEW q \in Nat,
         lex_append_tok(tok, pos, q), pc' \notin {"oom", "overflow"}
  PROVE  /\ Lexemes' = Append(Lexemes,
                              Stream!Lexeme(KindOf(tok, SubSeq(src, pos.start, q - 1)),
                                            pos.start, q))
         /\ Stream!At' = q
<1> DEFINE n == tok_count
           p == [pos EXCEPT !.end = q]
           x == Stream!Lexeme(KindOf(tok, SubSeq(src, pos.start, q - 1)), pos.start, q)
<1>1. /\ tok_array \in Seq(Token) /\ pos_array \in Seq(Token_Pos)
      /\ Len(pos_array) = n /\ Len(tok_array) = n /\ n \in Nat
  BY DEF LexerInv, TypeOK, tok_count
<1>2. tok_array' = Append(tok_array, tok) /\ pos_array' = Append(pos_array, p)
  BY DEF lex_append_tok
<1>3. /\ tok_count' = n + 1
      /\ \A i \in 1..n : tok_array'[i] = tok_array[i] /\ pos_array'[i] = pos_array[i]
      /\ tok_array'[n + 1] = tok /\ pos_array'[n + 1] = p
  BY <1>1, <1>2 DEF tok_count
<1>4. p.start = pos.start /\ p.end = q
  BY DEF Token_Pos
<1> HIDE DEF p, n
<1>5. ASSUME NEW i \in 1..n PROVE LexemeOf(i)' = LexemeOf(i)
  BY <1>3 DEF LexemeOf, KindOf
<1>6. ASSUME NEW i, i = n + 1 PROVE LexemeOf(i)' = x
  BY <1>3, <1>4, <1>6 DEF LexemeOf, KindOf, Stream!Lexeme
<1> HIDE DEF x
<1>7. Lexemes' = [i \in 1..(n + 1) |-> LexemeOf(i)']
  BY <1>3 DEF Lexemes
<1>8. Lexemes = [i \in 1..n |-> LexemeOf(i)]
  BY DEF Lexemes, n
<1>9. /\ \A i \in 1..n : Lexemes'[i] = Lexemes[i]
      /\ Lexemes'[n + 1] = x
  BY <1>1, <1>5, <1>6, <1>7, <1>8
<1>10. Lexemes' = Append(Lexemes, x)
  <2>1. Lexemes' = [i \in 1..(n + 1) |-> Lexemes'[i]] /\ Lexemes = [i \in 1..n |-> Lexemes[i]]
    BY <1>7, <1>8
  <2> QED
    BY <1>1, <1>9, <2>1, LongerByOne
<1>11. Stream!At' = q
  <2>1. Stream!At' = IF Lexemes' = << >> THEN 1 ELSE Lexemes'[Len(Lexemes')].after
    BY DEF Stream!At, Lexemes
  <2>2. Len(Lexemes') = n + 1 /\ Lexemes' # << >>
    BY <1>1, <1>7
  <2>3. x.after = q
    BY DEF x, Stream!Lexeme
  <2> QED
    BY <1>9, <2>1, <2>2, <2>3
<1> QED
  BY <1>10, <1>11 DEF x

(* A token that is one of the kinds its bytes can be read as is a cut. *)
LEMMA Cuts ==
  ASSUME LexerInv, UNCHANGED src, pc \notin Stopped,
         NEW tok, NEW pos \in Token_Pos, NEW q \in (pos.start + 1)..limit,
         lex_append_tok(tok, pos, q),
         pos.start \in 1..Len(src), src[pos.start] # SP, Leads(pos.start),
         ~Stream!Pair(pos.start, SLASH, STAR),
         KindOf(tok, SubSeq(src, pos.start, q - 1)) \in Stream!Kinds(pos.start, q)
  PROVE  CutInv' /\ (Stream!Cut \/ UNCHANGED Stream!vars)
<1> DEFINE b == pos.start
           kind == KindOf(tok, SubSeq(src, b, q - 1))
<1>1. Len(src) \in Nat /\ limit = Len(src) + 1 /\ q \in Nat
  BY SourceFacts
<1>2. ptr' = q /\ pc' \in {"lex_dispatch", "oom", "overflow"}
  BY DEF lex_append_tok
<1>3. CASE pc' \in {"oom", "overflow"}
  <2>1. UNCHANGED <<tok_array, pos_array>> /\ pc # "return" /\ pc' # "return"
    BY <1>3 DEF lex_append_tok, Stopped
  <2>2. UNCHANGED Stream!vars
    BY <2>1, Stutters
  <2>3. CutInv'
    BY <1>3 DEF CutInv, Handlers
  <2> QED
    BY <2>2, <2>3
<1>4. CASE pc' \notin {"oom", "overflow"}
  <2>1. /\ Lexemes' = Append(Lexemes, Stream!Lexeme(kind, b, q))
        /\ Stream!At' = q
    BY <1>1, <1>4, AppendsALexeme
  <2>2. pc' = "lex_dispatch" /\ pc # "return"
    BY <1>2, <1>4 DEF Stopped
  <2>3. Stream!At \in 1..Len(src) /\ Stream!NextLexeme(Stream!At) = b
    <3>1. Stream!NextLexeme(b) = b
      BY NextLexemeIs
    <3>2. Stream!At \in 1..b /\ Stream!NextLexeme(Stream!At) = Stream!NextLexeme(b)
      BY <1>1 DEF Leads
    <3> QED
      BY <1>1, <3>1, <3>2
  <2>4. Stream!Cut
    <3>1. /\ ~(pc = "return") /\ Stream!At <= Len(src)
          /\ UNCHANGED <<src, pc = "return">>
      BY <1>1, <2>2, <2>3
    <3>2. \E e \in (Stream!NextLexeme(Stream!At) + 1)..(Len(src) + 1) :
            \E k \in Stream!Kinds(Stream!NextLexeme(Stream!At), e) :
              Lexemes' = Append(Lexemes, Stream!Lexeme(k, Stream!NextLexeme(Stream!At), e))
      <4>1. q \in (Stream!NextLexeme(Stream!At) + 1)..(Len(src) + 1)
        BY <1>1, <2>3
      <4>2. kind \in Stream!Kinds(Stream!NextLexeme(Stream!At), q)
        BY <2>3
      <4>3. Lexemes' = Append(Lexemes, Stream!Lexeme(kind, Stream!NextLexeme(Stream!At), q))
        BY <2>1, <2>3
      <4> HIDE DEF kind, b
      <4> QED
        BY <4>1, <4>2, <4>3
    <3> QED
      BY <3>1, <3>2 DEF Stream!Cut, Lexemes
  <2>5. CutInv'
    <3>1. limit' = limit
      BY DEF limit
    <3>2. Leads(ptr)'
      BY <1>1, <1>2, <2>1, <3>1 DEF Leads
    <3> QED
      BY <2>2, <3>2 DEF CutInv, Handlers
  <2> QED
    BY <2>4, <2>5
<1> QED
  BY <1>3, <1>4

(* What a token is told by. *)
LEMMA KindsOfTokens ==
  \A text :    /\ KindOf(TextToken("IDENTIFIER", text), text) = "identifier"
               /\ KindOf(TextToken("LITERAL_NUM", text), text) = "number"
               /\ KindOf(TextToken("LITERAL_STR", text), text) = "string"
               /\ KindOf(TextToken("LITERAL_CHAR", text), text) = "char"
               /\ KindOf(BoolToken, text) = "keyword"
               /\ KindOf(ValueToken(NUL), text) = "eof"
               /\ KindOf(ValueToken(LF), text) = "break"
               /\ \A v \in KeywordValues : KindOf(ValueToken(v), text) = "keyword"
               /\ \A v \in Char \ {NUL, LF} : KindOf(ValueToken(v), text) = "sign"
<1> USE DEF KindOf, TextToken, BoolToken, ValueToken
<1> TAKE text
<1>1. NUL \notin KeywordValues /\ LF \notin KeywordValues /\ KeywordValues \cap Char = {}
  BY TokMapAssumption DEF Char, Special
<1>2. /\ KindOf(TextToken("IDENTIFIER", text), text) = "identifier"
      /\ KindOf(TextToken("LITERAL_NUM", text), text) = "number"
      /\ KindOf(TextToken("LITERAL_STR", text), text) = "string"
      /\ KindOf(TextToken("LITERAL_CHAR", text), text) = "char"
      /\ KindOf(BoolToken, text) = "keyword"
  OBVIOUS
<1>3. /\ KindOf(ValueToken(NUL), text) = "eof"
      /\ KindOf(ValueToken(LF), text) = "break"
  BY <1>1 DEF TOKEN_EOF, TOKEN_BREAK, NUL, LF
<1>4. \A v \in KeywordValues : KindOf(ValueToken(v), text) = "keyword"
  BY <1>1 DEF TOKEN_EOF, TOKEN_BREAK
<1>5. \A v \in Char \ {NUL, LF} : KindOf(ValueToken(v), text) = "sign"
  BY <1>1 DEF TOKEN_EOF, TOKEN_BREAK
<1> QED
  BY <1>2, <1>3, <1>4, <1>5

-----------------------------------------------------------------------------
(* The functions of the lexer.                                             *)

(* Both modules have the same characters. *)
LEMMA SameChars ==
  /\ Stream!NUL = NUL /\ Stream!LF = LF /\ Stream!CR = CR /\ Stream!DOT = DOT
  /\ Stream!SLASH = SLASH /\ Stream!STAR = STAR /\ Stream!DQ = DQ /\ Stream!SQ = SQ
  /\ Stream!IdentChar = IdentChar /\ Stream!NumChar = NumChar /\ Stream!LineEnd = LineEnd
  /\ Stream!Char = Char
BY DEF Stream!NUL, Stream!LF, Stream!CR, Stream!DOT, Stream!SLASH, Stream!STAR, Stream!DQ,
       Stream!SQ, Stream!SP, Stream!IdentChar, Stream!NumChar, Stream!LineEnd, Stream!Char,
       Stream!Special, NUL, LF, CR, DOT, SLASH, STAR, DQ, SQ, SP, IdentChar, NumChar,
       LineEnd, Char, Special

(* What a lexeme inside the source can be read as. *)
LEMMA KindsAre ==
  ASSUME NEW b, NEW e, src[b] # NUL, e <= Len(src), e \in Nat, Len(src) \in Nat
  PROVE  /\ Stream!Word(b, e) => {"identifier", "keyword"} \subseteq Stream!Kinds(b, e)
         /\ Stream!Number(b, e) => "number" \in Stream!Kinds(b, e)
         /\ Stream!Quoted(b, e, DQ) => "string" \in Stream!Kinds(b, e)
         /\ Stream!Quoted(b, e, SQ) => "char" \in Stream!Kinds(b, e)
         /\ Stream!Break(b, e) => "break" \in Stream!Kinds(b, e)
         /\ Stream!Sign(b, e) => "sign" \in Stream!Kinds(b, e)
BY SameChars DEF Stream!Kinds

(* A function that is not in a comment is at the first byte of its token. *)
LEMMA AtTheToken ==
  ASSUME LexerInv, PositionInv, CutInv, pc \in Handlers, pc \notin Comments
  PROVE  /\ token_pos.start = ptr /\ token_pos \in Token_Pos
         /\ ptr \in 1..Len(src) /\ src[ptr] \in ByteAt(pc) /\ src[ptr] \in Char
         /\ src[ptr] # SP /\ Leads(ptr) /\ pc \notin Stopped
         /\ Len(src) \in Nat /\ limit = Len(src) + 1
<1>1. token_pos.start = ptr
  BY DEF PositionInv, InToken
<1>2. token_pos \in Token_Pos /\ src[ptr] \in ByteAt(pc)
  BY DEF LexerInv, TypeOK, ControlOK
<1>3. token_pos.start \in 1..Len(src) /\ src[token_pos.start] # SP /\ Leads(token_pos.start)
  BY DEF CutInv
<1>4. pc \notin Stopped
  BY DEF Handlers, Stopped
<1>5. src[ptr] \in Char /\ Len(src) \in Nat /\ limit = Len(src) + 1
  BY <1>1, <1>3, SourceFacts
<1> QED
  BY <1>1, <1>2, <1>3, <1>4, <1>5

(* The NUL. *)
LEMMA EofCuts ==
  ASSUME LexerInv, PositionInv, CutInv, lex_parse_eof
  PROVE  CutInv' /\ (Stream!Cut \/ UNCHANGED Stream!vars)
<1>1. /\ pc = "lex_parse_eof" /\ pc \in Handlers /\ pc \notin Comments /\ UNCHANGED src
      /\ lex_append_tok(ValueToken(NUL), token_pos, ptr + 1)
  BY DEF lex_parse_eof, Handlers, Comments, lex_append_tok_val, TOKEN_EOF
<1>2. /\ token_pos.start = ptr /\ token_pos \in Token_Pos
      /\ ptr \in 1..Len(src) /\ src[ptr] # SP /\ Leads(ptr) /\ pc \notin Stopped
      /\ Len(src) \in Nat /\ limit = Len(src) + 1
  BY <1>1, AtTheToken
<1>3. src[ptr] = NUL
  BY <1>1, AtTheToken DEF ByteAt
<1>4. "eof" \in Stream!Kinds(ptr, ptr + 1)
  BY <1>2, <1>3, SameChars DEF Stream!Kinds
<1>5. ~Stream!Pair(ptr, SLASH, STAR)
  BY <1>2, <1>3, PairIs DEF NUL, SLASH
<1>6. KindOf(ValueToken(NUL), SubSeq(src, ptr, (ptr + 1) - 1)) = "eof"
  BY KindsOfTokens
<1>7. ptr + 1 \in (ptr + 1)..limit
  BY <1>2
<1> QED
  BY <1>1, <1>2, <1>4, <1>5, <1>6, <1>7, Cuts

(* A word, and the keyword it may stand for. *)
LEMMA IdentifierCuts ==
  ASSUME LexerInv, PositionInv, CutInv, lex_parse_identifier
  PROVE  CutInv' /\ (Stream!Cut \/ UNCHANGED Stream!vars)
<1>1. /\ pc = "lex_parse_identifier" /\ pc \in Handlers /\ pc \notin Comments /\ UNCHANGED src
  BY DEF lex_parse_identifier, Handlers, Comments
<1>2. /\ token_pos.start = ptr /\ token_pos \in Token_Pos
      /\ ptr \in 1..Len(src) /\ src[ptr] # SP /\ Leads(ptr) /\ pc \notin Stopped
      /\ Len(src) \in Nat /\ limit = Len(src) + 1
  BY <1>1, AtTheToken
<1>3. src[ptr] \in Letter
  BY <1>1, AtTheToken DEF ByteAt
<1>4. src[ptr] # NUL /\ src[ptr] # SLASH /\ src[ptr] \in IdentChar
  BY <1>3, CharAssumption DEF Special, IdentChar
<1>5. ~Stream!Pair(ptr, SLASH, STAR)
  BY <1>2, <1>4, PairIs
<1>6. PICK q \in ScanStops(ptr + 1, IdentChar) :
        LET found == FindLen(SubSeq(src, ptr, q - 1))
        IN  \/ lex_append_tok_substr("IDENTIFIER", q)
            \/ \E i \in found :
                 IF tok_map[i].value \in BoolKeyword
                 THEN lex_append_tok(BoolToken, token_pos, q)
                 ELSE lex_append_tok_val(tok_map[i].value, q)
  BY DEF lex_parse_identifier
<1>7. /\ q \in (ptr + 1)..Len(src) /\ src[q] \notin IdentChar
      /\ \A r \in (ptr + 1)..(q - 1) : src[r] \in IdentChar
  BY DEF ScanStops
<1>8. Stream!Word(ptr, q)
  <2>1. \A r \in ptr..(q - 1) : r = ptr \/ r \in (ptr + 1)..(q - 1)
    BY <1>2, <1>7
  <2>2. \A r \in ptr..(q - 1) : src[r] \in IdentChar
    BY <1>4, <1>7, <2>1
  <2> QED
    BY <1>3, <1>7, <2>2, SameChars DEF Stream!Word, Stream!All
<1>9. {"identifier", "keyword"} \subseteq Stream!Kinds(ptr, q)
  BY <1>2, <1>4, <1>7, <1>8, KindsAre
<1> DEFINE text == SubSeq(src, ptr, q - 1)
<1>10. PICK tok : /\ lex_append_tok(tok, token_pos, q)
                  /\ KindOf(tok, text) \in {"identifier", "keyword"}
  <2>1. CASE lex_append_tok_substr("IDENTIFIER", q)
    <3>1. lex_append_tok(TextToken("IDENTIFIER", text), token_pos, q)
      BY <2>1 DEF lex_append_tok_substr
    <3>2. KindOf(TextToken("IDENTIFIER", text), text) = "identifier"
      BY KindsOfTokens
    <3> QED
      BY <3>1, <3>2
  <2>2. CASE lex_append_tok(BoolToken, token_pos, q)
    <3>1. KindOf(BoolToken, text) = "keyword"
      BY KindsOfTokens
    <3> QED
      BY <2>2, <3>1
  <2>3. ASSUME NEW i \in FindLen(text), lex_append_tok_val(tok_map[i].value, q)
        PROVE  \E tok : /\ lex_append_tok(tok, token_pos, q)
                        /\ KindOf(tok, text) \in {"identifier", "keyword"}
    <3>1. lex_append_tok(ValueToken(tok_map[i].value), token_pos, q)
      BY <2>3 DEF lex_append_tok_val
    <3>2. tok_map[i].value \in KeywordValues
      BY <2>3 DEF FindLen, KeywordValues
    <3>3. KindOf(ValueToken(tok_map[i].value), text) = "keyword"
      BY <3>2, KindsOfTokens
    <3> QED
      BY <3>1, <3>3
  <2> QED
    BY <1>6, <2>1, <2>2, <2>3
<1> HIDE DEF text
<1>11. KindOf(tok, text) \in Stream!Kinds(ptr, q)
  BY <1>9, <1>10
<1>12. KindOf(tok, SubSeq(src, token_pos.start, q - 1))
         \in Stream!Kinds(token_pos.start, q)
  BY <1>2, <1>11 DEF text
<1>13. q \in (token_pos.start + 1)..limit
  BY <1>2, <1>7
<1> QED
  BY <1>1, <1>2, <1>5, <1>10, <1>12, <1>13, Cuts

(* A number; behind lex_parse_dot a digit follows the dot. *)
LEMMA NumberCuts ==
  ASSUME LexerInv, PositionInv, CutInv, lex_parse_num_literal
  PROVE  CutInv' /\ (Stream!Cut \/ UNCHANGED Stream!vars)
<1>1. /\ pc = "lex_parse_num_literal" /\ pc \in Handlers /\ pc \notin Comments
      /\ UNCHANGED src
  BY DEF lex_parse_num_literal, Handlers, Comments
<1>2. /\ token_pos.start = ptr /\ token_pos \in Token_Pos
      /\ ptr \in 1..Len(src) /\ src[ptr] # SP /\ Leads(ptr) /\ pc \notin Stopped
      /\ Len(src) \in Nat /\ limit = Len(src) + 1
  BY <1>1, AtTheToken
<1>3. \/ src[ptr] \in Digit
      \/ src[ptr] = DOT /\ src[ptr + 1] \in Digit
  <2>1. src[ptr] \in Digit \cup {DOT}
    BY <1>1, AtTheToken DEF ByteAt
  <2>2. src[ptr] \in Digit \/ src[ptr + 1] \in Digit
    BY <1>1 DEF CutInv
  <2> QED
    BY <2>1, <2>2
<1>4. src[ptr] # NUL /\ src[ptr] # SLASH /\ src[ptr] \in NumChar
  BY <1>3, CharAssumption DEF Special, NumChar, DOT, NUL, SLASH
<1>5. ~Stream!Pair(ptr, SLASH, STAR)
  BY <1>2, <1>4, PairIs
<1>6. PICK q \in ScanStops(ptr, NumChar) : lex_append_tok_substr("LITERAL_NUM", q)
  BY DEF lex_parse_num_literal
<1>7. /\ q \in ptr..Len(src) /\ src[q] \notin NumChar
      /\ \A r \in ptr..(q - 1) : src[r] \in NumChar
  BY DEF ScanStops
<1>8. q # ptr
  BY <1>4, <1>7
<1>9. Stream!Number(ptr, q)
  BY <1>3, <1>7, SameChars DEF Stream!Number, Stream!All
<1>10. "number" \in Stream!Kinds(ptr, q)
  BY <1>2, <1>4, <1>7, <1>9, KindsAre
<1> DEFINE text == SubSeq(src, ptr, q - 1)
<1>11. lex_append_tok(TextToken("LITERAL_NUM", text), token_pos, q)
  BY <1>6 DEF lex_append_tok_substr
<1>12. KindOf(TextToken("LITERAL_NUM", text), text) \in Stream!Kinds(ptr, q)
  BY <1>10, KindsOfTokens
<1> HIDE DEF text
<1>13. KindOf(TextToken("LITERAL_NUM", text), SubSeq(src, token_pos.start, q - 1))
         \in Stream!Kinds(token_pos.start, q)
  BY <1>2, <1>12 DEF text
<1>14. q \in (token_pos.start + 1)..limit
  BY <1>2, <1>7, <1>8
<1> QED
  BY <1>1, <1>2, <1>5, <1>11, <1>13, <1>14, Cuts

(* A literal in quotes, closed or cut off by the end of the line. *)
LEMMA QuotedCuts ==
  ASSUME LexerInv, PositionInv, CutInv, pc \in Handlers, pc \notin Comments,
         NEW quote \in {DQ, SQ}, src[ptr] = quote,
         NEW type, NEW kind, QuotedLiteral(quote, type),
         \A text : KindOf(TextToken(type, text), text) = kind,
         \A q \in Nat : src[ptr] # NUL /\ q <= Len(src) /\ Stream!Quoted(ptr, q, quote) =>
                          kind \in Stream!Kinds(ptr, q)
  PROVE  CutInv' /\ (Stream!Cut \/ UNCHANGED Stream!vars)
<1>1. UNCHANGED src
  BY DEF QuotedLiteral
<1>2. /\ token_pos.start = ptr /\ token_pos \in Token_Pos
      /\ ptr \in 1..Len(src) /\ src[ptr] # SP /\ Leads(ptr) /\ pc \notin Stopped
      /\ Len(src) \in Nat /\ limit = Len(src) + 1
  BY AtTheToken
<1>4. src[ptr] # NUL /\ src[ptr] # SLASH /\ quote \notin LineEnd
  BY DEF DQ, SQ, NUL, SLASH, LF, CR, LineEnd
<1>5. ~Stream!Pair(ptr, SLASH, STAR)
  BY <1>2, <1>4, PairIs
<1> DEFINE Inside == Char \ (LineEnd \cup {quote})
<1>6. PICK p \in ScanStops(ptr + 1, Inside) :
        lex_append_tok_substr(type, IF src[p] = quote THEN p + 1 ELSE p)
  BY DEF QuotedLiteral
<1>7. /\ p \in (ptr + 1)..Len(src) /\ src[p] \notin Inside
      /\ \A r \in (ptr + 1)..(p - 1) : src[r] \in Inside
  BY DEF ScanStops
<1>8. src[p] = quote \/ src[p] \in LineEnd
  <2>1. src[p] \in Char
    BY <1>2, <1>7, SourceFacts
  <2> QED
    BY <1>7, <2>1
<1> DEFINE q == IF src[p] = quote THEN p + 1 ELSE p
<1>9. q \in (ptr + 1)..Len(src)
  <2>1. src[p] = quote => p + 1 \in 1..Len(src)
    <3>1. p \in 1..Len(src) /\ quote # NUL
      BY <1>2, <1>4, <1>7
    <3> QED
      BY <3>1, SourceFacts
  <2> QED
    BY <1>2, <1>7, <2>1
<1>10. Stream!Quoted(ptr, q, quote)
  <2>1. CASE src[p] = quote
    <3>1. q = p + 1 /\ q - 1 = p /\ q - 1 > ptr /\ (q - 1) - 1 = p - 1
      BY <1>2, <1>7, <2>1
    <3> HIDE DEF q
    <3>2. Stream!All(ptr + 1, q - 1, Inside)
      BY <1>7, <3>1 DEF Stream!All
    <3> QED
      BY <2>1, <3>1, <3>2, SameChars DEF Stream!Quoted
  <2>2. CASE src[p] # quote
    <3>1. q = p /\ src[q] \in LineEnd
      BY <1>8, <2>2
    <3> HIDE DEF q
    <3>2. Stream!All(ptr + 1, q, Inside)
      BY <1>7, <3>1 DEF Stream!All
    <3> QED
      BY <3>1, <3>2, SameChars DEF Stream!Quoted
  <2> QED
    BY <2>1, <2>2
<1>11. lex_append_tok_substr(type, q)
  BY <1>6
<1> HIDE DEF q
<1> DEFINE text == SubSeq(src, ptr, q - 1)
<1>12. kind \in Stream!Kinds(ptr, q)
  <2>1. q \in Nat /\ q <= Len(src)
    BY <1>2, <1>9
  <2> QED
    BY <1>4, <1>10, <2>1
<1>13. lex_append_tok(TextToken(type, text), token_pos, q)
  BY <1>11 DEF lex_append_tok_substr
<1>14. KindOf(TextToken(type, text), text) = kind
  OBVIOUS
<1> HIDE DEF text
<1>15. KindOf(TextToken(type, text), SubSeq(src, token_pos.start, q - 1))
         \in Stream!Kinds(token_pos.start, q)
  BY <1>2, <1>12, <1>14 DEF text
<1>16. q \in (token_pos.start + 1)..limit
  BY <1>2, <1>9
<1> QED
  BY <1>1, <1>2, <1>5, <1>13, <1>15, <1>16, Cuts

(* A string literal. *)
LEMMA StringCuts ==
  ASSUME LexerInv, PositionInv, CutInv, lex_parse_string_literal
  PROVE  CutInv' /\ (Stream!Cut \/ UNCHANGED Stream!vars)
<1>1. /\ pc = "lex_parse_string_literal" /\ pc \in Handlers /\ pc \notin Comments
      /\ QuotedLiteral(DQ, "LITERAL_STR")
  BY DEF lex_parse_string_literal, Handlers, Comments
<1>2. src[ptr] = DQ /\ Len(src) \in Nat
  BY <1>1, AtTheToken DEF ByteAt
<1>3. \A text : KindOf(TextToken("LITERAL_STR", text), text) = "string"
  BY KindsOfTokens
<1>4. \A q \in Nat : src[ptr] # NUL /\ q <= Len(src) /\ Stream!Quoted(ptr, q, DQ) =>
                       "string" \in Stream!Kinds(ptr, q)
  BY <1>2, KindsAre
<1> QED
  BY <1>1, <1>2, <1>3, <1>4, QuotedCuts

(* A character literal. *)
LEMMA CharCuts ==
  ASSUME LexerInv, PositionInv, CutInv, lex_parse_char_literal
  PROVE  CutInv' /\ (Stream!Cut \/ UNCHANGED Stream!vars)
<1>1. /\ pc = "lex_parse_char_literal" /\ pc \in Handlers /\ pc \notin Comments
      /\ QuotedLiteral(SQ, "LITERAL_CHAR")
  BY DEF lex_parse_char_literal, Handlers, Comments
<1>2. src[ptr] = SQ /\ Len(src) \in Nat
  BY <1>1, AtTheToken DEF ByteAt
<1>3. \A text : KindOf(TextToken("LITERAL_CHAR", text), text) = "char"
  BY KindsOfTokens
<1>4. \A q \in Nat : src[ptr] # NUL /\ q <= Len(src) /\ Stream!Quoted(ptr, q, SQ) =>
                       "char" \in Stream!Kinds(ptr, q)
  BY <1>2, KindsAre
<1> QED
  BY <1>1, <1>2, <1>3, <1>4, QuotedCuts

(* A step that appends nothing and stays in the token keeps the invariant. *)
LEMMA StaysInTheToken ==
  ASSUME LexerInv, CutInv, pc \in Handlers \cup {"multi_comment_loop"},
         UNCHANGED <<src, token_pos, tok_array, pos_array>>, pc' \in Handlers,
         pc' = "lex_parse_num_literal" => src[ptr'] \in Digit \/ src[ptr' + 1] \in Digit
  PROVE  CutInv' /\ UNCHANGED Stream!vars
<1>1. pc # "return" /\ pc' # "return"
  BY DEF Handlers
<1>2. UNCHANGED Stream!vars /\ Stream!At' = Stream!At
  BY <1>1, Stutters
<1>3. \A i : Stream!NextLexeme(i)' = Stream!NextLexeme(i)
  BY SameLexemes
<1>4. /\ token_pos.start \in 1..Len(src) /\ src[token_pos.start] # SP
      /\ Leads(token_pos.start)
  BY DEF CutInv
<1>5. Leads(token_pos.start)'
  <2>1. limit' = limit
    BY DEF limit
  <2> QED
    BY <1>2, <1>3, <1>4, <2>1 DEF Leads
<1>6. pc' \notin {"lex_dispatch", "lexer_next", "multi_comment_loop"}
  BY DEF Handlers
<1> QED
  BY <1>2, <1>4, <1>5, <1>6 DEF CutInv

(* A slash, alone or the first byte of a comment. *)
LEMMA SlashCuts ==
  ASSUME LexerInv, PositionInv, CutInv, lex_parse_slash
  PROVE  CutInv' /\ (Stream!Cut \/ UNCHANGED Stream!vars)
<1>1. /\ pc = "lex_parse_slash" /\ pc \in Handlers /\ pc \notin Comments
      /\ UNCHANGED src
  BY DEF lex_parse_slash, Handlers, Comments
<1>2. /\ token_pos.start = ptr /\ token_pos \in Token_Pos
      /\ ptr \in 1..Len(src) /\ src[ptr] # SP /\ Leads(ptr) /\ pc \notin Stopped
      /\ Len(src) \in Nat /\ limit = Len(src) + 1
  BY <1>1, AtTheToken
<1>3. src[ptr] = SLASH /\ SLASH # NUL /\ SLASH # DOT
  BY <1>1, AtTheToken DEF ByteAt, SLASH, NUL, DOT
<1>4. ptr + 1 \in 1..Len(src)
  BY <1>2, <1>3, SourceFacts
<1>5. CASE src[ptr + 1] \notin {STAR, SLASH}
  <2>1. lex_append_tok(ValueToken(SLASH), token_pos, ptr + 1)
    BY <1>5 DEF lex_parse_slash, lex_append_tok_val, TOKEN_SLASH
  <2>2. ~Stream!Pair(ptr, SLASH, STAR) /\ ~Stream!Pair(ptr, SLASH, SLASH)
    BY <1>2, <1>5, PairIs
  <2>3. Stream!Sign(ptr, ptr + 1)
    BY <1>3, <2>2, SameChars DEF Stream!Sign
  <2>4. "sign" \in Stream!Kinds(ptr, ptr + 1)
    BY <1>2, <1>3, <1>4, <2>3, KindsAre
  <2>5. SLASH \in Char \ {NUL, LF}
    BY DEF SLASH, NUL, LF, Char, Special
  <2>6. KindOf(ValueToken(SLASH), SubSeq(src, ptr, (ptr + 1) - 1)) = "sign"
    BY <2>5, KindsOfTokens
  <2>7. ptr + 1 \in (ptr + 1)..limit
    BY <1>2
  <2> QED
    BY <1>1, <1>2, <2>1, <2>2, <2>4, <2>6, <2>7, Cuts
<1>6. CASE src[ptr + 1] \in {STAR, SLASH}
  <2>1. /\ UNCHANGED <<src, token_pos, tok_array, pos_array>>
        /\ pc' \in {"lex_parse_multi_comment", "lex_parse_single_comment"}
    BY <1>6 DEF lex_parse_slash
  <2>2. pc' \in Handlers /\ pc' # "lex_parse_num_literal"
    BY <2>1 DEF Handlers
  <2> QED
    BY <1>1, <2>1, <2>2, StaysInTheToken
<1> QED
  BY <1>5, <1>6

(* A line comment reads as a break. *)
LEMMA SingleCommentCuts ==
  ASSUME LexerInv, PositionInv, CutInv, lex_parse_single_comment
  PROVE  CutInv' /\ (Stream!Cut \/ UNCHANGED Stream!vars)
<1> DEFINE b == token_pos.start
<1>1. /\ pc = "lex_parse_single_comment" /\ pc \in Handlers /\ pc \notin Stopped
      /\ UNCHANGED src
  BY DEF lex_parse_single_comment, Handlers, Stopped
<1>2. /\ token_pos \in Token_Pos /\ b \in 1..Len(src) /\ src[b] # SP /\ Leads(b)
      /\ Len(src) \in Nat /\ limit = Len(src) + 1
  BY <1>1, SourceFacts DEF CutInv, LexerInv, TypeOK
<1>3. ptr = b + 1 /\ src[b] = SLASH
  BY <1>1 DEF PositionInv, InToken, Comments
<1>4. ptr < limit /\ src[ptr] = SLASH
  BY <1>1 DEF LexerInv, ControlOK, ByteAt
<1> HIDE DEF b
<1>5. SLASH # NUL /\ SLASH # STAR /\ SLASH \notin LineEnd /\ SLASH \in Char
  BY DEF SLASH, NUL, STAR, LineEnd, LF, CR, Char, Special
<1>6. Stream!Pair(b, SLASH, SLASH) /\ ~Stream!Pair(b, SLASH, STAR)
  BY <1>2, <1>3, <1>4, <1>5, PairIs
<1>7. PICK q \in ScanStops(ptr + 1, Char \ LineEnd) :
        lex_append_tok(ValueToken(LF), token_pos, q)
  BY DEF lex_parse_single_comment, lex_append_tok_val, TOKEN_BREAK
<1>8. /\ q \in (ptr + 1)..Len(src) /\ src[q] \notin Char \ LineEnd
      /\ \A r \in (ptr + 1)..(q - 1) : src[r] \in Char \ LineEnd
  BY DEF ScanStops
<1>9. src[q] \in LineEnd
  <2>1. q \in 1..Len(src)
    BY <1>2, <1>3, <1>8
  <2> QED
    BY <1>8, <2>1, SourceFacts
<1>10. Stream!All(b, q, Char \ LineEnd)
  <2>1. \A r \in b..(q - 1) : r = b \/ r = ptr \/ r \in (ptr + 1)..(q - 1)
    BY <1>2, <1>3, <1>8
  <2> QED
    BY <1>3, <1>4, <1>5, <1>8, <2>1 DEF Stream!All
<1>11. Stream!Break(b, q)
  BY <1>6, <1>9, <1>10, SameChars DEF Stream!Break
<1>12. q \in Nat /\ q <= Len(src) /\ q \in (b + 1)..limit
  BY <1>2, <1>3, <1>8
<1>13. "break" \in Stream!Kinds(b, q)
  BY <1>2, <1>3, <1>5, <1>11, <1>12, KindsAre
<1>14. KindOf(ValueToken(LF), SubSeq(src, b, q - 1)) = "break"
  BY KindsOfTokens
<1> QED
  BY <1>1, <1>2, <1>6, <1>7, <1>12, <1>13, <1>14, Cuts DEF b

(* A line break. *)
LEMMA LinebreakCuts ==
  ASSUME LexerInv, PositionInv, CutInv, lex_parse_linebreak
  PROVE  CutInv' /\ (Stream!Cut \/ UNCHANGED Stream!vars)
<1>1. /\ pc = "lex_parse_linebreak" /\ pc \in Handlers /\ pc \notin Comments
      /\ UNCHANGED src
  BY DEF lex_parse_linebreak, Handlers, Comments
<1>2. /\ token_pos.start = ptr /\ token_pos \in Token_Pos
      /\ ptr \in 1..Len(src) /\ src[ptr] # SP /\ Leads(ptr) /\ pc \notin Stopped
      /\ Len(src) \in Nat /\ limit = Len(src) + 1
  BY <1>1, AtTheToken
<1>3. src[ptr] \in {LF, CR}
  BY <1>1, AtTheToken DEF ByteAt
<1>4. LF # NUL /\ CR # NUL /\ LF # CR /\ LF # SLASH /\ CR # SLASH
  BY DEF LF, CR, NUL, SLASH
<1>5. ~Stream!Pair(ptr, SLASH, STAR)
  BY <1>2, <1>3, <1>4, PairIs
<1> DEFINE q == BreakEnd(ptr)
<1>6. lex_append_tok(ValueToken(LF), token_pos, q)
  BY DEF lex_parse_linebreak, lex_append_tok_val, TOKEN_BREAK
<1>7. ptr + 1 \in 1..Len(src)
  BY <1>2, <1>3, <1>4, SourceFacts
<1>8. /\ q \in Nat /\ q <= Len(src) /\ q \in (ptr + 1)..limit
      /\ Stream!Break(ptr, q)
  <2>1. CASE src[ptr] = LF
    <3>1. q = ptr + 1
      BY <1>4, <2>1 DEF BreakEnd
    <3> HIDE DEF q
    <3>2. Stream!Break(ptr, q)
      BY <2>1, <3>1, SameChars DEF Stream!Break
    <3> QED
      BY <1>2, <1>7, <3>1, <3>2
  <2>2. CASE src[ptr] = CR /\ src[ptr + 1] = LF
    <3>1. q = ptr + 2
      BY <1>4, <2>2 DEF BreakEnd
    <3>2. ptr + 2 \in 1..Len(src)
      BY <1>2, <1>4, <1>7, <2>2, SourceFacts
    <3> HIDE DEF q
    <3>3. Stream!Break(ptr, q)
      BY <2>2, <3>1, SameChars DEF Stream!Break
    <3> QED
      BY <1>2, <3>1, <3>2, <3>3
  <2>3. CASE src[ptr] = CR /\ src[ptr + 1] # LF
    <3>1. q = ptr + 1
      BY <1>4, <2>3 DEF BreakEnd
    <3> HIDE DEF q
    <3>2. Stream!Break(ptr, q)
      BY <2>3, <3>1, SameChars DEF Stream!Break
    <3> QED
      BY <1>2, <1>7, <3>1, <3>2
  <2> QED
    BY <1>3, <2>1, <2>2, <2>3
<1> HIDE DEF q
<1>9. "break" \in Stream!Kinds(ptr, q)
  BY <1>2, <1>3, <1>4, <1>8, KindsAre
<1>10. KindOf(ValueToken(LF), SubSeq(src, ptr, q - 1)) = "break"
  BY KindsOfTokens
<1> QED
  BY <1>1, <1>2, <1>5, <1>6, <1>8, <1>9, <1>10, Cuts

(* A comment begins and the loop is inside it. *)
LEMMA MultiCommentStutters ==
  ASSUME LexerInv, PositionInv, CutInv, lex_parse_multi_comment
  PROVE  CutInv' /\ UNCHANGED Stream!vars
<1> DEFINE b == token_pos.start
<1>1. /\ pc = "lex_parse_multi_comment" /\ pc \in Handlers
      /\ UNCHANGED <<src, token_pos, tok_array, pos_array>>
      /\ pc' = "multi_comment_loop" /\ ptr' = ptr + 1 /\ depth' = 1
  BY DEF lex_parse_multi_comment, Handlers
<1>2. b \in 1..Len(src) /\ src[b] # SP /\ Leads(b)
  BY <1>1 DEF CutInv
<1>3. ptr = b + 1 /\ src[b] = SLASH
  BY <1>1 DEF PositionInv, InToken, Comments
<1>4. ptr < limit /\ src[ptr] = STAR
  BY <1>1 DEF LexerInv, ControlOK, ByteAt
<1>5. UNCHANGED Stream!vars /\ Stream!At' = Stream!At
  BY <1>1, Stutters
<1>6. Leads(b)'
  <2>1. limit' = limit
    BY <1>1 DEF limit
  <2>2. \A i : Stream!NextLexeme(i)' = Stream!NextLexeme(i)
    BY <1>1, SameLexemes
  <2> QED
    BY <1>1, <1>2, <1>5, <2>1, <2>2 DEF Leads
<1>7. WithinComment(b, ptr, depth)'
  <2>1. Stream!Pair(b, SLASH, STAR)
    BY <1>2, <1>3, <1>4, SourceFacts, PairIs
  <2>2. WithinComment(b, b + 2, 1)
    BY <1>2, <2>1, CommentBegins
  <2>3. ptr' = b + 2 /\ b' = b
    BY <1>1, <1>2, <1>3, SourceFacts
  <2>4. WithinComment(b, b + 2, 1)'
    BY <1>1, <2>2, SameLexemes
  <2> QED
    BY <1>1, <2>3, <2>4
<1>8. b' \in 1..Len(src)' /\ src'[b'] # SP
  BY <1>1, <1>2
<1> QED
  BY <1>1, <1>5, <1>6, <1>7, <1>8 DEF CutInv, Handlers

(* Behind a comment the lexer is on its way to the same lexeme. *)
LEMMA LeavesTheComment ==
  ASSUME LexerInv, NEW c \in 1..Len(src), src[c] # SP, Leads(c),
         Stream!Pair(c, SLASH, STAR), NEW q \in (c + 2)..Len(src),
         Stream!CommentEnd(c) = q
  PROVE  Leads(q)
<1>1. Len(src) \in Nat /\ limit = Len(src) + 1
  BY SourceFacts
<1>2. Stream!NextLexeme(c) = Stream!NextLexeme(q)
  BY NextLexemeIs
<1>3. Stream!At \in 1..q /\ q # limit /\ c # limit
  BY <1>1 DEF Leads
<1> QED
  BY <1>2, <1>3 DEF Leads

(* The loop stays in the comment or leaves it where it ends. *)
LEMMA CommentLoopStutters ==
  ASSUME LexerInv, CutInv, multi_comment_loop
  PROVE  CutInv' /\ UNCHANGED Stream!vars
<1> DEFINE c == token_pos.start
<1>1. /\ pc = "multi_comment_loop" /\ UNCHANGED <<src, token_pos, tok_array, pos_array>>
      /\ pc' \in {"multi_comment_loop", "lex_dispatch"}
  BY DEF multi_comment_loop
<1>2. c \in 1..Len(src) /\ src[c] # SP /\ Leads(c) /\ WithinComment(c, ptr, depth)
  BY <1>1 DEF CutInv
<1>3. /\ depth \in Nat \ {0} /\ Len(src) \in Nat /\ limit = Len(src) + 1
      /\ ptr \in (c + 2)..Len(src) /\ ptr \in 1..Len(src)
  BY <1>1, <1>2, SourceFacts DEF LexerInv, TypeOK, ControlOK, WithinComment
<1>4. UNCHANGED Stream!vars /\ Stream!At' = Stream!At
  BY <1>1, Stutters
<1>5. limit' = limit /\ (\A i : Stream!NextLexeme(i)' = Stream!NextLexeme(i)) /\ c' = c
  BY <1>1, SameLexemes DEF limit
<1> HIDE DEF c
<1>6. Stream!Pair(c, SLASH, STAR)
  BY <1>2 DEF WithinComment
<1>7. ASSUME pc' = "lex_dispatch", ptr' \in (c + 2)..Len(src), Stream!CommentEnd(c) = ptr'
      PROVE  CutInv'
  <2>1. Leads(ptr')
    BY <1>2, <1>6, <1>7, LeavesTheComment
  <2>2. Leads(ptr)'
    BY <1>4, <1>5, <2>1 DEF Leads
  <2> QED
    BY <1>7, <2>2 DEF CutInv, Handlers
<1>8. CASE src[ptr] = NUL
  <2>1. pc' = "lex_dispatch" /\ ptr' = ptr
    BY <1>8 DEF multi_comment_loop
  <2>2. Stream!CommentEnd(c) = ptr
    BY <1>2, <1>3, <1>8, FirstEnd DEF WithinComment
  <2> QED
    BY <1>3, <1>4, <1>7, <2>1, <2>2
<1>9. CASE src[ptr] # NUL
  <2>1. /\ depth' = IF Opens(ptr) THEN depth + 1
                    ELSE IF Closes(ptr) THEN depth - 1 ELSE depth
        /\ ptr' = IF Opens(ptr) \/ Closes(ptr) THEN ptr + 2 ELSE ptr + 1
        /\ pc' = IF depth' > 0 THEN "multi_comment_loop" ELSE "lex_dispatch"
    BY <1>9 DEF multi_comment_loop
  <2>2. /\ WithinComment(c, ptr', depth')
        /\ depth' = 0 => Stream!CommentEnd(c) = ptr'
    BY <1>2, <1>3, <1>9, <2>1, CommentStep
  <2>3. depth' \in Nat /\ ptr' \in (c + 2)..Len(src)
    BY <1>3, <2>1, <2>2 DEF WithinComment
  <2>4. CASE depth' = 0
    BY <1>4, <1>7, <2>1, <2>2, <2>3, <2>4
  <2>5. CASE depth' # 0
    <3>1. pc' = "multi_comment_loop"
      <4>1. depth' > 0
        BY <2>3, <2>5
      <4> QED
        BY <2>1, <4>1
    <3>2. Leads(c)'
      BY <1>2, <1>4, <1>5 DEF Leads
    <3>3. WithinComment(c, ptr, depth)'
      BY <1>1, <1>5, <2>2, SameLexemes
    <3> QED
      BY <1>1, <1>2, <1>4, <1>5, <3>1, <3>2, <3>3 DEF CutInv, Handlers, c
  <2> QED
    BY <2>4, <2>5
<1> QED
  BY <1>8, <1>9

(* A dot is part of a number, or appended and not passed. *)
LEMMA DotStep ==
  ASSUME LexerInv, PositionInv, CutInv, lex_parse_dot
  PROVE  CutInv' /\ (src[ptr + 1] \in Digit => UNCHANGED Stream!vars)
<1>1. /\ pc = "lex_parse_dot" /\ pc \in Handlers /\ pc \notin Comments
      /\ UNCHANGED src
  BY DEF lex_parse_dot, Handlers, Comments
<1>2. /\ token_pos.start = ptr /\ token_pos \in Token_Pos
      /\ ptr \in 1..Len(src) /\ src[ptr] # SP /\ Leads(ptr) /\ pc \notin Stopped
      /\ Len(src) \in Nat /\ limit = Len(src) + 1
  BY <1>1, AtTheToken
<1>3. CASE src[ptr + 1] \in Digit
  <2>1. /\ UNCHANGED <<src, ptr, token_pos, tok_array, pos_array>>
        /\ pc' = "lex_parse_num_literal" /\ pc' \in Handlers
    BY <1>3 DEF lex_parse_dot, Handlers
  <2>2. src[ptr'] \in Digit \/ src[ptr' + 1] \in Digit
    BY <1>3, <2>1
  <2> QED
    BY <1>1, <2>1, <2>2, StaysInTheToken
<1>4. CASE src[ptr + 1] \notin Digit
  <2>1. lex_append_tok(ValueToken(DOT), token_pos, ptr)
    BY <1>4 DEF lex_parse_dot, lex_append_tok_val, TOKEN_DOT
  <2>2. ptr' = ptr /\ pc' \in {"lex_dispatch", "oom", "overflow"}
    BY <2>1 DEF lex_append_tok
  <2>3. CASE pc' \in {"oom", "overflow"}
    BY <1>4, <2>3 DEF CutInv, Handlers
  <2>4. CASE pc' = "lex_dispatch"
    <3>1. pc' \notin {"oom", "overflow"} /\ ptr \in Nat
      BY <1>2, <2>4
    <3>2. Stream!At' = ptr
      BY <1>1, <1>2, <2>1, <3>1, AppendsALexeme
    <3>3. limit' = limit
      BY <1>1 DEF limit
    <3>4. Leads(ptr)'
      BY <1>2, <2>2, <3>2, <3>3 DEF Leads
    <3> QED
      BY <1>4, <2>4, <3>4 DEF CutInv, Handlers
  <2> QED
    BY <2>2, <2>3, <2>4
<1> QED
  BY <1>3, <1>4

(* The lexer returns when everything is cut. *)
LEMMA DispatchStep ==
  ASSUME LexerInv, CutInv, lex_dispatch
  PROVE  CutInv' /\ (Stream!HandOver \/ UNCHANGED Stream!vars)
<1>1. /\ pc = "lex_dispatch" /\ UNCHANGED <<src, ptr, tok_array, pos_array>>
      /\ pc' = IF AtLimit THEN "return" ELSE "lexer_next"
  BY DEF lex_dispatch
<1>2. Leads(ptr) /\ ptr \in 1..limit /\ Len(src) \in Nat /\ limit = Len(src) + 1
  BY <1>1, SourceFacts DEF CutInv
<1>3. CASE AtLimit
  <2>1. ptr = limit /\ pc' = "return"
    BY <1>1, <1>2, <1>3 DEF AtLimit
  <2>2. Stream!At = limit
    BY <1>2, <2>1 DEF Leads
  <2>3. Lexemes' = Lexemes
    <3>1. tok_count' = tok_count
      BY <1>1 DEF tok_count
    <3>2. ASSUME NEW i PROVE LexemeOf(i)' = LexemeOf(i)
      BY <1>1 DEF LexemeOf, KindOf
    <3> QED
      BY <3>1, <3>2 DEF Lexemes
  <2>4. Stream!HandOver
    <3>1. ~(pc = "return") /\ Stream!At > Len(src) /\ (pc = "return")' = TRUE
      BY <1>1, <1>2, <2>1, <2>2
    <3> QED
      BY <1>1, <2>3, <3>1 DEF Stream!HandOver, Lexemes
  <2> QED
    BY <2>1, <2>4 DEF CutInv, Handlers
<1>4. CASE ~AtLimit
  <2>1. pc' = "lexer_next"
    BY <1>1, <1>4
  <2>2. UNCHANGED Stream!vars /\ Stream!At' = Stream!At
    BY <1>1, <2>1, Stutters
  <2>3. Leads(ptr)'
    <3>1. limit' = limit
      BY <1>1 DEF limit
    <3>2. \A i : Stream!NextLexeme(i)' = Stream!NextLexeme(i)
      BY <1>1, SameLexemes
    <3> QED
      BY <1>1, <1>2, <2>2, <3>1, <3>2 DEF Leads
  <2> QED
    BY <2>1, <2>2, <2>3 DEF CutInv, Handlers
<1> QED
  BY <1>3, <1>4

(* Blanks lead to the byte behind them. *)
LEMMA BlanksLead ==
  ASSUME LexerInv, NEW p \in 1..Len(src), NEW q \in ScanStops(p, {SP}), Leads(p)
  PROVE  Leads(q) /\ q \in 1..Len(src) /\ q # limit /\ src[q] # SP
<1>1. Len(src) \in Nat /\ limit = Len(src) + 1
  BY SourceFacts
<1>2. q \in p..Len(src) /\ src[q] # SP /\ \A r \in p..(q - 1) : src[r] = SP
  BY DEF ScanStops
<1> DEFINE S == {i \in p..q : Stream!NextLexeme(i) = Stream!NextLexeme(q)}
<1>3. S \subseteq Nat /\ S # {}
  BY <1>1, <1>2
<1>4. PICK m \in S : \A i \in S : m <= i
  <2> HIDE DEF S
  <2> QED
    BY <1>3, LeastElement
<1>5. m = p
  <2> SUFFICES ASSUME m # p PROVE FALSE
    OBVIOUS
  <2>1. m - 1 \in p..(q - 1) /\ m - 1 \in 1..Len(src) /\ m - 1 \in p..q /\ (m - 1) + 1 = m
    BY <1>1, <1>2
  <2>2. Stream!NextLexeme(m - 1) = Stream!NextLexeme(m)
    BY <1>2, <2>1, NextLexemeIs
  <2>3. m - 1 \in S
    BY <2>1, <2>2
  <2> QED
    BY <1>4, <2>1, <2>3
<1>6. Stream!NextLexeme(p) = Stream!NextLexeme(q)
  BY <1>4, <1>5
<1>7. Stream!At \in 1..q /\ Stream!NextLexeme(Stream!At) = Stream!NextLexeme(q)
  BY <1>1, <1>2, <1>6 DEF Leads
<1> QED
  BY <1>1, <1>2, <1>7 DEF Leads

(* lexer_next passes blanks, and appends a sign or calls a function. *)
LEMMA NextStep ==
  ASSUME LexerInv, CutInv, lexer_next
  PROVE  CutInv' /\ (Stream!Cut \/ UNCHANGED Stream!vars)
<1>1. pc = "lexer_next" /\ UNCHANGED src
  BY DEF lexer_next
<1>2. /\ ptr \in 1..Len(src) /\ Leads(ptr) /\ Len(src) \in Nat /\ limit = Len(src) + 1
      /\ line_start \in 1..ptr /\ line_num \in Nat /\ token_pos \in Token_Pos
  BY <1>1, SourceFacts DEF LexerInv, TypeOK, ControlOK, CutInv
<1>3. PICK q \in ScanStops(ptr, {SP}) :
        \/ /\ src[q] \in Punct \cup {STAR}
           /\ lex_append_tok(ValueToken(src[q]), StoredPos(q), q + 1)
        \/ /\ src[q] \notin Punct \cup {STAR}
           /\ pc' = HandlerOf(src[q])
           /\ ptr' = q
           /\ token_pos' = StoredPos(q)
           /\ UNCHANGED <<tok_array, pos_array, tok_capacity, tok_alloc>>
  BY DEF lexer_next
<1>4. Leads(q) /\ q \in 1..Len(src) /\ q # limit /\ src[q] # SP
  BY <1>2, BlanksLead
<1>5. src[q] \in Char /\ q >= ptr
  BY <1>4, SourceFacts DEF ScanStops
<1>6. StoredPos(q).start = q
  BY DEF StoredPos
<1>7. CASE src[q] \in Punct \cup {STAR}
  <2>1. lex_append_tok(ValueToken(src[q]), StoredPos(q), q + 1)
    BY <1>3, <1>7
  <2>2. /\ src[q] # NUL /\ src[q] # LF /\ src[q] # SLASH /\ src[q] # DOT
    BY <1>7, CharAssumption DEF Special, NUL, LF, SLASH, DOT, STAR
  <2>3. StoredPos(q) \in Token_Pos
    BY <1>2, <1>4, <1>5 DEF StoredPos, Token_Pos
  <2>4. ~Stream!Pair(q, SLASH, STAR) /\ ~Stream!Pair(q, SLASH, SLASH)
    BY <1>4, <2>2, PairIs
  <2>5. Stream!Sign(q, q + 1)
    BY <1>7, <2>2, <2>4, SameChars DEF Stream!Sign
  <2>6. q + 1 \in Nat /\ q + 1 <= Len(src) /\ q + 1 \in (q + 1)..limit
    BY <1>2, <1>4, <2>2, SourceFacts
  <2>7. "sign" \in Stream!Kinds(q, q + 1)
    BY <1>2, <2>2, <2>5, <2>6, KindsAre
  <2>8. src[q] \in Char \ {NUL, LF}
    BY <1>5, <2>2
  <2>9. KindOf(ValueToken(src[q]), SubSeq(src, q, (q + 1) - 1)) = "sign"
    BY <2>8, KindsOfTokens
  <2>10. pc \notin Stopped
    BY <1>1 DEF Stopped
  <2> QED
    BY <1>1, <1>4, <1>6, <2>1, <2>3, <2>4, <2>6, <2>7, <2>9, <2>10, Cuts
<1>8. CASE src[q] \notin Punct \cup {STAR}
  <2>1. /\ pc' = HandlerOf(src[q]) /\ ptr' = q /\ token_pos'.start = q
        /\ UNCHANGED <<tok_array, pos_array>>
    BY <1>3, <1>6, <1>8
  <2>2. pc' \in Handlers /\ src[q] \in ByteAt(pc')
    BY <1>4, <1>5, <1>8, <2>1, SwitchFitsTheHandler
  <2>3. pc' \notin {"lex_dispatch", "lexer_next", "multi_comment_loop", "return"}
    BY <2>2 DEF Handlers
  <2>4. pc' = "lex_parse_num_literal" => src[q] \in Digit
    <3>1. src[q] = DOT => HandlerOf(src[q]) = "lex_parse_dot"
      BY CharAssumption DEF HandlerOf, Special, NUL, SP, LF, CR, DQ, SQ, DOT, SLASH, STAR
    <3> QED
      BY <2>1, <2>2, <3>1 DEF ByteAt
  <2>5. UNCHANGED Stream!vars /\ Stream!At' = Stream!At
    BY <1>1, <2>1, <2>3, Stutters
  <2>6. Leads(token_pos.start)'
    <3>1. limit' = limit
      BY <1>1 DEF limit
    <3>2. \A i : Stream!NextLexeme(i)' = Stream!NextLexeme(i)
      BY <1>1, SameLexemes
    <3> QED
      BY <1>1, <1>4, <2>1, <2>5, <3>1, <3>2 DEF Leads
  <2> QED
    BY <1>1, <1>4, <2>1, <2>3, <2>4, <2>5, <2>6 DEF CutInv
<1> QED
  BY <1>7, <1>8

-----------------------------------------------------------------------------
(* The refinement.                                                         *)

(* A dot that begins no number, which the lexer appends but never passes. *)
BareDot == pc = "lex_parse_dot" /\ src[ptr + 1] \notin Digit

(* Nothing is cut at first, and everything is left. *)
LEMMA InitCuts == Init => Stream!Init /\ CutInv
<1> SUFFICES ASSUME Init PROVE Stream!Init /\ CutInv
  OBVIOUS
<1>1. LexerInv
  BY InitEstablishesLexerInv
<1>2. tok_array = << >> /\ pc = "lex_dispatch" /\ ptr = 1
  BY DEF Init
<1>3. tok_count = 0
  BY <1>2 DEF tok_count
<1>4. src \in Seq(Char) /\ Len(src) \in Nat \ {0} /\ src[Len(src)] = NUL /\ limit = Len(src) + 1
  BY <1>1, SourceFacts
<1>5. [i \in 1..tok_count |-> LexemeOf(i)] = << >>
  BY <1>3
<1>6. Stream!Init
  BY <1>2, <1>4, <1>5, SameChars DEF Stream!Init
<1>7. Leads(ptr)
  <2>1. Stream!At = 1
    BY <1>1, <1>3, AtIs
  <2> QED
    BY <1>2, <1>4, <2>1 DEF Leads
<1> QED
  BY <1>2, <1>6, <1>7 DEF CutInv, Handlers

(* Every function cuts a lexeme, hands over, or is not seen. *)
LEMMA NextCuts ==
  ASSUME LexerInv, PositionInv, CutInv, [Next]_vars
  PROVE  CutInv' /\ (BareDot \/ Stream!Next \/ UNCHANGED Stream!vars)
<1>1. CASE UNCHANGED vars
  <2>1. UNCHANGED <<src, tok_array, pos_array, pc, ptr, token_pos, depth>>
    BY <1>1 DEF vars
  <2>2. UNCHANGED Stream!vars /\ Stream!At' = Stream!At
    BY <2>1, Stutters
  <2>3. limit' = limit
    BY <2>1 DEF limit
  <2>4. \A i : Stream!NextLexeme(i)' = Stream!NextLexeme(i)
    BY <2>1, SameLexemes
  <2>5. \A c, p, d : WithinComment(c, p, d)' = WithinComment(c, p, d)
    BY <2>1, SameLexemes
  <2>6. \A b : Leads(b)' = Leads(b)
    BY <2>2, <2>3, <2>4 DEF Leads
  <2>7. CutInv'
    BY <2>1, <2>5, <2>6 DEF CutInv
  <2> QED
    BY <2>2, <2>7
<1>2. CASE lex_dispatch
  BY <1>2, DispatchStep DEF Stream!Next
<1>3. CASE lexer_next
  BY <1>3, NextStep DEF Stream!Next
<1>4. CASE lex_parse_eof
  BY <1>4, EofCuts DEF Stream!Next
<1>5. CASE lex_parse_identifier
  BY <1>5, IdentifierCuts DEF Stream!Next
<1>6. CASE lex_parse_num_literal
  BY <1>6, NumberCuts DEF Stream!Next
<1>7. CASE lex_parse_string_literal
  BY <1>7, StringCuts DEF Stream!Next
<1>8. CASE lex_parse_char_literal
  BY <1>8, CharCuts DEF Stream!Next
<1>9. CASE lex_parse_slash
  BY <1>9, SlashCuts DEF Stream!Next
<1>10. CASE lex_parse_single_comment
  BY <1>10, SingleCommentCuts DEF Stream!Next
<1>11. CASE lex_parse_multi_comment
  BY <1>11, MultiCommentStutters
<1>12. CASE multi_comment_loop
  BY <1>12, CommentLoopStutters
<1>13. CASE lex_parse_linebreak
  BY <1>13, LinebreakCuts DEF Stream!Next
<1>14. CASE lex_parse_dot
  <2>1. pc = "lex_parse_dot"
    BY <1>14 DEF lex_parse_dot
  <2> QED
    BY <1>14, <2>1, DotStep DEF BareDot
<1>15. CASE Terminating
  BY <1>1, <1>15 DEF Terminating
<1> QED
  BY <1>1, <1>2, <1>3, <1>4, <1>5, <1>6, <1>7, <1>8, <1>9, <1>10, <1>11, <1>12, <1>13,
     <1>14, <1>15 DEF Next

(* The safety part of CutsTheSource: whatever the lexer appends is the next *)
(* lexeme of its source, except for a dot that begins no number.            *)
THEOREM LexerCutsTheSource ==
  Spec => Stream!Init /\ [][BareDot \/ Stream!Next]_(Stream!vars)
<1>1. Init => Stream!Init /\ CutInv
  BY InitCuts
<1>2. LexerInv /\ PositionInv /\ CutInv /\ [Next]_vars
        => CutInv' /\ [BareDot \/ Stream!Next]_(Stream!vars)
  BY NextCuts
<1> QED
  BY <1>1, <1>2, SpecKeepsLexerInv, SpecKeepsPositions, PTL DEF Spec

(* In the sources of NoBareDots a dot is always the first of a number.      *)
NoBareDots == \A s \in Sources : \A i \in 1..(Len(s) - 1) :
                s[i] = DOT => s[i + 1] \in Digit

(* On such sources the lexer takes no step that WakTokenStream does not.    *)
THEOREM NoOtherStepWithoutBareDots ==
  ASSUME NoBareDots
  PROVE  Spec => Stream!Init /\ [][Stream!Next]_(Stream!vars)
<1>1. Init => src \in Sources
  BY DEF Init
<1>2. src \in Sources /\ [Next]_vars => (src \in Sources)'
  BY DEF Next, vars, lex_dispatch, lexer_next, lex_parse_eof, lex_parse_identifier,
         lex_parse_num_literal, lex_parse_string_literal, lex_parse_char_literal,
         QuotedLiteral, lex_parse_slash, lex_parse_single_comment,
         lex_parse_multi_comment, multi_comment_loop, lex_parse_linebreak,
         lex_parse_dot, Terminating
<1>3. LexerInv /\ src \in Sources => ~BareDot
  <2> SUFFICES ASSUME LexerInv, src \in Sources, BareDot PROVE FALSE
    OBVIOUS
  <2>1. pc \in Handlers /\ src[ptr] \in ByteAt(pc) /\ ptr < limit
    BY DEF BareDot, Handlers, LexerInv, ControlOK
  <2>2. src[ptr] = DOT /\ DOT # NUL
    BY <2>1 DEF BareDot, ByteAt, DOT, NUL
  <2>3. ptr \in 1..(Len(src) - 1)
    BY <2>1, <2>2, SourceFacts
  <2> QED
    BY <2>2, <2>3 DEF NoBareDots, BareDot
<1> QED
  BY <1>1, <1>2, <1>3, LexerCutsTheSource, SpecKeepsLexerInv, PTL DEF Spec
=============================================================================
