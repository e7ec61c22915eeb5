# wak_lang in TLA+

A verification development of the wak compiler front end: the lexer, the keyword
map it looks words up in, the parser and its error reports, the vector they keep
things in, and the two programs around them. `src/` below is the repository.

* TLC checks every module on small instances (`*.cfg`, listed under *Runs*).
* TLAPS checks the theorems of the seven `*Proofs` modules and the lemmas of
  `WakInduction`, which hold for every value of the constants: every invariant of the passing runs
  is one of them, and so are the three refinements but for liveness (*Proofs*).
* `PROJECT.json` ties each definition to its lines of source, each property to a
  change of the code that would break it, and each hazard to its properties.

## The system

    file --mmap--> bytes --lexetize--> Token_Module --(parse)--> statements, dropped
                              |
                       const_str_map (keywords)

The program is sequential. One thread opens and maps a file, lexes it, prints the
tokens to `tokens.txt`, and frees everything. The call of `parse` is commented out
(src/src/main.c:62), so the parser is modelled as what it does when it is called
with what `lexetize` returns, its only possible argument. What makes this code
hard is not concurrency but control flow: a lexer written as mutually tail-calling
functions with shared pointers, hand-grown arrays, an in-place sort with a
shortcut, and a parser in which a statement's function, `parser_next_statement`
and `parse` all move the same index.

| component | state | operations | interaction |
|---|---|---|---|
| lexer (`lexer.c`) | pointer, line start and number, token position, two arrays, count and capacity | one function per token class, `lex_append_tok` and its chain, `lexetize` | reads the mapped bytes, calls the keyword map, hands the arrays to a `Token_Module` |
| keyword map (`const_str_map.h`) | the caller's table (sorted where it lies), two arrays | `const_str_map_new`, `find_len`, `find` | built anew by every `lexetize` from the same global table, never freed |
| parser (`parser.c`) | token index, statements, error flags | `parse`, `parser_next_statement`, one function per statement and expression | reads the tokens, keeps pointers to their texts, appends to a vector |
| syntax tree (`ast/*.h`) | none | constructors | what the parser appends |
| vector (`vector.c`), memory helpers (`mem.c`) | start, end, capacity | new, append, fill, expand, insert, free | holds tokens, positions, statements |
| token module (`token_module.h`) | two vectors, two pointers into the file | init, free | owns the tokens' texts; `parser_print_error` goes back from a token to the file through it |
| program (`main.c`), speed test (`lex_speed.c`), file mapping (`file.c`) | descriptor, mapping, the heap | the sequence above, once or in a loop | decides that `limit` is one byte behind the file |
| timers (`timers.c`) | two arrays of time stamps | start, end, report | `main` brackets its phases with them |
| token names, assertions | none | reporting | no influence on the rest |
| `str_map.h`, `llvm_ir/instructions.h` | - | declared only | used by nobody |

Hard behaviours and what makes each component correct:

* **Lexer.** It must stop, at the NUL behind the file and not beyond it, although
  all scans look ahead; every token must be appended inside the arrays over any
  number of growths of a 32-bit capacity; positions must stay consistent although
  three functions update them at different moments relative to `ptr`; nested
  comments with overlapping delimiters, CR/LF mixtures, unclosed literals and NULs
  in the middle of the file must each be cut in one definite way.
* **Keyword map.** The bubble sort sets its next bound to the last exchange; it
  must still sort, lose nothing, and detect every duplicate although it compares
  neighbours only; sorting a sorted table again must stop at once. `find_len`, a
  linear search for a *prefix*, is right about `null` and `nullptr` only because
  of that order; `find` is a binary search with inclusive bounds.
* **Parser.** Every call must progress or report; tokens are looked at one and two
  ahead without a check of the length; statements refer to other statements by
  index, found by a search that starts one past the end; a declaration is appended
  before its value is known; some failures are silent.
* **Error reports.** The number printed is counted by the lexer, the line shown is
  found by the parser's own walk over the bytes, and both have to mean the same
  line for every kind of line end; the walk starts at a position looked up at a
  token index that may be behind the last token.
* **Vector.** Every growth is a new block and a copy whose sizes are products in
  `size_t`; `vector_full` is always true; `vector_insert` moves bytes where
  elements are meant.
* **Token module, programs.** The module owns the arrays `realloc` left last and the
  text of each token that has one; a file is read one byte beyond its length, which
  is zero only because of how pages are filled; results of `mmap`, `malloc` and
  `fopen` are used unchecked.
* **Timers.** Seconds and nanoseconds are subtracted apart, and a stamp is taken to
  be unset by its nanoseconds alone.

## Modules

| module | models |
|---|---|
| `WakChars` | the classes of characters the lexer tells apart |
| `WakKeywords` | the keyword table of `lexer.c` in the order `const_str_map_new` leaves it in, for the instances that lex |
| `WakLexer` | `lexer.c`: one action per function of the tail-call machine, the properties |
| `WakTokenStream` | abstract: the source cut into lexemes by maximal munch, comments as balanced delimiters |
| `WakLexerRefinement` | the mapping of the lexer's arrays to the abstract stream |
| `WakStrMap` | `const_str_map.h`: the sort one comparison at a time, both searches one probe at a time |
| `WakSyntax` | tokens as the parser sees them, values and statements |
| `WakParser` | `parser.c`: one action per kind of `parser_next_statement` call, with everything it calls |
| `WakGrammar` | abstract: which phrases a program is read as and which statements each stands for |
| `WakParserRefinement` | the mapping of the parser's state to the grammar's |
| `WakFrontEnd` | composes `WakLexer` and `WakParser` on one source, with the hand-over and `parser_print_error` |
| `WakVector` | `vector.c` and `mem.c`: one action per function, byte by byte |
| `WakSequence` | abstract: a sequence of bytes that is appended to, filled and inserted into |
| `WakTimers` | `timers.c`: the stamps, the duration, the report |
| `WakProgram` | `main.c`, `lex_speed.c`, `file.c`, `token_module.h`: descriptor, mapping and heap (extends `WakTimers`) |
| `MCWakLexer`, `MCWakStrMap`, `MCWakParser`, `MCWakFrontEnd`, `MCWakVector`, `MCWakProgram` | the instances TLC runs on |
| `WakLexerProofs` | the lexer's arrays and reads, then the positions of its tokens |
| `WakTokenStreamProofs` | the lexer's steps are those of `WakTokenStream` (extends the former and `WakLexerRefinement`) |
| `WakStrMapProofs`, `WakParserProofs`, `WakVectorProofs`, `WakProgramProofs` | inductive invariants of these components and what follows from them |
| `WakFrontEndProofs` | error reports, from an instance of `WakLexerProofs` |
| `WakInduction` | least and greatest elements, induction and recursion over the natural numbers as facts about sets |

### How the models correspond to the code

**Lexer.** `pc` is the function about to run; an action runs from that function's
first line to its tail call. `lex_append_tok`, `lex_expand_assign_tok` and
`lex_assign_tok` run inside the action of the function that appends. `ptr`,
`line_start` and `limit` are 1-based indices into `src`, the bytes from
`data_start` to the NUL; a byte is one of the character classes of `WakChars`
(Letter, Digit, Punct are sets given as constants; the code tells no two members
of one class apart except `x` and `b`, which are named). `tok_capacity` is the
number the code compares with and wraps modulo `UMod` (2^32); `tok_alloc` is what
the arrays really have room for, since the size handed to `realloc` is computed in
64 bits. `realloc` fails above `MemLimit` elements, and since its result is stored
unchecked the run ends as `"oom"`; an element behind the arrays ends it as
`"overflow"`. `reach` is a history variable: the furthest byte read. Keywords are
looked up with `FindLen`, what `const_str_map_find_len` returns on a map in the
order `tok_map` has.

**Keyword map.** `table` is the caller's array as written, `pairs` the same array
as it is now, `map` the copy. An inner iteration of the sort is `compare`, the end
of a pass `next_pass`. Several maps can be built from one array, as each
`lexetize` does. Indices are one larger than in C; `unsigned int` wrap-around of
`entry_count - 1` is excluded by `TablesAssumption` (no caller has an empty table).

**Parser.** A call of `parser_next_statement` runs to its end without interruption,
so it is one action; the cases are the paths through the function, the final check
for a `;` (`Complete`), `parse`'s append and its assertion "parser did not
progress" (`Proceed`). Errors end `parse`, which returns an empty
`Parsed_Module` in every case. The search of `parser_expr_var` reads the slot
behind the last statement; `Leftovers` is what that memory may hold. It can hold a
declaration: the block comes from `malloc` after other arrays were freed, a
`Token` has its type and its union where an `AST_Statement` has them, and
`TOKEN_TYPE_LITERAL_CHAR` and `AST_STATEMENT_TYPE_DECLARE` are both 3.
A number is modelled with its four counters and their widths (`UIntMod`,
`ULongMod`); the final division into a float is kept as a triple.

**Front end.** `WakFrontEnd` has the variables of both machines. `lexetize` is any
step of the lexer, `hand_over` gives its arrays to the parser, `parse` is one call of
`parser_next_statement`; when that call emits an error, `parser_print_error` runs
inside it. `shown` is what was printed: the position, the first and last byte of the
text (`LineStart`, `LineEnd` are where the two walks stop), and the width of the
indentation of the marks. A position behind the arrays is `"wild"`.

**Vector.** `buffer` is the memory from `start` to `capacity`, `end` an offset into
it; a byte is the k-th byte of a value or `Junk`, so torn and unwritten elements can
be told from whole ones. `lost` counts the bytes in blocks that nothing points to.
`alloc_prevent_overflow` and a failing `malloc` end the process in their own ways.
Sizes are computed modulo `SizeMax + 1`. The in-place branch of `vector_insert`,
which `vector_full` never lets run, is translated too.

**Programs.** `WakProgram` steps through `main` and `lex_speed` and through what
`lexetize` allocates: `heap` is the set of live blocks, each named by role and round.
What the lexer does with the bytes is abstracted to appending tokens with or without
a text; the byte at `data + length`, which the caller counts in, is the last one
(`lex_last`), and `BytesAt` says what memory behind a file can hold (zero up to the
end of its last page; anything, or nothing, behind that). `mmap`, `malloc`, `realloc`,
`open` and `fopen` may fail at every call. `munmap` of address 0 fails without effect. Time is
in ticks, any number of which may pass between two readings.

**Abstract specifications.** `WakTokenStream` has no pointer, depth or position
state; `WakGrammar` has no order of checks, no lookahead and no kinds of errors.
`WakSequence` has no buffers, capacities or copies.
They were written from what the code does, so `WakGrammar` includes the behaviours
listed under *Findings* (two semicolons end a declaration, a literal counts for its
last digit, the first statement is never found, a `return` without a value is
nothing). The refinements then say that this is *all* the code does.

## Runs

| run | module | checks | states |
|---|---|---|---|
| `lexer_tokens` | `MCWakLexer` | types, positions, line and character numbers, one EOF per NUL, reads; `CutsTheSource`: the lexer implements `WakTokenStream` | 88 934 |
| `lexer_arrays` | `MCWakLexer` | growth of the arrays, `LexerInv`, termination | 156 378 |
| `str_map` | `MCWakStrMap` | the sort, both lookups, `StrMapInv`, termination | 464 790 |
| `vector` | `MCWakVector` | copies in bounds, whole elements, memory left behind; `ImplementsTheSequence` | 65 322 |
| `program` | `MCWakProgram` | heap, leaks, descriptor and mapping, faults, timer report | 117 538 |
| `parser` | `MCWakParser` | types, progress, the EOF, references, `FollowsTheGrammar` | 120 705 |
| `front_end` | `MCWakFrontEnd` | error reports: line, marks, assertion, and that there always is one | 57 269 |
| `lexer_bare_dot`, `lexer_keyword` | `MCWakLexer` | findings | |
| `parser_declaration`, `parser_scope`, `parser_decimal` | `MCWakParser` | findings | |

What they show:

* `lexer_tokens`: for each of its sources tokens and positions come in order and
  do not overlap, no two tokens have the same line and character, line numbers are
  one plus the line breaks before the token however they are written and wherever
  they are, character numbers count from the byte behind the last break (from the
  break itself when it is inside a block comment), each NUL gives an EOF (in the
  middle of a file too), and nothing behind the NUL is read except one byte by an
  open block comment. The token stream is exactly the maximal-munch cut of the
  source, and it is always handed over. In these sources every dot has a digit
  behind it: with a bare dot the lexer does not get that far (`lexer_bare_dot`).
* `lexer_arrays`: the arrays are overrun or exhausted only when a bare dot
  repeats, and the lexer always ends in one of the three ways. `LexerInv` is
  checked here as well as proved.
* `str_map`: the map is strictly sorted with the same entries, or the assertion
  has failed on a table that really has a duplicate; `find_len` returns the least
  key the word is a prefix of; `find` finds a key iff it is there; each call returns.
* `vector`: under every sequence of calls, with allocations failing and sizes close
  to `SIZE_MAX`, no copy leaves its buffer; the bytes in use are those of the
  abstract sequence; elements stay whole unless `vector_insert` was called on
  elements of more than one byte (it moves the tail by one byte); a vector of n
  elements that was appended to one by one has left (n-1)^2 elements in lost blocks.
* `program`: no block is freed twice, printed or freed after its end; each lexetize
  leaves five blocks behind and no more; however a program returns, the descriptor
  is closed and nothing is mapped; a read can fault only without a mapping (an
  empty file, a failed `mmap`), for a file that fills its last page but for one
  byte at most, or for one of 2 GiB and more; the report adds up, and a duration is
  missing exactly when a reading fell on a full second.
* `parser`: each call of `parser_next_statement` reads one phrase of the grammar,
  with the statements it stands for, or reports an error where no phrase fits; it
  always progresses and returns; it goes beyond an EOF in one case only (a function
  without a return type, reported one token late); references point to earlier
  declarations, or to the index of the statement itself where unwritten memory
  looked like a declaration.
* `front_end`: every source without a bare dot ends in one error report, at the
  first EOF at the latest (`parse` has no other end: `parser_eof` is an error); with a
  bare dot nothing is reported, since the lexer does not return (`lexer_bare_dot`). The line shown is the
  line whose number is printed; only for an error at a line break is it the next
  one (both, for CR LF), since the walk back stops at once on an LF. The marks stand
  at the character number printed on the first line and behind a break in a
  comment, and one column further right on all other lines, because the walk stops
  on the LF and not behind it. The assertion about the buffer fails for lines as
  long as the buffer only. A position behind the arrays is used only for a function
  header without a type at the end of the file (on the compiled program: a
  segmentation fault for `func a()`). Sources with a CR and no LF behind it are left
  out of the first two properties: the lexer counts such a CR, the walk does not.

### Bounds, and why they are enough

* **Sources**: all texts up to length 5 over the characters of comments and line
  ends, up to 9 over `/` and `*`, up to 4 over those of literals, words and
  numbers, with the NUL at the end and in the middle. Nine characters open and close two levels
  of comments, with every overlap of their delimiters, and show what comes behind;
  each scan's stop condition is met by every character that can stop it. The state between two tokens is only the
  pointer, the line and the arrays, so longer texts repeat these cases.
* **Arrays** (`lexer_arrays`): texts of up to 6 characters, `InitCap = 5`, `UMod = 16`:
  5, 10, then 20 wraps to 4. The code's 10 doubles to 10 * 2^28 before it wraps,
  likewise short of the modulus at the last step before and past it after. The source bound
  `2 * Len(s) <= UMod` is `fd_size` returning an `int` (at most 2^31 - 1). `MemLimit = 32` lets the capacity wrap
  before memory gives out; the other runs use 16.
* **Keyword tables**: all arrays of up to 4 pairs over 5 keys, duplicates included,
  with keys that are prefixes of each other: every permutation of 4 is sorted, in
  which the shortcut's bound falls at each place.
* **Programs**: up to 4 statements of 10 kinds, and up to 2 with any one token
  replaced by any of 30 words, each ended by the EOF the lexer always appends, and each
  statement cut off after each token. No statement looks more than 6 tokens ahead,
  and what one statement leaves to the next is the list of statements.
  `UIntMod = 2^14` and `ULongMod = 2^30`: fractions of up to four digits, and of 14
  and 15, where `frac_dig` has wrapped to 0 as it does after 32 digits in the code.
  `WakGrammar` gives a fraction of any length the value the code gives it
  (wrong from the third digit on: `1.112` is 2.102 for the compiled program); only a
  second dot behind a fraction that has wrapped is not described.
* `Leftovers`: no declaration, or one of the variable `a`. Other bytes that happen to
  read as a declaration, with a name that points nowhere, are left out (*Not modelled*).
* **Front end**: all texts of up to 3 of 13 pieces: statements, beginnings of
  statements, every kind of line end, comments that hide or hold one, a NUL. An
  error depends on one statement and its line, and the line on the breaks around
  it. `BufSize = 8` lets lines of both kinds occur.
* **Words**: the runs of `MCWakLexer` and `MCWakFrontEnd` look words up in all 13
  keywords. The front end's statements cut keywords short to what the lexer still
  reads as them (`fu` as `func`, `i` as `i32`, `r` as `return`; see `lexer_keyword`).
* **Vector**: elements of 1 to 3 bytes, up to 4 elements grown by 1 or 2,
  `SizeMax = 15`, so that a doubling of a 3-element vector of 3 bytes is past it;
  `MaxLost = 24` bounds the calls that only leave memory behind.
* **Programs**: pages of 4 bytes, ints of 4 bits, files of 0, 3, 4, 5, 6, 9 and 18
  bytes: empty, with 3, 2, 1 and no byte of the last page left, negative and cut off as an
  int. Up to 4 tokens, two growths with `InitCap = 2`; up to 2 rounds of `lex_speed`,
  enough for a block of one to be mistaken for the other's. Seconds of 3 ticks and
  5 ticks of time: phases that cross a second, end on one, and take no time.

### Fairness

Each model is one thread in straight-line code with loops: a started function is
run on. `WakLexer` assumes weak fairness of `Next`, `WakParser` of
`parser_next_statement`, `WakStrMap` of `Work`, the steps of a call in progress;
nobody is obliged to call a map's functions; `WakFrontEnd` of `Work`, the two
machines and the hand-over in their one thread. `WakVector` and `WakProgram` state
no liveness and assume none. Deadlock is checked in every run; a
returned or dead run stutters in `Terminating`.

## Findings

| run | what |
|---|---|
| `lexer_bare_dot` | `lex_parse_dot` does not advance: a dot without a digit behind it is appended until memory or the capacity gives out |
| `lexer_keyword` | a word that keywords begin with is lexed as the first of them in the sorted table (`b` as `bool`, `i` as `i32`, `f` as `f32`, `fu` as `func`) |
| `parser_declaration` | `a : i32;` is rejected for a missing semicolon, `a : i32;;` is accepted |
| `parser_scope` | variables of a function are found behind its end |
| `parser_decimal` | of an integer literal only the last digit counts |

Each of these five was also seen on the compiled program. What nothing in the
repository contradicts in words is not listed as a finding but stated as what the code does, in
the passing runs: the column behind a break in a comment
(`CharacterNumbersCountFromTheBreak`), the line and the column of an error report
(`ShowsTheErrorsLine`, `MarksTheCharacter`), the position behind the arrays
(`StopsAtTheFirstEof`), the value of a fraction (`FollowsTheGrammar`), memory left behind (`MemoryIsQuadratic`, `LeaksPerRound`),
the tail moved by a byte (`ElementsAreWhole`), files whose end faults
(`OnlyTheseFilesFault`), and full seconds taken for unset timers (`ReportIsSound`).

## Proofs

Assumptions are the named ASSUMEs of the modules: character classes are disjoint,
sources end with a NUL and are shorter than half of 2^32, the keyword table is a
sequence of words and values, and no value of it is a character (`TOKEN_INDENT` is
256, token.h:35), capacities are positive and below the modulus; map
tables are not empty and looked-up words are not empty; token streams end with an
EOF, which is what `lexetize` returns (`NulsAreKept`); the value of a digit is a
number below the modulus of an `unsigned long`; element sizes are positive
and two counts together do not exceed `SIZE_MAX`; `lex_speed` has at least one
round; the buffer of `parser_print_error` has more than two bytes (4096 in the
code), so that a line break fits. `WakFrontEnd` repeats the lexer's assumptions for
its instance of the lexer (`LexerAssumption`). One theorem has a hypothesis of its
own: `FewDigits`, of `ParserReadsPhrases`.

**`WakInduction`** has what the prover is not given as an induction scheme:
`LeastElement` and `GreatestElement` of a set of numbers, `SetInduction` (a set that
has 0 and every successor has every number), `RecursionExists` (a function that
is its own step from a base exists) and `FollowingExists` (so does one defined by
jumps that only go up). They follow from the well-foundedness of `<`
and have no operator for a parameter, so induction over a sequence is induction
over the set of lengths for which a statement holds.

**`WakLexerProofs`** proves `Spec => []LexerInv` (`SpecKeepsLexerInv`), for every
source, keyword table, capacity and amount of memory, and from it `TypeCorrect`,
`ArraysAreSafe` (`OnlyADotExhaustsTheArrays`) and `ReadsAreSafe`
(`ReadsPastTheEofInACommentOnly`). The safety properties are not inductive alone.
`LexerInv` adds (a) for each function the byte it is entered at, which is what
the code's `wak_assert`s say and what makes its scan start before the NUL; (b) that
until a bare dot has been emitted there are fewer tokens than bytes consumed. With
(b) the capacity before a doubling is less than the length of the source, and twice
that is below 2^32 since `fd_size` is an `int`: so the doubling never wraps. (c) a
comment's delimiter having been seen is remembered from `lex_parse_slash` to the
end of the comment, where the one byte too many is read. The proof is by action;
`AppendStep`, `ScanStep` and `NoAppendKeepsArrays` carry what the actions share.

The second half of `WakLexerProofs` proves `Spec => []PositionInv` (`SpecKeepsPositions`) and
from it `TokensComeInOrder` (`PositionsIncrease`), `LinesAreCounted`
(`LineNumbersCountBreaks`), `CharactersAreCounted`
(`CharacterNumbersCountFromTheBreak`) and `NulsAreKept` (`EveryNulGivesAnEof`).
The properties speak of stored positions only; what a step stores comes from
`line_num` and `line_start`, so the invariant says of these what the properties say
of a token (`Counted`): at any byte the lexer is at, `line_num` is one plus the LFs
before it plus the tokens that are a CR alone, and `line_start` is the last place a
line began, behind a token that ends a line or at the LF of a comment. Each stored
token was counted where it starts (`Placed`), before the next (`Before`), and is a
whole line break or has none in it (`Shaped`): that is what keeps a scan from
carrying the count over a line end. Between two functions this holds at `ptr`
(`Seen`), inside one at the token's start, which `ptr` has left by one byte in a
comment at most (`InToken`). `Eofs` adds that each NUL passed has an EOF. TLC has
checked `PositionInv` on all texts of up to 5 of the characters it turns on before it was
proved. `MarkedFurther`, `LexemeKeepsPositions` and `TextKeepsPositions` carry
what the handlers share; the three cases of `lex_parse_linebreak`, the line comment,
and the LF in a block comment are the ones with content.

**`WakTokenStreamProofs`** proves the safety part of the refinement `CutsTheSource`
for every source (`LexerCutsTheSource`): the lexer starts as `WakTokenStream` does, and
each of its steps is a cut, the hand-over or a stutter, unless it is at a dot that begins
no number (`BareDot`), which is appended without being passed and which
`WakTokenStream` would cut as a sign. On sources in which every dot begins a number
nothing is excepted (`NoOtherStepWithoutBareDots`). The run `lexer_tokens` shows
this and the liveness part on its sources. The invariant `CutInv` says that wherever
the lexer is, the next lexeme behind the last one cut is the next one from where the
lexer is (`Leads`), and that inside a block comment `depth` is the difference of the
opening and closing delimiters passed, and no end of the comment is behind the
lexer (`WithinComment`). `DelimitersAre` and `NextLexemeIs` show that the recursive
functions of `WakTokenStream` are defined and satisfy their equations, by
`RecursionExists` and `FollowingExists`; `CommentStep` is one iteration of the
loop in `lex_parse_multi_comment`; `Cuts` is what all appending functions share, so
that each of them only has to show that its bytes can be read as the kind of its
token (`KindsAre`, `KindsOfTokens`).

**`WakStrMapProofs`** proves `Spec => []StrMapInv` and from it `SortIsCorrect` and
`LookupsAreCorrect`. `StrMapInv` adds to the properties: behind `right`, and within
a pass between `left` and `i`, every pair is greater than all pairs before it
(this is what justifies `right = left`); the exchange keeps the set of entries and
the distinctness of keys; both searches have ruled out what lies before `i`,
respectively outside `l..r`. The lemmas `PrecedesIrreflexive`, `PrecedesTransitive`
and `PrecedesTotal` show that `strcmp` is a strict total order on words, and
`SwapPermutes` that an exchange permutes. `BinarySearchIsExact` (`FindIsExact`) is
the same invariant on `const_str_map_find`: all keys before `l` are smaller than
the word and all behind `r` greater, so where the bounds cross the word is no key.

**`WakParserProofs`** proves `Spec => []ParserInv` (`SpecKeepsParserInv`) and from it
`TypeCorrect`, `ParserMakesProgress` (`ParserProgresses`), `NothingIsReadPastAnEof`
(`StopsAtTheFirstEof`) and `OnlyBackwardReferences` (`ReferencesPointBack`), for
every stream that ends with an EOF and every content of unwritten memory.
`ParserInv` says that no EOF is before `tok_index` while `parse` runs, so the tokens
looked at one and two ahead exist wherever the one before them is not an EOF; that
an error, once emitted, is at most one token behind the first EOF and only in the
one case named; and that each statement stored is sound for its index (a value from
`parser_expr_var` refers to a declaration before it or is from unwritten memory).
`OnlyTheLastDigitCounts` shows of a literal of any length what the run
`parser_decimal` shows of two digits, by `SetInduction` over its length
(`DigitReplacesTheValue` is the step).

Its second half proves the safety part of `FollowsTheGrammar` (`ParserReadsPhrases`):
each call of `parser_next_statement` reads one phrase of `WakGrammar` and appends what
it stands for, or gives up where no phrase begins. It assumes `FewDigits`: no literal in
the streams has more than two digits behind a dot, since `WakGrammar` states the value
of a longer fraction with powers and folds over its digits, of which the prover knows
nothing, and the moduli, 2^32 and 2^64 in the code, are above 100. Longer fractions
are model-checked in the run `parser`, whose streams have both kinds. The
argument goes up the grammar. What the four counters hold after a literal is found by
`SetInduction` over its characters (`WholeCounts`, `DotCounts`), which gives its value
(`LiteralMeans`); variables and expressions follow (`ExpressionMeans`), where the
parser's tests one token ahead are the grammar's words at that place
(`SameTokens`). The `...Means` lemmas say which phrases can begin at a token, so that
a parser that has looked at the first tokens has left one kind of phrase; there is
then one `...Follows` lemma per function of the parser, whose successes are
`ReadStep`s and whose errors are `GiveUpStep`s. `ParserInv` is needed before
the call for the tokens ahead to exist, and after it for the phrase to end before the stream does.

**`WakVectorProofs`** proves `TypeCorrect`, `CopiesStayInBounds` (`InBounds`) and
`AppendingIsQuadratic` (`MemoryIsQuadratic`), for every set of element sizes, every
`SIZE_MAX` and every order of calls. `TypeOK` says that the bytes in use are whole
elements inside the buffer, and with `InBounds` it is inductive. `ProductFits`
is the heart: a product that `alloc_will_overflow` lets pass is at most `SIZE_MAX`, so
the new block is as large as asked (`NewBufferHasRoom`) and has room for what is
copied into it (`ExpandStep`, `AppendStep`, `InsertStep`, `FillStep`, by
`PlacedIsBuffer`). That also covers the tail of `vector_insert`, which lands one
byte behind the head: at the wrong place but inside the block. `QuadraticInv` adds the size of the
buffer, 2n-1 elements, to the (n-1)^2 already left behind; the step is
(n-1)^2 + (2n-1) = n^2 (`NextSquare`). `VectorIsASequence`
(`ImplementsTheSequence`) is the refinement of `WakSequence`: initial states map to
initial states, and each step of the byte-wise model, allocations and copies
included, is a step of the abstract sequence or a stutter; its lemmas say which bytes a
copy leaves where (`PlacedBytes`). `ClientsReadWholeElements` (`ElementsAreWhole`)
adds to `TypeOK` that until `vector_insert` has moved a tail every element in use is
one value's bytes in order, or memory that `vector_fill` left unwritten.

**`WakProgramProofs`** proves `Spec => []ProgramInv` (`SpecKeepsProgramInv`) for any
number of rounds, tokens and growths, and from it the types, `HeapIsSafe`
(`HeapIsUsedSafely`), `FiveBlocksARound` (`LeaksPerRound`), `ResourcesAreReleased`
(`ReleasesItsResources`), `OtherFilesAreRead` (`OnlyTheseFilesFault`) and
`ReportsAddUp` (`ReportIsSound`). The conjuncts of `ProgramInv` are one per concern:
`LoopInv` (rounds are counted up to the iterations asked for), `HeapInv` (the
heap is exactly what each earlier round left, `Leaked(round)`, and what this round owns at this
control point), `ResourceInv` (descriptor and mapping by control point), `FileInv`
(the length read from the size, cut to an int) and `TimerInv` (the stamps
taken, read as ticks, are in the order of the phases).

**`WakFrontEndProofs`** proves `Spec => []FrontInv` (`SpecKeepsFrontInv`):
`LexerInv` and `PositionInv` of the lexer, which the parser's steps leave alone,
and `ReportInv`: nothing is shown before the error that ends the parse, and then
what `parser_print_error` makes of it. From it follow `LongLinesOnly`
(`OnlyLongLinesFailTheAssertion`), `TheLineIsTheErrors` (`ShowsTheErrorsLine`) and
`TheMarkIsTheErrors` (`MarksTheCharacter`). `WalkBack` and `WalkOn` say where the
two walks stop. For the number, `NumberedByLFs` reduces the lexer's count to the
LFs before the token when no CR stands alone, and `TokensBreaks` counts those in
the token. For the mark, `EndsFollowLFs` shows that every line end a token made is
behind an LF, so that the walk's LF and the lexer's `line_start` are the same
byte or neighbours.

Left to TLC because the prover cannot do it: termination (`Stops`, `CallsReturn`,
`EndsInOneReport`, and the liveness part of `CutsTheSource` and `FollowsTheGrammar`),
which needs ENABLED and fairness. Facts about recursive functions for every input are
within reach by `SetInduction` and `RecursionExists`, as `OnlyTheLastDigitCounts` and
`NextLexemeIs` show; for fractions of three digits and more (`FewDigits`) that is not
done, and the run `parser` checks them.

## Not modelled

* What is printed: `print_token`, token names (`token.c`), the pieces of an error
  report's text (only which bytes, numbers and widths), `lex_speed`'s statistics.
  The report's indentation is a width: which of its columns are tabs is not told.
* Bytes of 0x80 and above become negative `Token_Value`s; no function but
  `token_value_to_name` tells them from other signs (`Punct`).
* A bare dot in the programs: `lexetize` does not return from one (lexer.c:311 appends
  until the arrays or memory give out), which `WakLexer` has; `WakProgram` appends at
  most one token per byte.
* The search of `parser_expr_var` (parser.c:336-340) when the unwritten slot behind the
  last statement has the type of a declaration and a name that is no valid pointer:
  `strcmp` would crash there. `Leftovers` has no declaration or a well-formed one.
* What the code declares and nobody calls or defines: `parser_find_variable`,
  `parser_struct`, `parser_pop_token_n`, `vector_copy`, `str_map.h`,
  `lex_make_error`; on Windows, `fd_mem_map` and `fd_mem_unmap`.
* `AST_Block`, `AST_Variable`, `AST_Expression` and the `llvm_ir` types: no operation.
* Assertion macros: an assertion that fails ends a run.
* An empty keyword table, for which `entry_count - 1` wraps
  (const_str_map.h:33): no caller has one (`TablesAssumption`).

## Plan

In the order of importance; all are done.

1. Lexer: machine, abstract stream, refinement, invariant, proofs.
2. Keyword map: machine, properties, proofs.
3. Parser: machine, grammar, refinement.
4. Vector and sequence, with the refinement.
5. Programs, file mapping, token module, timers.
6. Front end: lexer, parser and error report on one source.
7. `WakParserProofs`: every invariant of the parser.
8. `WakVectorProofs` with the refinement, `WakProgramProofs`.
9. `WakLexerProofs`, `WakFrontEndProofs`: positions, and the reports made of them.
10. `WakTokenStreamProofs`: the safety part of `CutsTheSource`.
11. The safety part of `FollowsTheGrammar`, proved for streams with fractions of up
    to two digits and model-checked beyond.
