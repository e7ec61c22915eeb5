----------------------------- MODULE WakProgram -----------------------------
(***************************************************************************)
(* The two programs of the repository, main (src/main.c) and lex_speed     *)
(* (tests/lex_speed.c), with what they acquire and release: a descriptor   *)
(* and a mapping (src/util/file.c), the blocks that lexetize allocates     *)
(* (src/lexer.c) and token_module_free frees (token_module.h), the file    *)
(* tokens.txt and the timers.  What the lexer does with the bytes is in    *)
(* WakLexer; here it appends tokens, with or without a text, up to the     *)
(* byte at limit - 1.  Calls of the system and of malloc may fail.         *)
(***************************************************************************)
EXTENDS WakTimers, Sequences, FiniteSets

CONSTANTS
  FileSizes,   (* sizes of the file                                        *)
  PageSize,    (* of a page of memory                                      *)
  IntMod,      (* 2^32: fd_size returns an int                             *)
  InitCap,     (* capacity of the two arrays at first (10)                 *)
  MaxTokens,   (* bound on the tokens before the last                      *)
  MaxRounds    (* bound on lex_speed's iterations                          *)

ASSUME ProgramAssumption ==
  /\ FileSizes \subseteq Nat
  /\ PageSize \in Nat \ {0} /\ InitCap \in Nat \ {0}
  /\ IntMod \in Nat \ {0} /\ IntMod % 2 = 0
  /\ MaxTokens \in Nat /\ MaxRounds \in Nat \ {0}

VARIABLES
  program,      (* "main" or "lex_speed"                                   *)
  pc,           (* what it is about to do, or how it ended                 *)
  st_size,      (* size of the file                                        *)
  fd,           (* whether the descriptor is open                          *)
  data, length, (* the mmapped_file: data is "null" or "mapped"            *)
  mapped,       (* whether the mapping exists                              *)
  heap,         (* the blocks allocated and not freed                      *)
  tokens,       (* kinds of the module's tokens, with a text or without    *)
  tok_capacity,
  round, iterations

vars == <<program, pc, st_size, fd, data, length, mapped, heap, tokens,
          tok_capacity, round, iterations, timer_vars>>

file_vars == <<st_size, fd, data, length, mapped>>
lex_vars == <<heap, tokens, tok_capacity>>
loop_vars == <<program, round, iterations>>
-----------------------------------------------------------------------------
(* A block is named for what is in it, the round it was allocated in and a *)
(* number that tells apart those of a kind.                                *)
Block(role, n) == <<role, round, n>>

MapBlocks == {Block("const_str_map", 0), Block("keys", 0), Block("values", 0)}
Arrays(capacity) == {Block("tok_array", capacity), Block("pos_array", capacity)}
Texts == {Block("text", k) : k \in {j \in DOMAIN tokens : tokens[j] = "text"}}
Vectors == {Block("tok_vec", 0), Block("pos_vec", 0)}
Orphans == {Block("tok_buffer", 0), Block("pos_buffer", 0)}

Init ==
  /\ program \in {"main", "lex_speed"}
  /\ pc = "start"
  /\ st_size \in FileSizes
  /\ fd = FALSE
  /\ data = "null" /\ length = 0 /\ mapped = FALSE
  /\ heap = {}
  /\ tokens = << >>
  /\ tok_capacity = 0
  /\ round = 0 /\ iterations = 1
  /\ TimersInit

(* A result of malloc is used unchecked, or an assertion about it fails. *)
NoMemory == pc' = "no_memory" /\ UNCHANGED <<lex_vars>>
-----------------------------------------------------------------------------
(* file.c *)
fd_size(n) == ((n + IntMod \div 2) % IntMod) - IntMod \div 2

(* The size passed to mmap is unsigned: a negative one is too large. *)
fd_mem_map ==
  LET size == fd_size(st_size)
  IN  \/ /\ data' = "null" /\ length' = 0
         /\ UNCHANGED mapped
      \/ /\ size > 0
         /\ data' = "mapped" /\ length' = size
         /\ mapped' = TRUE

(* munmap fails for data = 0, and nothing is done about it. *)
fd_mem_unmap == data' = "null" /\ length' = 0 /\ mapped' = FALSE

fd_close_Mapped == fd' = (data = "null")  \* mutant

fd_close == fd' = FALSE
-----------------------------------------------------------------------------
(* lexetize: lex_state_init builds a keyword map and the two arrays. *)
lex_state_init ==
  \/ NoMemory
  \/ /\ pc' = "lexing"
     /\ heap' = heap \cup MapBlocks \cup Arrays(InitCap)
     /\ tokens' = << >>
     /\ tok_capacity' = InitCap

(* lex_append_tok: malloc_str for a text, two reallocs when it is full. *)
Appended(kind, then) ==
  LET full     == Len(tokens) >= tok_capacity
      capacity == IF full THEN 2 * tok_capacity ELSE tok_capacity
      text     == {Block("text", Len(tokens) + 1) : k \in {kind} \cap {"text"}}
  IN  \/ (full \/ kind = "text") /\ NoMemory
      \/ /\ pc' = then
         /\ tokens' = Append(tokens, kind)
         /\ tok_capacity' = capacity
         /\ heap' = (heap \ Arrays(tok_capacity)) \cup Arrays(capacity) \cup text

(* A token of the file; no more of them than bytes, as WakLexer shows, but *)
(* for a bare dot: lexetize never returns from one, which is left to it.   *)
lex_append_tok ==
  /\ pc = "lexing"
  /\ data = "mapped"
  /\ Len(tokens) < length /\ Len(tokens) < MaxTokens
  /\ \E kind \in {"text", "value"} : Appended(kind, "lexing")
  /\ UNCHANGED <<file_vars, loop_vars, timer_vars>>

(* What data[n] can be for n >= length: behind the file its last page is   *)
(* zero, and behind that page there may be anything, or no memory.         *)
BytesAt(n) ==
  IF data = "null" THEN {"fault"}
  ELSE IF n \div PageSize > (length - 1) \div PageSize THEN {"fault", "NUL", "other"}
  ELSE IF n >= st_size THEN {"NUL"} ELSE {"NUL", "other"}

Fault == pc' = "segmentation_fault" /\ UNCHANGED lex_vars

LastByte_OneFurther == length + 1  \* mutant

(* The caller passes the limit data + length + 1. *)
LastByte == length

(* The last byte below the limit.  A file that ends in an open comment has *)
(* the byte behind it read too; without a NUL there, the token that it     *)
(* begins may reach anywhere.                                              *)
lex_last ==
  /\ pc = "lexing"
  /\ \/ "fault" \in BytesAt(LastByte) \cup BytesAt(LastByte + 1) /\ Fault
     \/ "NUL" \in BytesAt(LastByte) /\ Appended("value", "lexed")
     \/ /\ "other" \in BytesAt(LastByte)
        /\ Fault \/ \E kind \in {"text", "value"} : Appended(kind, "lexed")
  /\ UNCHANGED <<file_vars, loop_vars, timer_vars>>

(* Each vector comes with a buffer, whose pointer is overwritten. *)
lexetize_return(then) ==
  /\ pc = "lexed"
  /\ \/ NoMemory
     \/ /\ pc' = then
        /\ heap' = heap \cup Vectors \cup Orphans
        /\ UNCHANGED <<tokens, tok_capacity>>
-----------------------------------------------------------------------------
(* token_module.h *)
ModuleBlocks_BeforeGrowth == Texts \cup Arrays(InitCap) \cup Vectors  \* mutant

ModuleBlocks_VectorsOnly == Texts \cup Vectors  \* mutant

ModuleBlocks == Texts \cup Arrays(tok_capacity) \cup Vectors

token_module_free(then) ==
  /\ pc = "free"
  /\ heap' = heap \ ModuleBlocks
  /\ pc' = IF ModuleBlocks \subseteq heap THEN then ELSE "bad_free"
  /\ tokens' = << >> /\ tok_capacity' = 0
  /\ round' = round + 1
-----------------------------------------------------------------------------
(* main *)
In(p) == program = p /\ UNCHANGED program

Exit(code) == pc' = code

main_start ==
  /\ In("main") /\ pc = "start"
  /\ timer_start("TOTAL")
  /\ Exit("return_1") \/ pc' = "open"    \* argc
  /\ UNCHANGED <<file_vars, lex_vars, round, iterations>>

main_open ==
  /\ In("main") /\ pc = "open"
  /\ timer_start("FILE_READ")
  /\ \/ Exit("return_1") /\ UNCHANGED fd
     \/ pc' = "map" /\ fd' = TRUE
  /\ UNCHANGED <<st_size, data, length, mapped, lex_vars, round, iterations>>

main_map ==
  /\ In("main") /\ pc = "map"
  /\ fd_mem_map
  /\ timer_end("FILE_READ")
  /\ pc' = "lexetize"
  /\ UNCHANGED <<st_size, fd, lex_vars, round, iterations>>

main_lexetize ==
  /\ In("main") /\ pc = "lexetize"
  /\ timer_start("LEXETIZE")
  /\ lex_state_init
  /\ UNCHANGED <<file_vars, round, iterations>>

main_lexetized ==
  /\ In("main")
  /\ lexetize_return("print")
  /\ timer_end("LEXETIZE")
  /\ UNCHANGED <<file_vars, round, iterations>>

(* fopen's result is used unchecked; every token is printed. *)
main_print ==
  /\ In("main") /\ pc = "print"
  /\ \/ pc' = IF ModuleBlocks \subseteq heap THEN "free" ELSE "use_after_free"
     \/ pc' = "null_dereference"
  /\ UNCHANGED <<file_vars, lex_vars, round, iterations, timer_vars>>

main_free ==
  /\ In("main")
  /\ token_module_free("parse")
  /\ UNCHANGED <<file_vars, iterations, timer_vars>>

(* The call of parse is commented out. *)
main_parse ==
  /\ In("main") /\ pc = "parse"
  /\ timer_start("PARSE")
  /\ pc' = "release"
  /\ UNCHANGED <<file_vars, lex_vars, round, iterations>>

main_release ==
  /\ In("main") /\ pc = "release"
  /\ timer_end("PARSE")
  /\ fd_mem_unmap
  /\ fd_close
  /\ pc' = "report"
  /\ UNCHANGED <<st_size, lex_vars, round, iterations>>

main_report ==
  /\ In("main") /\ pc = "report"
  /\ timer_end("TOTAL")
  /\ Exit("return")
  /\ UNCHANGED <<file_vars, lex_vars, round, iterations>>
-----------------------------------------------------------------------------
(* lex_speed; atoi gives any number of iterations. *)
lex_speed_start ==
  /\ In("lex_speed") /\ pc = "start"
  /\ \/ /\ Exit("return_1")              \* argc, or no file
        /\ UNCHANGED <<fd, data, length, mapped, iterations>>
     \/ /\ fd' = TRUE
        /\ fd_mem_map
        /\ iterations' \in 0..MaxRounds
        /\ pc' = "loop"
  /\ UNCHANGED <<st_size, lex_vars, round, timer_vars>>

Again_OneMore == round <= iterations  \* mutant

Again == round < iterations

lex_speed_lexetize ==
  /\ In("lex_speed") /\ pc = "loop"
  /\ Again
  /\ lex_state_init
  /\ UNCHANGED <<file_vars, round, iterations, timer_vars>>

lex_speed_lexetized ==
  /\ In("lex_speed")
  /\ lexetize_return("free")
  /\ UNCHANGED <<file_vars, round, iterations, timer_vars>>

lex_speed_free ==
  /\ In("lex_speed")
  /\ token_module_free("loop")
  /\ UNCHANGED <<file_vars, iterations, timer_vars>>

lex_speed_release ==
  /\ In("lex_speed") /\ pc = "loop"
  /\ ~Again
  /\ fd_mem_unmap
  /\ fd_close
  /\ Exit("return")
  /\ UNCHANGED <<st_size, lex_vars, round, iterations, timer_vars>>

Ended == {"return", "return_1", "no_memory", "segmentation_fault",
          "null_dereference", "use_after_free", "bad_free"}

Terminating == pc \in Ended /\ UNCHANGED vars

main == \/ main_start \/ main_open \/ main_map \/ main_lexetize \/ main_lexetized
        \/ main_print \/ main_free \/ main_parse \/ main_release \/ main_report

lex_speed == \/ lex_speed_start \/ lex_speed_lexetize \/ lex_speed_lexetized
             \/ lex_speed_free \/ lex_speed_release

Next == main \/ lex_speed \/ lex_append_tok \/ lex_last \/ Terminating

Spec == Init /\ [][Next]_vars
-----------------------------------------------------------------------------
Roles == {"const_str_map", "keys", "values", "tok_array", "pos_array", "text",
          "tok_vec", "pos_vec", "tok_buffer", "pos_buffer"}

TypeOK ==
  /\ program \in {"main", "lex_speed"}
  /\ pc \in {"start", "open", "map", "lexetize", "lexing", "lexed", "print",
             "free", "parse", "release", "report", "loop"} \cup Ended
  /\ st_size \in FileSizes
  /\ fd \in BOOLEAN /\ mapped \in BOOLEAN
  /\ data \in {"null", "mapped"} /\ length \in Nat
  /\ heap \subseteq Roles \X (0..MaxRounds) \X Nat
  /\ tokens \in Seq({"text", "value"})
  /\ tok_capacity \in Nat
  /\ round \in 0..MaxRounds /\ iterations \in 0..MaxRounds
  /\ now \in Nat
  /\ start_times \in [Timer_ID -> timespec] /\ end_times \in [Timer_ID -> timespec]

(***************************************************************************)
(* No block is printed from or freed that is not allocated: the arrays     *)
(* that the vectors of a module hold are those of the last growth, and     *)
(* each text is freed with the token that owns it.                         *)
(***************************************************************************)
HeapIsUsedSafely == pc \notin {"use_after_free", "bad_free"}

(***************************************************************************)
(* Once a module is freed, every lexetize has left exactly five blocks     *)
(* behind: the keyword map with its keys and values, and the two buffers   *)
(* whose pointers it overwrote.  No array, vector or text is among them.   *)
(***************************************************************************)
LeaksPerRound ==
  pc \in {"parse", "release", "report", "loop", "return"} =>
    heap = {"const_str_map", "keys", "values", "tok_buffer", "pos_buffer"}
             \X (0..(round - 1)) \X {0}

(***************************************************************************)
(* However a program returns, mmap having failed or not, the descriptor is *)
(* closed and nothing is mapped.                                           *)
(***************************************************************************)
ReleasesItsResources == pc \in {"return", "return_1"} => ~fd /\ ~mapped

(***************************************************************************)
(* A read faults only when there is no mapping (an empty file, a failure), *)
(* when the file fills its last page but for one byte at most, or when     *)
(* fd_size cut the size of the file down to an int.                        *)
(***************************************************************************)
OnlyTheseFilesFault ==
  pc = "segmentation_fault" =>
    \/ data = "null"
    \/ length % PageSize \in {0, PageSize - 1}
    \/ length # st_size

(***************************************************************************)
(* In main's report no duration is negative, and the three phases take no  *)
(* longer than the whole, although seconds and nanoseconds are subtracted  *)
(* apart.  A duration is missing where a reading fell on a full second,    *)
(* for timespecs are known to be unset by their nanoseconds alone.         *)
(***************************************************************************)
Phases == {"FILE_READ", "LEXETIZE", "PARSE"}

ReportIsSound ==
  program = "main" /\ pc = "return" =>
    LET Ticks(id) == timer_report(id).ticks
        Timed(id) == timer_report(id).text = "duration"
    IN  /\ \A id \in Timer_ID : Timed(id) => id \in Phases \cup {"TOTAL"} /\ Ticks(id) >= 0
        /\ Timed("TOTAL") =>
             Ticks("FILE_READ") + Ticks("LEXETIZE") + Ticks("PARSE") <= Ticks("TOTAL")
        /\ \A id \in Phases \cup {"TOTAL"} :
             Timed(id) \/ 0 \in {start_times[id].tv_nsec, end_times[id].tv_nsec}
=============================================================================
