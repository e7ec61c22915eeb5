-------------------------- MODULE WakProgramProofs --------------------------
(* The two programs, for files of every size, pages of every size, any     *)
(* number of tokens and rounds, and calls that fail whenever they like.    *)
EXTENDS WakProgram, TLAPS

-----------------------------------------------------------------------------
(* The inductive invariant, one part for each concern of the programs.     *)

(* main runs one round, lex_speed no more than it was asked for. *)
LoopInv ==
  /\ round \in Nat /\ iterations \in 0..MaxRounds
  /\ round <= iterations
  /\ pc = "start" => round = 0
  /\ pc \in {"start", "open", "map", "lexetize", "lexing", "lexed", "print", "free"}
       => round < iterations

(* What the freed modules of the rounds before have left in the heap. *)
Leaked(n) ==
  {"const_str_map", "keys", "values", "tok_buffer", "pos_buffer"} \X (0..(n - 1)) \X {0}

(* The heap at each point of a program that is still running. *)
HeapInv ==
  /\ pc \in {"start", "open", "map", "lexetize", "loop", "parse", "release",
             "report", "return"} => heap = Leaked(round)
  /\ pc \in {"lexing", "lexed"} =>
       heap = Leaked(round) \cup MapBlocks \cup Arrays(tok_capacity) \cup Texts
  /\ pc \in {"print", "free"} =>
       heap = Leaked(round) \cup MapBlocks \cup Arrays(tok_capacity) \cup Texts
                \cup Vectors \cup Orphans
  /\ HeapIsUsedSafely

(* Nothing is held before it is acquired, nor when it has been released. *)
ResourceInv ==
  /\ pc \in {"start", "open", "report", "return", "return_1"} => ~fd
  /\ pc \in {"start", "open", "map", "report", "return", "return_1"} => ~mapped

(* The mapped_file is what fd_mem_map returns. *)
FileInv ==
  /\ data = "mapped" => length = fd_size(st_size) /\ length > 0
  /\ data = "null" => length = 0

(* A time stamp in ticks. *)
TicksOf(stamp) == stamp.tv_sec * NsecPerSec + stamp.tv_nsec

StartOf(id) == TicksOf(start_times[id])
EndOf(id) == TicksOf(end_times[id])

(* Where main is when it has called timer_start or timer_end so many times. *)
AfterReport == {"return"}
AfterParse == AfterReport \cup {"report"}
ParseBegun == AfterParse \cup {"release"}
AfterLexetize == ParseBegun \cup {"print", "free", "parse"}
LexetizeBegun == AfterLexetize \cup {"lexing", "lexed"}
AfterRead == LexetizeBegun \cup {"lexetize"}
ReadBegun == AfterRead \cup {"map"}
TotalBegun == ReadBegun \cup {"open"}

(* The stamps that main has taken are in the order in which it took them,  *)
(* and the timers it does not use are not set.                             *)
TimerInv ==
  program = "main" =>
    /\ \A id \in Timer_ID \ {"TOTAL", "FILE_READ", "LEXETIZE", "PARSE"} :
         start_times[id] = Stamp(0)
    /\ pc \in TotalBegun => StartOf("TOTAL") <= now
    /\ pc \in ReadBegun => /\ StartOf("TOTAL") <= StartOf("FILE_READ")
                           /\ StartOf("FILE_READ") <= now
    /\ pc \in AfterRead => /\ StartOf("FILE_READ") <= EndOf("FILE_READ")
                           /\ EndOf("FILE_READ") <= now
    /\ pc \in LexetizeBegun => /\ EndOf("FILE_READ") <= StartOf("LEXETIZE")
                               /\ StartOf("LEXETIZE") <= now
    /\ pc \in AfterLexetize => /\ StartOf("LEXETIZE") <= EndOf("LEXETIZE")
                               /\ EndOf("LEXETIZE") <= now
    /\ pc \in ParseBegun => /\ EndOf("LEXETIZE") <= StartOf("PARSE")
                            /\ StartOf("PARSE") <= now
    /\ pc \in AfterParse => /\ StartOf("PARSE") <= EndOf("PARSE")
                            /\ EndOf("PARSE") <= now
    /\ pc \in AfterReport => /\ EndOf("PARSE") <= EndOf("TOTAL")
                             /\ EndOf("TOTAL") <= now

ProgramInv ==
  /\ TypeOK
  /\ LoopInv
  /\ HeapInv
  /\ ResourceInv
  /\ FileInv
  /\ OnlyTheseFilesFault
  /\ TimerInv

-----------------------------------------------------------------------------
(* LoopInv: rounds are counted up to the iterations asked for. *)

(* The steps of main keep it. *)
LEMMA MainKeepsLoopInv ==
  ASSUME ProgramAssumption, LoopInv, main
  PROVE  LoopInv'
<1>1. CASE main_start \/ main_open \/ main_map \/ main_lexetize \/ main_lexetized
  BY <1>1 DEF LoopInv, main_start, main_open, main_map, main_lexetize, main_lexetized,
       In, Exit, NoMemory, lex_state_init, lexetize_return
<1>2. CASE main_print \/ main_free \/ main_parse \/ main_release \/ main_report
  BY <1>2 DEF LoopInv, main_print, main_free, main_parse, main_release, main_report,
       In, Exit, token_module_free
<1> QED
  BY <1>1, <1>2 DEF main

(* The steps of lex_speed keep it. *)
LEMMA SpeedKeepsLoopInv ==
  ASSUME ProgramAssumption, LoopInv, lex_speed
  PROVE  LoopInv'
BY DEF LoopInv, lex_speed, lex_speed_start, lex_speed_lexetize, lex_speed_lexetized,
  lex_speed_free, lex_speed_release, In, Exit, Again, NoMemory, lex_state_init,
  lexetize_return, token_module_free, ProgramAssumption

(* So do the lexer's, which are no part of a loop. *)
LEMMA LexKeepsLoopInv ==
  ASSUME LoopInv, lex_append_tok \/ lex_last \/ Terminating \/ UNCHANGED vars
  PROVE  LoopInv'
BY DEF LoopInv, lex_append_tok, lex_last, Terminating, vars, Appended, Fault, NoMemory, loop_vars

-----------------------------------------------------------------------------
(* The file: what is open, what is mapped, and which bytes are there.      *)

(* ResourceInv is kept by every step. *)
LEMMA NextKeepsResourceInv ==
  ASSUME ProgramAssumption, ResourceInv, [Next]_vars
  PROVE  ResourceInv'
<1>1. CASE main
  <2>1. CASE main_start \/ main_open \/ main_map \/ main_lexetize \/ main_lexetized
    BY <2>1 DEF ResourceInv, main_start, main_open, main_map, main_lexetize, main_lexetized,
         In, Exit, NoMemory, lex_state_init, lexetize_return, file_vars
  <2>2. CASE main_print \/ main_free \/ main_parse \/ main_release \/ main_report
    BY <2>2 DEF ResourceInv, main_print, main_free, main_parse, main_release, main_report,
         In, Exit, token_module_free, file_vars, fd_close, fd_mem_unmap
  <2> QED
    BY <1>1, <2>1, <2>2 DEF main
<1>2. CASE lex_speed
  BY <1>2 DEF ResourceInv, lex_speed, lex_speed_start, lex_speed_lexetize,
    lex_speed_lexetized, lex_speed_free, lex_speed_release, In, Exit, NoMemory,
    lex_state_init, lexetize_return, token_module_free, file_vars, fd_close, fd_mem_unmap
<1>3. CASE lex_append_tok \/ lex_last \/ Terminating \/ UNCHANGED vars
  BY <1>3 DEF ResourceInv, lex_append_tok, lex_last, Terminating, vars, Appended, Fault,
    NoMemory, file_vars
<1> QED
  BY <1>1, <1>2, <1>3 DEF Next

(* fd_mem_map maps the size it got, or returns null and 0. *)
LEMMA MapKeepsFileInv ==
  ASSUME fd_mem_map, st_size' = st_size
  PROVE  FileInv'
BY DEF fd_mem_map, FileInv, fd_size

(* fd_mem_unmap returns null and 0. *)
LEMMA UnmapKeepsFileInv ==
  ASSUME fd_mem_unmap
  PROVE  FileInv'
BY DEF fd_mem_unmap, FileInv

(* FileInv is kept by every step. *)
LEMMA NextKeepsFileInv ==
  ASSUME FileInv, [Next]_vars
  PROVE  FileInv'
<1>1. CASE UNCHANGED <<st_size, data, length>>
  BY <1>1 DEF FileInv, fd_size
<1>2. CASE main
  <2>1. CASE main_map
    BY <2>1, MapKeepsFileInv DEF main_map
  <2>2. CASE main_release
    BY <2>2, UnmapKeepsFileInv DEF main_release
  <2>3. CASE ~main_map /\ ~main_release
    BY <1>1, <1>2, <2>3 DEF main, main_start, main_open, main_lexetize, main_lexetized,
      main_print, main_free, main_parse, main_report, file_vars
  <2> QED
    BY <2>1, <2>2, <2>3
<1>3. CASE lex_speed
  <2>1. CASE lex_speed_start
    BY <1>1, <2>1, MapKeepsFileInv DEF lex_speed_start
  <2>2. CASE lex_speed_release
    BY <2>2, UnmapKeepsFileInv DEF lex_speed_release
  <2>3. CASE ~lex_speed_start /\ ~lex_speed_release
    BY <1>1, <1>3, <2>3 DEF lex_speed, lex_speed_lexetize, lex_speed_lexetized,
      lex_speed_free, file_vars
  <2> QED
    BY <2>1, <2>2, <2>3
<1>4. CASE lex_append_tok \/ lex_last \/ Terminating \/ UNCHANGED vars
  BY <1>1, <1>4 DEF lex_append_tok, lex_last, Terminating, vars, file_vars
<1> QED
  BY <1>2, <1>3, <1>4 DEF Next

(* The two bytes behind a file are on its last page, unless they begin one. *)
LEMMA OnTheLastPage ==
  ASSUME NEW n \in Nat \ {0}, NEW p \in Nat \ {0}, n % p # 0, n % p # p - 1
  PROVE  n \div p = (n - 1) \div p /\ (n + 1) \div p = (n - 1) \div p
<1> DEFINE q == n \div p
<1> DEFINE r == n % p
<1>1. q \in Nat /\ r \in 1..(p - 2) /\ n = q * p + r
  BY SMTT(20)
<1> HIDE DEF q, r
<1>2. \A k \in 0..(p - 1) : (q * p + k) \div p = q
  BY <1>1, SMTT(20)
<1>3. n - 1 = q * p + (r - 1) /\ n + 1 = q * p + (r + 1)
  BY <1>1, SMTT(20)
<1>4. (q * p + r) \div p = q /\ (q * p + (r - 1)) \div p = q /\ (q * p + (r + 1)) \div p = q
  BY <1>1, <1>2
<1> QED
  BY <1>1, <1>3, <1>4

(* A file that is mapped whole and does not fill its last page is followed *)
(* by at least two bytes that are NUL.                                     *)
LEMMA TwoNulsBehindTheFile ==
  ASSUME ProgramAssumption, FileInv, st_size \in Nat, length \in Nat, data = "mapped",
         length = st_size, length % PageSize # 0, length % PageSize # PageSize - 1
  PROVE  BytesAt(LastByte) = {"NUL"} /\ BytesAt(LastByte + 1) = {"NUL"}
<1>1. length # 0
  BY DEF FileInv
<1>2. /\ length \div PageSize = (length - 1) \div PageSize
      /\ (length + 1) \div PageSize = (length - 1) \div PageSize
      /\ (length - 1) \div PageSize \in Int
  <2>1. PageSize \in Nat \ {0} /\ length \in Nat \ {0}
    BY <1>1 DEF ProgramAssumption
  <2>2. (length - 1) \div PageSize \in Int
    BY <2>1, SMTT(20)
  <2> QED
    BY <2>1, <2>2, OnTheLastPage
<1> QED
  BY <1>2 DEF BytesAt, LastByte

(* OnlyTheseFilesFault is kept by every step. *)
LEMMA NextKeepsOnlyTheseFilesFault ==
  ASSUME ProgramAssumption, TypeOK, FileInv, OnlyTheseFilesFault, [Next]_vars
  PROVE  OnlyTheseFilesFault'
<1>1. CASE lex_last
  <2> SUFFICES ASSUME data = "mapped", length = st_size, length % PageSize # 0,
                      length % PageSize # PageSize - 1
               PROVE  pc' # "segmentation_fault"
    BY <1>1 DEF OnlyTheseFilesFault, lex_last, file_vars, TypeOK
  <2>1. BytesAt(LastByte) = {"NUL"} /\ BytesAt(LastByte + 1) = {"NUL"}
    BY TwoNulsBehindTheFile DEF TypeOK, ProgramAssumption
  <2> QED
    BY <1>1, <2>1 DEF lex_last, Appended, NoMemory
<1>2. CASE pc' = "segmentation_fault" => UNCHANGED <<pc, st_size, data, length>>
  BY <1>2 DEF OnlyTheseFilesFault
<1>3. CASE main
  BY <1>2, <1>3 DEF main, main_start, main_open, main_map, main_lexetize, main_lexetized,
    main_print, main_free, main_parse, main_release, main_report, In, Exit, NoMemory,
    lex_state_init, lexetize_return, token_module_free
<1>4. CASE lex_speed
  BY <1>2, <1>4 DEF lex_speed, lex_speed_start, lex_speed_lexetize, lex_speed_lexetized,
    lex_speed_free, lex_speed_release, In, Exit, NoMemory, lex_state_init,
    lexetize_return, token_module_free
<1>5. CASE lex_append_tok \/ Terminating \/ UNCHANGED vars
  BY <1>2, <1>5 DEF lex_append_tok, Appended, NoMemory, Terminating, vars
<1> QED
  BY <1>1, <1>3, <1>4, <1>5 DEF Next

-----------------------------------------------------------------------------
(* HeapInv: which blocks are allocated.                                    *)

(* Blocks that differ in their role, their round or their number differ. *)
LEMMA BlocksDiffer ==
  ASSUME NEW q, NEW r, NEW m, NEW n
  PROVE  Block(q, m) = Block(r, n) <=> q = r /\ m = n
BY DEF Block

(* An earlier round's block is none of this round's. *)
LEMMA LeakedIsOlder ==
  ASSUME round \in Nat, NEW r, NEW n
  PROVE  Block(r, n) \notin Leaked(round)
BY DEF Block, Leaked

(* A round adds the keyword map and the two lost buffers. *)
LEMMA OneRoundMore ==
  ASSUME round \in Nat
  PROVE  Leaked(round + 1) = Leaked(round) \cup MapBlocks \cup Orphans
<1> DEFINE roles == {"const_str_map", "keys", "values", "tok_buffer", "pos_buffer"}
<1>1. 0..(round + 1 - 1) = (0..(round - 1)) \cup {round}
  OBVIOUS
<1>2. roles \X {round} \X {0} = MapBlocks \cup Orphans
  BY DEF MapBlocks, Orphans, Block
<1>3. Leaked(round + 1) = roles \X (0..(round + 1 - 1)) \X {0}
  BY DEF Leaked
<1>4. Leaked(round) = roles \X (0..(round - 1)) \X {0}
  BY DEF Leaked
<1> QED
  BY <1>1, <1>2, <1>3, <1>4

(* What token_module_free frees is there, and the rest is what is leaked. *)
LEMMA FreeLeavesTheLeaked ==
  ASSUME round \in Nat,
         heap = Leaked(round) \cup MapBlocks \cup Arrays(tok_capacity) \cup Texts
                  \cup Vectors \cup Orphans
  PROVE  /\ ModuleBlocks \subseteq heap
         /\ heap \ ModuleBlocks = Leaked(round + 1)
<1>1. \A b \in ModuleBlocks : b \notin Leaked(round)
  BY LeakedIsOlder DEF ModuleBlocks, Texts, Arrays, Vectors
<1>2. \A b \in ModuleBlocks : b \notin MapBlocks \cup Orphans
  BY DEF ModuleBlocks, Texts, Arrays, Vectors, MapBlocks, Orphans, Block
<1>3. heap = Leaked(round + 1) \cup ModuleBlocks
  BY OneRoundMore DEF ModuleBlocks
<1>4. ModuleBlocks \cap Leaked(round + 1) = {}
  BY <1>1, <1>2, OneRoundMore
<1> QED
  BY <1>3, <1>4

(* lex_append_tok: the arrays are those of the new capacity. *)
LEMMA AppendedKeepsHeapInv ==
  ASSUME TypeOK, HeapInv, pc = "lexing", round \in Nat, round' = round,
         NEW kind, NEW then \in {"lexing", "lexed"}, Appended(kind, then)
  PROVE  HeapInv'
<1>1. CASE NoMemory
  BY <1>1 DEF NoMemory, HeapInv, HeapIsUsedSafely
<1>2. CASE ~NoMemory
  <2> DEFINE full == Len(tokens) >= tok_capacity
  <2> DEFINE capacity == IF full THEN 2 * tok_capacity ELSE tok_capacity
  <2> DEFINE text == {Block("text", Len(tokens) + 1) : k \in {kind} \cap {"text"}}
  <2>1. /\ pc' = then
        /\ tokens' = Append(tokens, kind)
        /\ tok_capacity' = capacity
        /\ heap' = (heap \ Arrays(tok_capacity)) \cup Arrays(capacity) \cup text
    BY <1>2 DEF Appended
  <2> HIDE DEF full, capacity
  <2>2. heap = Leaked(round) \cup MapBlocks \cup Arrays(tok_capacity) \cup Texts
    BY DEF HeapInv
  <2>3. \A b \in Arrays(tok_capacity) : b \notin Leaked(round) \cup MapBlocks \cup Texts
    BY LeakedIsOlder DEF Arrays, MapBlocks, Texts, Block
  <2>4. heap' = Leaked(round) \cup MapBlocks \cup Arrays(capacity) \cup (Texts \cup text)
    BY <2>1, <2>2, <2>3
  <2>5. Texts' = Texts \cup text
    <3>1. Len(tokens) \in Nat /\ DOMAIN tokens = 1..Len(tokens)
      BY DEF TypeOK
    <3>2. DOMAIN tokens' = 1..(Len(tokens) + 1)
      BY <2>1 DEF TypeOK
    <3>3. \A j \in 1..Len(tokens) : tokens'[j] = tokens[j]
      BY <2>1 DEF TypeOK
    <3>4. tokens'[Len(tokens) + 1] = kind
      BY <2>1 DEF TypeOK
    <3>5. \A j : j \in DOMAIN tokens' /\ tokens'[j] = "text" <=>
                 \/ j \in DOMAIN tokens /\ tokens[j] = "text"
                 \/ j = Len(tokens) + 1 /\ kind = "text"
      BY <3>1, <3>2, <3>3, <3>4
    <3>6. CASE kind = "text"
      <4>1. text = {Block("text", Len(tokens) + 1)}
        BY <3>6
      <4> QED
        BY <3>5, <3>6, <4>1 DEF Texts, Block
    <3>7. CASE kind # "text"
      <4>1. text = {}
        BY <3>7
      <4> QED
        BY <3>5, <3>7, <4>1 DEF Texts, Block
    <3> QED
      BY <3>6, <3>7
  <2>6. /\ Leaked(round)' = Leaked(round) /\ MapBlocks' = MapBlocks
        /\ Arrays(tok_capacity)' = Arrays(capacity)
    BY <2>1 DEF Leaked, MapBlocks, Arrays, Block
  <2> QED
    BY <2>1, <2>4, <2>5, <2>6 DEF HeapInv, HeapIsUsedSafely
<1> QED
  BY <1>1, <1>2

(* lex_state_init allocates the map and the arrays of a module without     *)
(* texts.                                                                  *)
LEMMA InitKeepsHeapInv ==
  ASSUME HeapInv, pc \in {"lexetize", "loop"}, round' = round, lex_state_init
  PROVE  HeapInv'
<1>1. CASE NoMemory
  BY <1>1 DEF NoMemory, HeapInv, HeapIsUsedSafely
<1>2. CASE ~NoMemory
  <2>1. pc' = "lexing" /\ heap' = heap \cup MapBlocks \cup Arrays(InitCap)
        /\ tokens' = << >> /\ tok_capacity' = InitCap
    BY <1>2 DEF lex_state_init
  <2>2. Texts' = {}
    BY <2>1 DEF Texts
  <2>3. Leaked(round)' = Leaked(round) /\ MapBlocks' = MapBlocks
        /\ Arrays(tok_capacity)' = Arrays(InitCap)
    BY <2>1 DEF Leaked, MapBlocks, Arrays, Block
  <2>4. heap = Leaked(round)
    BY DEF HeapInv
  <2> QED
    BY <2>1, <2>2, <2>3, <2>4 DEF HeapInv, HeapIsUsedSafely
<1> QED
  BY <1>1, <1>2

(* lexetize returns the vectors, and forgets their first buffers. *)
LEMMA ReturnKeepsHeapInv ==
  ASSUME HeapInv, round' = round, NEW then \in {"print", "free"}, lexetize_return(then)
  PROVE  HeapInv'
<1>1. CASE NoMemory
  BY <1>1 DEF NoMemory, HeapInv, HeapIsUsedSafely
<1>2. CASE ~NoMemory
  <2>1. /\ pc = "lexed" /\ pc' = then
        /\ heap' = heap \cup Vectors \cup Orphans
        /\ UNCHANGED <<tokens, tok_capacity>>
    BY <1>2 DEF lexetize_return
  <2>2. /\ Leaked(round)' = Leaked(round) /\ MapBlocks' = MapBlocks /\ Texts' = Texts
        /\ Arrays(tok_capacity)' = Arrays(tok_capacity)
        /\ Vectors' = Vectors /\ Orphans' = Orphans
    BY <2>1 DEF Leaked, MapBlocks, Arrays, Texts, Vectors, Orphans, Block
  <2>3. heap = Leaked(round) \cup MapBlocks \cup Arrays(tok_capacity) \cup Texts
    BY <2>1 DEF HeapInv
  <2> QED
    BY <2>1, <2>2, <2>3 DEF HeapInv, HeapIsUsedSafely
<1> QED
  BY <1>1, <1>2

(* token_module_free ends the round. *)
LEMMA FreeKeepsHeapInv ==
  ASSUME HeapInv, round \in Nat, NEW then \in {"parse", "loop"}, token_module_free(then)
  PROVE  HeapInv'
<1>1. heap = Leaked(round) \cup MapBlocks \cup Arrays(tok_capacity) \cup Texts
                \cup Vectors \cup Orphans
  BY DEF HeapInv, token_module_free
<1>2. ModuleBlocks \subseteq heap /\ heap \ ModuleBlocks = Leaked(round + 1)
  BY <1>1, FreeLeavesTheLeaked
<1>3. pc' = then /\ heap' = Leaked(round + 1) /\ round' = round + 1
  BY <1>2 DEF token_module_free
<1> QED
  BY <1>3 DEF HeapInv, HeapIsUsedSafely

(* The heap's part of the state, where no block comes or goes. *)
LEMMA SameHeap ==
  ASSUME HeapInv, UNCHANGED <<heap, tokens, tok_capacity, round>>,
         \/ pc' = pc
         \/ pc' \in {"return_1", "segmentation_fault", "null_dereference"}
         \/ pc = "print" /\ pc' = "free"
         \/ /\ pc \in {"start", "open", "map", "lexetize", "loop", "parse", "release",
                       "report"}
            /\ pc' \in {"open", "map", "lexetize", "loop", "release", "report", "return"}
  PROVE  HeapInv'
<1>1. /\ Leaked(round)' = Leaked(round) /\ MapBlocks' = MapBlocks /\ Texts' = Texts
      /\ Arrays(tok_capacity)' = Arrays(tok_capacity)
      /\ Vectors' = Vectors /\ Orphans' = Orphans
  BY DEF Leaked, MapBlocks, Arrays, Texts, Vectors, Orphans, Block
<1> QED
  BY <1>1 DEF HeapInv, HeapIsUsedSafely

(* HeapInv is kept by every step. *)
LEMMA NextKeepsHeapInv ==
  ASSUME TypeOK, LoopInv, HeapInv, [Next]_vars
  PROVE  HeapInv'
<1>1. round \in Nat
  BY DEF LoopInv
<1>2. CASE main
  <2>1. CASE main_start \/ main_open \/ main_map
    BY <2>1, SameHeap DEF main_start, main_open, main_map, Exit, lex_vars
  <2>2. CASE main_lexetize
    BY <2>2, InitKeepsHeapInv DEF main_lexetize
  <2>3. CASE main_lexetized
    BY <2>3, ReturnKeepsHeapInv DEF main_lexetized
  <2>4. CASE main_print
    <3>1. ModuleBlocks \subseteq heap
      BY <2>4 DEF main_print, HeapInv, ModuleBlocks
    <3> QED
      BY <2>4, <3>1, SameHeap DEF main_print, lex_vars, loop_vars
  <2>5. CASE main_free
    BY <1>1, <2>5, FreeKeepsHeapInv DEF main_free
  <2>6. CASE main_parse \/ main_release \/ main_report
    BY <2>6, SameHeap DEF main_parse, main_release, main_report, Exit, lex_vars
  <2> QED
    BY <1>2, <2>1, <2>2, <2>3, <2>4, <2>5, <2>6 DEF main
<1>3. CASE lex_speed
  <2>1. CASE lex_speed_start \/ lex_speed_release
    BY <2>1, SameHeap DEF lex_speed_start, lex_speed_release, Exit, lex_vars
  <2>2. CASE lex_speed_lexetize
    BY <2>2, InitKeepsHeapInv DEF lex_speed_lexetize
  <2>3. CASE lex_speed_lexetized
    BY <2>3, ReturnKeepsHeapInv DEF lex_speed_lexetized
  <2>4. CASE lex_speed_free
    BY <1>1, <2>4, FreeKeepsHeapInv DEF lex_speed_free
  <2> QED
    BY <1>3, <2>1, <2>2, <2>3, <2>4 DEF lex_speed
<1>4. CASE lex_append_tok
  BY <1>1, <1>4, AppendedKeepsHeapInv DEF lex_append_tok, loop_vars
<1>5. CASE lex_last
  <2>1. pc = "lexing" /\ round' = round
    BY <1>5 DEF lex_last, loop_vars
  <2>2. Fault \/ \E kind : Appended(kind, "lexed")
    BY <1>5 DEF lex_last
  <2> QED
    BY <1>1, <2>1, <2>2, AppendedKeepsHeapInv, SameHeap DEF Fault, lex_vars
<1>6. CASE Terminating \/ UNCHANGED vars
  BY <1>6, SameHeap DEF Terminating, vars
<1> QED
  BY <1>2, <1>3, <1>4, <1>5, <1>6 DEF Next

-----------------------------------------------------------------------------
(* TypeOK: the file, the heap and the timers apart.                        *)

FileTypeOK ==
  /\ st_size \in FileSizes
  /\ fd \in BOOLEAN /\ mapped \in BOOLEAN
  /\ data \in {"null", "mapped"} /\ length \in Nat

HeapTypeOK ==
  /\ heap \subseteq Roles \X (0..MaxRounds) \X Nat
  /\ tokens \in Seq({"text", "value"})
  /\ tok_capacity \in Nat

TimerTypeOK ==
  /\ now \in Nat
  /\ start_times \in [Timer_ID -> timespec] /\ end_times \in [Timer_ID -> timespec]

(* A time stamp is made of seconds and what is left of one. *)
LEMMA StampIsTimespec ==
  ASSUME NEW t \in Nat
  PROVE  Stamp(t) \in timespec
<1>1. NsecPerSec \in Nat \ {0}
  BY TimeAssumption
<1>2. t \div NsecPerSec \in Nat /\ t % NsecPerSec \in 0..(NsecPerSec - 1)
  BY <1>1, SMTT(20)
<1> QED
  BY <1>2 DEF Stamp, timespec

(* A clock that is read does not go back. *)
LEMMA TimersKeepTheirType ==
  ASSUME TimerTypeOK, NEW id \in Timer_ID, timer_start(id) \/ timer_end(id)
  PROVE  TimerTypeOK'
<1>1. now' \in Nat
  BY TimeAssumption DEF TimerTypeOK, timer_start, timer_end, Tick
<1>2. Stamp(now') \in timespec
  BY <1>1, StampIsTimespec
<1> QED
  BY <1>1, <1>2 DEF TimerTypeOK, timer_start, timer_end

(* The size of a mapping is positive. *)
LEMMA MapKeepsFileType ==
  ASSUME ProgramAssumption, FileTypeOK, fd_mem_map, st_size' = st_size, fd' \in BOOLEAN
  PROVE  FileTypeOK'
<1>1. IntMod \in Nat \ {0} /\ st_size \in Nat
  BY DEF ProgramAssumption, FileTypeOK
<1>2. fd_size(st_size) \in Int
  <2>1. \A n \in Int : n % IntMod \in Int
    BY <1>1, SMTT(20)
  <2>2. IntMod \div 2 \in Int
    BY <1>1
  <2> QED
    BY <1>1, <2>1, <2>2 DEF fd_size
<1>3. CASE data' = "null" /\ length' = 0 /\ UNCHANGED mapped
  BY <1>3 DEF FileTypeOK
<1>4. CASE /\ fd_size(st_size) > 0
           /\ data' = "mapped" /\ length' = fd_size(st_size)
           /\ mapped' = TRUE
  <2>1. length' \in Nat
    BY <1>2, <1>4
  <2> QED
    BY <1>4, <2>1 DEF FileTypeOK
<1> QED
  BY <1>3, <1>4 DEF fd_mem_map

(* Every block of this round is a block. *)
LEMMA BlockType ==
  ASSUME round \in 0..MaxRounds, NEW role \in Roles, NEW n \in Nat
  PROVE  Block(role, n) \in Roles \X (0..MaxRounds) \X Nat
BY DEF Block

(* What the steps of the lexer and token_module_free do to the heap. *)
LEMMA HeapKeepsItsType ==
  ASSUME ProgramAssumption, HeapTypeOK, round \in 0..MaxRounds,
         \/ lex_state_init
         \/ \E kind \in {"text", "value"}, then \in {"lexing", "lexed"} : Appended(kind, then)
         \/ \E then \in {"print", "free"} : lexetize_return(then)
         \/ \E then \in {"parse", "loop"} : token_module_free(then)
         \/ UNCHANGED lex_vars
  PROVE  HeapTypeOK'
<1> DEFINE Blocks == Roles \X (0..MaxRounds) \X Nat
<1>1. \A capacity \in Nat : Arrays(capacity) \subseteq Blocks
  BY BlockType DEF Arrays, Roles
<1>2. MapBlocks \cup Vectors \cup Orphans \subseteq Blocks
  BY BlockType DEF MapBlocks, Vectors, Orphans, Roles
<1>3. CASE lex_state_init
  <2>1. << >> \in Seq({"text", "value"}) /\ InitCap \in Nat
    BY DEF ProgramAssumption
  <2> QED
    BY <1>1, <1>2, <1>3, <2>1 DEF HeapTypeOK, lex_state_init, NoMemory, lex_vars
<1>4. ASSUME NEW kind \in {"text", "value"}, NEW then, Appended(kind, then)
      PROVE  HeapTypeOK'
  <2>1. Len(tokens) \in Nat
    BY DEF HeapTypeOK
  <2>2. {Block("text", Len(tokens) + 1) : k \in {kind} \cap {"text"}} \subseteq Blocks
    BY <2>1, BlockType DEF Roles
  <2>3. Append(tokens, kind) \in Seq({"text", "value"})
    BY DEF HeapTypeOK
  <2>4. tok_capacity \in Nat /\ 2 * tok_capacity \in Nat
    BY DEF HeapTypeOK
  <2> QED
    BY <1>1, <1>4, <2>2, <2>3, <2>4 DEF HeapTypeOK, Appended, NoMemory, lex_vars
<1>5. ASSUME NEW then, lexetize_return(then)
      PROVE  HeapTypeOK'
  BY <1>2, <1>5 DEF HeapTypeOK, lexetize_return, NoMemory, lex_vars
<1>6. ASSUME NEW then, token_module_free(then)
      PROVE  HeapTypeOK'
  BY <1>6 DEF HeapTypeOK, token_module_free
<1>7. CASE UNCHANGED lex_vars
  BY <1>7 DEF HeapTypeOK, lex_vars
<1> QED
  BY <1>3, <1>4, <1>5, <1>6, <1>7

(* A program and its points. *)
LEMMA NextKeepsPointType ==
  ASSUME TypeOK, [Next]_vars
  PROVE  /\ program' \in {"main", "lex_speed"}
         /\ pc' \in {"start", "open", "map", "lexetize", "lexing", "lexed", "print",
                     "free", "parse", "release", "report", "loop"} \cup Ended
<1>1. CASE main
  BY <1>1 DEF TypeOK, Ended, main, main_start, main_open, main_map, main_lexetize,
    main_lexetized, main_print, main_free, main_parse, main_release, main_report, In,
    Exit, NoMemory, lex_state_init, lexetize_return, token_module_free
<1>2. CASE lex_speed
  BY <1>2 DEF TypeOK, Ended, lex_speed, lex_speed_start, lex_speed_lexetize,
    lex_speed_lexetized, lex_speed_free, lex_speed_release, In, Exit, NoMemory,
    lex_state_init, lexetize_return, token_module_free
<1>3. CASE lex_append_tok \/ lex_last \/ Terminating \/ UNCHANGED vars
  BY <1>3 DEF TypeOK, Ended, lex_append_tok, lex_last, Terminating, vars, Appended, Fault,
    NoMemory, loop_vars
<1> QED
  BY <1>1, <1>2, <1>3 DEF Next

(* The timers are started and ended by main only. *)
LEMMA NextKeepsTimerType ==
  ASSUME TimerTypeOK, [Next]_vars
  PROVE  TimerTypeOK'
<1>1. CASE UNCHANGED timer_vars
  BY <1>1 DEF TimerTypeOK, timer_vars
<1>2. CASE \E id \in Timer_ID : timer_start(id) \/ timer_end(id)
  BY <1>2, TimersKeepTheirType
<1>3. CASE main
  BY <1>1, <1>2, <1>3 DEF main, main_start, main_open, main_map, main_lexetize,
    main_lexetized, main_print, main_free, main_parse, main_release, main_report, Timer_ID
<1>4. CASE lex_speed
  BY <1>1, <1>4 DEF lex_speed, lex_speed_start, lex_speed_lexetize, lex_speed_lexetized,
    lex_speed_free, lex_speed_release
<1>5. CASE lex_append_tok \/ lex_last \/ Terminating \/ UNCHANGED vars
  BY <1>1, <1>5 DEF lex_append_tok, lex_last, Terminating, vars
<1> QED
  BY <1>2, <1>3, <1>4, <1>5 DEF Next

(* The descriptor and the mapping. *)
LEMMA NextKeepsFileType ==
  ASSUME ProgramAssumption, FileTypeOK, [Next]_vars
  PROVE  FileTypeOK'
<1>1. CASE UNCHANGED file_vars
  BY <1>1 DEF FileTypeOK, file_vars
<1>2. CASE main
  <2>1. CASE main_open
    BY <2>1 DEF main_open, FileTypeOK
  <2>2. CASE main_map
    BY <2>2, MapKeepsFileType DEF main_map, FileTypeOK
  <2>3. CASE main_release
    BY <2>3 DEF main_release, FileTypeOK, fd_mem_unmap, fd_close
  <2>4. CASE ~main_open /\ ~main_map /\ ~main_release
    BY <1>1, <1>2, <2>4 DEF main, main_start, main_lexetize, main_lexetized,
      main_print, main_free, main_parse, main_report
  <2> QED
    BY <2>1, <2>2, <2>3, <2>4
<1>3. CASE lex_speed
  <2>1. CASE lex_speed_start
    BY <2>1, MapKeepsFileType DEF lex_speed_start, FileTypeOK
  <2>2. CASE lex_speed_release
    BY <2>2 DEF lex_speed_release, FileTypeOK, fd_mem_unmap, fd_close
  <2>3. CASE ~lex_speed_start /\ ~lex_speed_release
    BY <1>1, <1>3, <2>3 DEF lex_speed, lex_speed_lexetize, lex_speed_lexetized,
      lex_speed_free
  <2> QED
    BY <2>1, <2>2, <2>3
<1>4. CASE lex_append_tok \/ lex_last \/ Terminating \/ UNCHANGED vars
  BY <1>1, <1>4 DEF lex_append_tok, lex_last, Terminating, vars, file_vars
<1> QED
  BY <1>2, <1>3, <1>4 DEF Next

(* The heap and the tokens. *)
LEMMA NextKeepsHeapType ==
  ASSUME ProgramAssumption, HeapTypeOK, round \in 0..MaxRounds, [Next]_vars
  PROVE  HeapTypeOK'
<1>1. CASE main
  BY <1>1, HeapKeepsItsType DEF main, main_start, main_open, main_map, main_lexetize,
    main_lexetized, main_print, main_free, main_parse, main_release, main_report
<1>2. CASE lex_speed
  BY <1>2, HeapKeepsItsType DEF lex_speed, lex_speed_start, lex_speed_lexetize,
    lex_speed_lexetized, lex_speed_free, lex_speed_release
<1>3. CASE lex_append_tok \/ lex_last \/ Terminating \/ UNCHANGED vars
  BY <1>3, HeapKeepsItsType DEF lex_append_tok, lex_last, Terminating, vars, lex_vars, Fault
<1> QED
  BY <1>1, <1>2, <1>3 DEF Next

-----------------------------------------------------------------------------
(* TimerInv: the order of the time stamps.                                 *)

(* Seconds and the rest make up the time again. *)
LEMMA TicksOfStamp ==
  ASSUME NEW t \in Nat
  PROVE  TicksOf(Stamp(t)) = t
<1>1. NsecPerSec \in Nat \ {0}
  BY TimeAssumption
<1>2. (t \div NsecPerSec) * NsecPerSec + (t % NsecPerSec) = t
  BY <1>1, SMTT(20)
<1> QED
  BY <1>2 DEF TicksOf, Stamp

(* timer_start stamps one timer with a time that is not before the last. *)
LEMMA StartStamps ==
  ASSUME TimerTypeOK, NEW id \in Timer_ID, timer_start(id)
  PROVE  /\ now <= now' /\ now' \in Nat
         /\ StartOf(id)' = now'
         /\ \A other \in Timer_ID \ {id} : start_times'[other] = start_times[other]
         /\ end_times' = end_times
<1>1. now' \in Nat /\ now <= now'
  BY TimeAssumption DEF TimerTypeOK, timer_start, Tick
<1>2. start_times' = [start_times EXCEPT ![id] = Stamp(now')] /\ end_times' = end_times
  BY DEF timer_start
<1>3. start_times'[id] = Stamp(now')
  BY <1>2 DEF TimerTypeOK
<1> QED
  BY <1>1, <1>2, <1>3, TicksOfStamp DEF StartOf, TimerTypeOK

(* timer_end likewise. *)
LEMMA EndStamps ==
  ASSUME TimerTypeOK, NEW id \in Timer_ID, timer_end(id)
  PROVE  /\ now <= now' /\ now' \in Nat
         /\ EndOf(id)' = now'
         /\ \A other \in Timer_ID \ {id} : end_times'[other] = end_times[other]
         /\ start_times' = start_times
<1>1. now' \in Nat /\ now <= now'
  BY TimeAssumption DEF TimerTypeOK, timer_end, Tick
<1>2. end_times' = [end_times EXCEPT ![id] = Stamp(now')] /\ start_times' = start_times
  BY DEF timer_end
<1>3. end_times'[id] = Stamp(now')
  BY <1>2 DEF TimerTypeOK
<1> QED
  BY <1>1, <1>2, <1>3, TicksOfStamp DEF EndOf, TimerTypeOK

(* The stamps are times. *)
LEMMA StampsAreTimes ==
  ASSUME TimerTypeOK
  PROVE  \A id \in Timer_ID : StartOf(id) \in Nat /\ EndOf(id) \in Nat
<1> SUFFICES ASSUME NEW id \in Timer_ID
             PROVE  StartOf(id) \in Nat /\ EndOf(id) \in Nat
  OBVIOUS
<1>1. start_times[id] \in timespec /\ end_times[id] \in timespec
  BY DEF TimerTypeOK
<1>2. NsecPerSec \in Nat
  BY TimeAssumption
<1>3. \A s, n \in Nat : s * NsecPerSec + n \in Nat
  BY <1>2, SMTT(20)
<1>4. \A stamp \in timespec : TicksOf(stamp) \in Nat
  <2>1. 0..(NsecPerSec - 1) \subseteq Nat
    BY <1>2
  <2> QED
    BY <1>3, <2>1 DEF timespec, TicksOf
<1> QED
  BY <1>1, <1>4 DEF StartOf, EndOf

Points == {"start", "open", "map", "lexetize", "lexing", "lexed", "print",
           "free", "parse", "release", "report", "loop"} \cup Ended

(* Where main stands is all that TimerInv asks of a step without a timer. *)
LEMMA SameTimers ==
  ASSUME TimerInv, UNCHANGED <<program, timer_vars>>,
         \/ pc' = pc
         \/ pc' \in Ended \ {"return"}
         \/ pc \in {"lexing", "lexed"} /\ pc' \in {"lexing", "lexed"}
         \/ pc \in {"print", "free"} /\ pc' \in {"free", "parse"}
  PROVE  TimerInv'
BY DEF TimerInv, StartOf, EndOf, TicksOf, timer_vars, Ended, TotalBegun, ReadBegun, AfterRead,
  LexetizeBegun, AfterLexetize, ParseBegun, AfterParse, AfterReport, Stamp

(* A started timer's stamp is the latest. *)
LEMMA StartKeepsTimerInv ==
  ASSUME TimerTypeOK, TimerInv, program = "main", program' = "main",
         \/ /\ pc = "start" /\ pc' \in {"open", "return_1"} /\ timer_start("TOTAL")
         \/ /\ pc = "open" /\ pc' \in {"map", "return_1"} /\ timer_start("FILE_READ")
         \/ /\ pc = "lexetize" /\ pc' \in {"lexing", "no_memory"} /\ timer_start("LEXETIZE")
         \/ /\ pc = "parse" /\ pc' = "release" /\ timer_start("PARSE")
  PROVE  TimerInv'
<1> USE DEF Timer_ID, TotalBegun, ReadBegun, AfterRead, LexetizeBegun, AfterLexetize,
            ParseBegun, AfterParse, AfterReport
<1>1. \A id \in Timer_ID : StartOf(id) \in Nat /\ EndOf(id) \in Nat
  BY StampsAreTimes
<1>2. now \in Nat
  BY DEF TimerTypeOK
<1>3. CASE pc = "start" /\ pc' \in {"open", "return_1"} /\ timer_start("TOTAL")
  BY <1>1, <1>2, <1>3, StartStamps DEF TimerInv, EndOf, Stamp
<1>4. CASE pc = "open" /\ pc' \in {"map", "return_1"} /\ timer_start("FILE_READ")
  BY <1>1, <1>2, <1>4, StartStamps DEF TimerInv, StartOf, EndOf, Stamp
<1>5. CASE pc = "lexetize" /\ pc' \in {"lexing", "no_memory"} /\ timer_start("LEXETIZE")
  BY <1>1, <1>2, <1>5, StartStamps DEF TimerInv, StartOf, EndOf, Stamp
<1>6. CASE pc = "parse" /\ pc' = "release" /\ timer_start("PARSE")
  BY <1>1, <1>2, <1>6, StartStamps DEF TimerInv, StartOf, EndOf, Stamp
<1> QED
  BY <1>3, <1>4, <1>5, <1>6

(* An ended timer's stamp is the latest. *)
LEMMA EndKeepsTimerInv ==
  ASSUME TimerTypeOK, TimerInv, program = "main", program' = "main",
         \/ /\ pc = "map" /\ pc' = "lexetize" /\ timer_end("FILE_READ")
         \/ /\ pc = "lexed" /\ pc' \in {"print", "no_memory"} /\ timer_end("LEXETIZE")
         \/ /\ pc = "release" /\ pc' = "report" /\ timer_end("PARSE")
         \/ /\ pc = "report" /\ pc' = "return" /\ timer_end("TOTAL")
  PROVE  TimerInv'
<1> USE DEF Timer_ID, TotalBegun, ReadBegun, AfterRead, LexetizeBegun, AfterLexetize,
            ParseBegun, AfterParse, AfterReport
<1>1. \A id \in Timer_ID : StartOf(id) \in Nat /\ EndOf(id) \in Nat
  BY StampsAreTimes
<1>2. now \in Nat
  BY DEF TimerTypeOK
<1>3. CASE pc = "map" /\ pc' = "lexetize" /\ timer_end("FILE_READ")
  BY <1>1, <1>2, <1>3, EndStamps DEF TimerInv, StartOf, EndOf, Stamp
<1>4. CASE pc = "lexed" /\ pc' \in {"print", "no_memory"} /\ timer_end("LEXETIZE")
  BY <1>1, <1>2, <1>4, EndStamps DEF TimerInv, StartOf, EndOf, Stamp
<1>5. CASE pc = "release" /\ pc' = "report" /\ timer_end("PARSE")
  BY <1>1, <1>2, <1>5, EndStamps DEF TimerInv, StartOf, EndOf, Stamp
<1>6. CASE pc = "report" /\ pc' = "return" /\ timer_end("TOTAL")
  BY <1>1, <1>2, <1>6, EndStamps DEF TimerInv, StartOf, EndOf, Stamp
<1> QED
  BY <1>3, <1>4, <1>5, <1>6

(* TimerInv is kept by every step. *)
LEMMA NextKeepsTimerInv ==
  ASSUME TimerTypeOK, TimerInv, [Next]_vars
  PROVE  TimerInv'
<1>1. CASE main
  <2>1. program = "main" /\ program' = "main"
    BY <1>1 DEF main, main_start, main_open, main_map, main_lexetize, main_lexetized,
      main_print, main_free, main_parse, main_release, main_report, In
  <2>2. CASE main_start \/ main_open \/ main_lexetize \/ main_parse
    BY <2>1, <2>2, StartKeepsTimerInv DEF main_start, main_open, main_lexetize, main_parse,
      Exit, lex_state_init, NoMemory
  <2>3. CASE main_map \/ main_lexetized \/ main_release \/ main_report
    BY <2>1, <2>3, EndKeepsTimerInv DEF main_map, main_lexetized, main_release, main_report,
      Exit, lexetize_return, NoMemory
  <2>4. CASE main_print \/ main_free
    BY <2>1, <2>4, SameTimers DEF main_print, main_free, token_module_free, Ended
  <2> QED
    BY <1>1, <2>2, <2>3, <2>4 DEF main
<1>2. CASE lex_speed
  BY <1>2 DEF TimerInv, lex_speed, lex_speed_start, lex_speed_lexetize,
    lex_speed_lexetized, lex_speed_free, lex_speed_release, In
<1>3. CASE lex_append_tok \/ lex_last \/ Terminating \/ UNCHANGED vars
  BY <1>3, SameTimers DEF lex_append_tok, lex_last, Terminating, vars, Appended, Fault,
    NoMemory, loop_vars, Ended
<1> QED
  BY <1>1, <1>2, <1>3 DEF Next

-----------------------------------------------------------------------------
(* The theorems.                                                           *)

(* TypeOK in its parts. *)
LEMMA TypeOKParts ==
  TypeOK <=> /\ program \in {"main", "lex_speed"} /\ pc \in Points
             /\ FileTypeOK /\ HeapTypeOK /\ TimerTypeOK
             /\ round \in 0..MaxRounds /\ iterations \in 0..MaxRounds
BY DEF TypeOK, FileTypeOK, HeapTypeOK, TimerTypeOK, Points

(* The programs start with nothing. *)
LEMMA InitProgramInv ==
  ASSUME ProgramAssumption, Init
  PROVE  ProgramInv
<1> USE DEF Init, TimersInit
<1>1. FileTypeOK /\ HeapTypeOK
  <2>1. << >> \in Seq({"text", "value"})
    OBVIOUS
  <2> QED
    BY <2>1 DEF FileTypeOK, HeapTypeOK
<1>2. TimerTypeOK
  BY StampIsTimespec DEF TimerTypeOK
<1>3. LoopInv /\ TypeOK
  BY <1>1, <1>2, TypeOKParts DEF LoopInv, Points, ProgramAssumption
<1>4. HeapInv
  <2>1. Leaked(0) = {}
    BY DEF Leaked
  <2> QED
    BY <2>1 DEF HeapInv, HeapIsUsedSafely
<1>5. ResourceInv /\ FileInv /\ OnlyTheseFilesFault
  BY DEF ResourceInv, FileInv, OnlyTheseFilesFault
<1>6. TimerInv
  BY DEF TimerInv, TotalBegun, ReadBegun, AfterRead, LexetizeBegun, AfterLexetize,
    ParseBegun, AfterParse, AfterReport
<1> QED
  BY <1>3, <1>4, <1>5, <1>6 DEF ProgramInv

(* Every step keeps the inductive invariant. *)
LEMMA NextKeepsProgramInv ==
  ASSUME ProgramAssumption, ProgramInv, [Next]_vars
  PROVE  ProgramInv'
<1> USE DEF ProgramInv
<1>1. FileTypeOK /\ HeapTypeOK /\ TimerTypeOK /\ round \in 0..MaxRounds
  BY TypeOKParts
<1>2. LoopInv'
  BY MainKeepsLoopInv, SpeedKeepsLoopInv, LexKeepsLoopInv DEF Next
<1>3. round' \in 0..MaxRounds /\ iterations' \in 0..MaxRounds
  BY <1>2 DEF LoopInv, ProgramAssumption
<1>4. TypeOK'
  <2>1. FileTypeOK' /\ HeapTypeOK' /\ TimerTypeOK'
    BY <1>1, NextKeepsFileType, NextKeepsHeapType, NextKeepsTimerType
  <2>2. program' \in {"main", "lex_speed"} /\ pc' \in Points'
    BY NextKeepsPointType DEF Points, Ended
  <2> QED
    BY <1>3, <2>1, <2>2 DEF TypeOK, FileTypeOK, HeapTypeOK, TimerTypeOK, Points
<1>5. HeapInv' /\ ResourceInv' /\ FileInv' /\ OnlyTheseFilesFault' /\ TimerInv'
  BY <1>1, NextKeepsHeapInv, NextKeepsResourceInv, NextKeepsFileInv,
    NextKeepsOnlyTheseFilesFault, NextKeepsTimerInv
<1> QED
  BY <1>2, <1>4, <1>5

(* The inductive invariant holds for every file, page and int, whatever    *)
(* the system and malloc return.                                           *)
THEOREM SpecKeepsProgramInv == Spec => []ProgramInv
<1>1. Init => ProgramInv
  BY InitProgramInv, ProgramAssumption
<1>2. ProgramInv /\ [Next]_vars => ProgramInv'
  BY NextKeepsProgramInv, ProgramAssumption
<1> QED
  BY <1>1, <1>2, PTL DEF Spec

(* Every variable of the programs keeps its type. *)
THEOREM TypeCorrect == Spec => []TypeOK
<1>1. ProgramInv => TypeOK
  BY DEF ProgramInv
<1> QED
  BY <1>1, SpecKeepsProgramInv, PTL

(* HeapIsUsedSafely: nothing is used or freed that is not allocated. *)
THEOREM HeapIsSafe == Spec => []HeapIsUsedSafely
<1>1. ProgramInv => HeapIsUsedSafely
  BY DEF ProgramInv, HeapInv
<1> QED
  BY <1>1, SpecKeepsProgramInv, PTL

(* LeaksPerRound: each round of lexing leaves five blocks, never more. *)
THEOREM FiveBlocksARound == Spec => []LeaksPerRound
<1>1. ProgramInv => LeaksPerRound
  BY DEF ProgramInv, HeapInv, LeaksPerRound, Leaked
<1> QED
  BY <1>1, SpecKeepsProgramInv, PTL

(* ReleasesItsResources: a program that returns has closed and unmapped. *)
THEOREM ResourcesAreReleased == Spec => []ReleasesItsResources
<1>1. ProgramInv => ReleasesItsResources
  BY DEF ProgramInv, ResourceInv, ReleasesItsResources
<1> QED
  BY <1>1, SpecKeepsProgramInv, PTL

(* OnlyTheseFilesFault: which files make the lexer read where no memory is. *)
THEOREM OtherFilesAreRead == Spec => []OnlyTheseFilesFault
<1>1. ProgramInv => OnlyTheseFilesFault
  BY DEF ProgramInv
<1> QED
  BY <1>1, SpecKeepsProgramInv, PTL

(* Seconds and nanoseconds subtracted apart are the difference in ticks. *)
LEMMA DurationIsDifference ==
  ASSUME NEW s \in timespec, NEW e \in timespec
  PROVE  ms_duration(s, e) = TicksOf(e) - TicksOf(s)
<1> DEFINE s_sec == s.tv_sec
<1> DEFINE s_nsec == s.tv_nsec
<1> DEFINE e_sec == e.tv_sec
<1> DEFINE e_nsec == e.tv_nsec
<1>1. NsecPerSec \in Nat
  BY TimeAssumption
<1>2. s_sec \in Int /\ s_nsec \in Int /\ e_sec \in Int /\ e_nsec \in Int
  BY <1>1 DEF timespec
<1>3. /\ ms_duration(s, e) = (e_sec - s_sec) * NsecPerSec + (e_nsec - s_nsec)
      /\ TicksOf(e) = e_sec * NsecPerSec + e_nsec
      /\ TicksOf(s) = s_sec * NsecPerSec + s_nsec
  BY DEF ms_duration, TicksOf
<1> HIDE DEF s_sec, s_nsec, e_sec, e_nsec
<1>4. (e_sec - s_sec) * NsecPerSec + (e_nsec - s_nsec) =
        (e_sec * NsecPerSec + e_nsec) - (s_sec * NsecPerSec + s_nsec)
  BY <1>1, <1>2, SMTT(20)
<1> QED
  BY <1>3, <1>4

(* Stamps in their order make a report that adds up. *)
LEMMA OrderedStampsAddUp ==
  ASSUME TypeOK, TimerInv
  PROVE  ReportIsSound
<1> SUFFICES ASSUME program = "main", pc = "return"
             PROVE  ReportIsSound
  BY DEF ReportIsSound
<1>1. TimerTypeOK
  BY TypeOKParts
<1>2. \A id \in Timer_ID : StartOf(id) \in Nat /\ EndOf(id) \in Nat
  BY <1>1, StampsAreTimes
<1>3. \A id \in Timer_ID :
        ms_duration(start_times[id], end_times[id]) = EndOf(id) - StartOf(id)
  BY <1>1, DurationIsDifference DEF TimerTypeOK, StartOf, EndOf
<1>4. /\ StartOf("TOTAL") <= StartOf("FILE_READ")
      /\ StartOf("FILE_READ") <= EndOf("FILE_READ")
      /\ EndOf("FILE_READ") <= StartOf("LEXETIZE")
      /\ StartOf("LEXETIZE") <= EndOf("LEXETIZE")
      /\ EndOf("LEXETIZE") <= StartOf("PARSE")
      /\ StartOf("PARSE") <= EndOf("PARSE")
      /\ EndOf("PARSE") <= EndOf("TOTAL")
  BY DEF TimerInv, TotalBegun, ReadBegun, AfterRead, LexetizeBegun, AfterLexetize,
    ParseBegun, AfterParse, AfterReport
<1>5. \A id \in Timer_ID \ (Phases \cup {"TOTAL"}) : start_times[id].tv_nsec = 0
  <2>1. Stamp(0).tv_nsec = 0
    BY TimeAssumption, SMTT(20) DEF Stamp
  <2> QED
    BY <2>1 DEF TimerInv, Phases
<1>6. \A id \in Timer_ID :
        LET report == timer_report(id)
        IN  /\ report.text = "duration" => report.ticks = EndOf(id) - StartOf(id)
            /\ report.text = "duration" \/ report.ticks = 0
            /\ \/ report.text = "duration"
               \/ 0 \in {start_times[id].tv_nsec, end_times[id].tv_nsec}
            /\ start_times[id].tv_nsec = 0 => report.text # "duration"
  BY <1>3 DEF timer_report
<1>7. \A id \in Timer_ID :
        timer_report(id).text = "duration" =>
          id \in Phases \cup {"TOTAL"} /\ timer_report(id).ticks >= 0
  <2> SUFFICES ASSUME NEW id \in Timer_ID, timer_report(id).text = "duration"
               PROVE  id \in Phases \cup {"TOTAL"} /\ timer_report(id).ticks >= 0
    OBVIOUS
  <2>1. id \in Phases \cup {"TOTAL"}
    BY <1>5, <1>6
  <2>2. EndOf(id) - StartOf(id) >= 0
    BY <1>2, <1>4, <2>1 DEF Phases, Timer_ID
  <2> QED
    BY <1>6, <2>1, <2>2
<1>8. timer_report("TOTAL").text = "duration" =>
        timer_report("FILE_READ").ticks + timer_report("LEXETIZE").ticks
          + timer_report("PARSE").ticks <= timer_report("TOTAL").ticks
  <2>1. \A id \in {"FILE_READ", "LEXETIZE", "PARSE"} :
          /\ timer_report(id).ticks \in Int
          /\ timer_report(id).ticks <= EndOf(id) - StartOf(id)
    BY <1>2, <1>4, <1>6 DEF Timer_ID
  <2> SUFFICES ASSUME timer_report("TOTAL").text = "duration"
               PROVE  timer_report("FILE_READ").ticks + timer_report("LEXETIZE").ticks
                        + timer_report("PARSE").ticks <= timer_report("TOTAL").ticks
    OBVIOUS
  <2>2. timer_report("TOTAL").ticks = EndOf("TOTAL") - StartOf("TOTAL")
    BY <1>6 DEF Timer_ID
  <2> QED
    BY <1>2, <1>4, <2>1, <2>2 DEF Timer_ID
<1> QED
  BY <1>6, <1>7, <1>8 DEF ReportIsSound, Phases, Timer_ID

(* ReportIsSound: main's report adds up, whatever the time that passed. *)
THEOREM ReportsAddUp == Spec => []ReportIsSound
<1>1. ProgramInv => ReportIsSound
  BY OrderedStampsAddUp DEF ProgramInv
<1> QED
  BY <1>1, SpecKeepsProgramInv, PTL
=============================================================================
