----------------------------- MODULE WakStrMap -----------------------------
(***************************************************************************)
(* The keyword map (const_str_map.h): const_str_map_new sorts the caller's *)
(* array of pairs where it lies and copies it; const_str_map_find_len and  *)
(* const_str_map_find search the copy.  A word is a sequence of character  *)
(* codes without the terminating NUL.  Indices are one larger than in C.   *)
(***************************************************************************)
EXTENDS Integers, Sequences

CONSTANTS
  Tables,   (* the arrays of [key, value] a caller builds a map from       *)
  Words     (* the words looked up                                         *)

(* const_str_map_pair, and what a lookup returns for no pair. *)
Entry == [key : Seq(Nat), value : Nat]
NotFound == -1

ASSUME TablesAssumption ==
  \A t \in Tables : /\ t \in Seq(Entry)
                    /\ t # << >>        \* entry_count - 1 would wrap

ASSUME WordsAssumption ==
  \A w \in Words : w \in Seq(Nat) /\ w # << >>

VARIABLES
  table,    (* the caller's array as it was written                        *)
  pairs,    (* the caller's array as it is now                             *)
  map,      (* keys and values of the map; empty while there is none       *)
  pc,       (* the function running, "ready" or "assert_failed"            *)
  left, right, i,
  word, l, r,
  answer    (* what the last lookup returned                               *)

vars == <<table, pairs, map, pc, left, right, i, word, l, r, answer>>

entry_count == Len(pairs)

NoAnswer == [fn |-> "none", word |-> << >>, value |-> NotFound]
-----------------------------------------------------------------------------
(* strcmp(a, b) < 0: a ends first, or has the lower first different byte. *)
Precedes(a, b) ==
  \E k \in 1..Len(b) :
    /\ \A j \in 1..(k - 1) : j <= Len(a) /\ a[j] = b[j]
    /\ k <= Len(a) => a[k] < b[k]

(* strcmp_len(key, word) = 0: the loop ends at the end of the word, or at  *)
(* the first difference, and never looks whether the key ends there too.   *)
IsPrefix(w, key) == Len(w) <= Len(key) /\ \A j \in 1..Len(w) : key[j] = w[j]

StrcmpLenIsZero(key, w) == IsPrefix(w, key)

OutOfOrder_Descending(p, q) == Precedes(p.key, q.key)  \* mutant

OutOfOrder(p, q) == Precedes(q.key, p.key)

PassOver_OneEarly == i >= right - 1  \* mutant

PassOver == i >= right

Init ==
  /\ table \in Tables
  /\ pairs = table
  /\ map = << >>
  /\ pc = "ready"
  /\ left = 1 /\ right = 1 /\ i = 1
  /\ word = << >> /\ l = 1 /\ r = 0
  /\ answer = NoAnswer

(* Every lexetize builds a map of its own from the same array. *)
const_str_map_new ==
  /\ pc = "ready"
  /\ pc' = "sort"
  /\ left' = 1 /\ right' = entry_count /\ i' = 1
  /\ map' = << >>
  /\ answer' = NoAnswer
  /\ UNCHANGED <<table, pairs, word, l, r>>

(* One iteration of the inner loop. *)
compare ==
  /\ pc = "sort"
  /\ ~PassOver
  /\ IF OutOfOrder(pairs[i], pairs[i + 1])
     THEN /\ pairs' = [pairs EXCEPT ![i] = pairs[i + 1], ![i + 1] = pairs[i]]
          /\ left' = i
     ELSE UNCHANGED <<pairs, left>>
  /\ pc' = IF pairs[i].key = pairs[i + 1].key THEN "assert_failed" ELSE "sort"
  /\ i' = i + 1
  /\ UNCHANGED <<table, map, right, word, l, r, answer>>

(* right = left, left = 0; when right is 0 the map is filled. *)
next_pass ==
  /\ pc = "sort"
  /\ PassOver
  /\ right' = left /\ left' = 1 /\ i' = 1
  /\ IF left > 1
     THEN UNCHANGED <<pc, map>>
     ELSE pc' = "ready" /\ map' = pairs
  /\ UNCHANGED <<table, pairs, word, l, r, answer>>

Return(fn, value) ==
  /\ pc' = "ready"
  /\ answer' = [fn |-> fn, word |-> word, value |-> value]

const_str_map_find_len(w) ==
  /\ pc = "ready"
  /\ map # << >>
  /\ pc' = "find_len"
  /\ word' = w
  /\ i' = 1
  /\ UNCHANGED <<table, pairs, map, left, right, l, r, answer>>

find_len_loop ==
  /\ pc = "find_len"
  /\ i' = i + 1
  /\ \/ /\ StrcmpLenIsZero(map[i].key, word)
        /\ Return("find_len", map[i].value)
     \/ /\ ~StrcmpLenIsZero(map[i].key, word)
        /\ i < Len(map)
        /\ UNCHANGED <<pc, answer>>
     \/ /\ ~StrcmpLenIsZero(map[i].key, word)
        /\ i = Len(map)
        /\ Return("find_len", NotFound)
  /\ UNCHANGED <<table, pairs, map, left, right, word, l, r>>

LastEntry_OnePast == Len(map) + 1  \* mutant

LastEntry == Len(map)

const_str_map_find(w) ==
  /\ pc = "ready"
  /\ map # << >>
  /\ pc' = "find"
  /\ word' = w
  /\ l' = 1
  /\ r' = LastEntry
  /\ UNCHANGED <<table, pairs, map, left, right, i, answer>>

RangeEmpty_OneEarly == l >= r  \* mutant

RangeEmpty == l > r

AfterMid_Stuck(m) == m  \* mutant

AfterMid(m) == m + 1

find_loop ==
  /\ pc = "find"
  /\ LET m == l + (r - l) \div 2
     IN  \/ /\ RangeEmpty
            /\ Return("find", NotFound)
            /\ UNCHANGED <<l, r>>
         \/ /\ ~RangeEmpty
            /\ map[m].key = word
            /\ Return("find", map[m].value)
            /\ UNCHANGED <<l, r>>
         \/ /\ ~RangeEmpty
            /\ Precedes(map[m].key, word)
            /\ l' = AfterMid(m)
            /\ UNCHANGED <<pc, r, answer>>
         \/ /\ ~RangeEmpty
            /\ Precedes(word, map[m].key)
            /\ r' = m - 1
            /\ UNCHANGED <<pc, l, answer>>
  /\ UNCHANGED <<table, pairs, map, left, right, i, word>>

(* The three blocks of the map are freed; nobody calls this yet. *)
const_str_map_free ==
  /\ pc = "ready"
  /\ map # << >>
  /\ map' = << >>
  /\ answer' = NoAnswer
  /\ UNCHANGED <<table, pairs, pc, left, right, i, word, l, r>>

Work == compare \/ next_pass \/ find_len_loop \/ find_loop

(* The failing assertion has trapped (debug_break). *)
Terminating == pc = "assert_failed" /\ UNCHANGED vars

Next ==
  \/ const_str_map_new
  \/ const_str_map_free
  \/ \E w \in Words : const_str_map_find_len(w) \/ const_str_map_find(w)
  \/ Work
  \/ Terminating

Spec == Init /\ [][Next]_vars

(* A function that is running is run on; nobody has to call one. *)
FairSpec == Spec /\ WF_vars(Work)
-----------------------------------------------------------------------------
TypeOK ==
  /\ table \in Seq(Entry)
  /\ pairs \in Seq(Entry)
  /\ Len(pairs) = Len(table) /\ pairs # << >>
  /\ map = << >> \/ map = pairs
  /\ pc \in {"ready", "sort", "find_len", "find", "assert_failed"}
  /\ left \in 1..Len(pairs)
  /\ right \in 1..Len(pairs)
  /\ i \in 1..(Len(pairs) + 1)
  /\ word \in Seq(Nat)
  /\ l \in 1..(Len(pairs) + 1)
  /\ r \in 0..Len(pairs)
  /\ answer \in [fn : {"none", "find_len", "find"}, word : Seq(Nat),
                 value : Nat \cup {NotFound}]

Entries(s) == {s[k] : k \in DOMAIN s}

(***************************************************************************)
(* Bubble sort with its shortcut (right = left) leaves the pairs strictly  *)
(* in strcmp order, loses and mixes up none of them, and lets no duplicate *)
(* key through: the assertion, which only ever sees neighbours, fails if   *)
(* and only if the caller's table has a key twice.  Sorting the caller's   *)
(* array again for the next map changes none of this.                      *)
(***************************************************************************)
SortsOrReports ==
  /\ \A a, b \in DOMAIN map : a < b => Precedes(map[a].key, map[b].key)
  /\ Entries(pairs) = Entries(table)
  /\ pc = "assert_failed" =>
       \E a, b \in DOMAIN table : a # b /\ table[a].key = table[b].key

(***************************************************************************)
(* find_len returns the value of the least key that begins with the word.  *)
(* A keyword spelled out is therefore found even when others begin with    *)
(* it ("null", "nullptr"), only because the map is sorted; and every       *)
(* abbreviation of a keyword finds that keyword.                           *)
(***************************************************************************)
FindLenReturnsTheLeastExtension ==
  answer.fn = "find_len" =>
    LET exts == {p \in Entries(map) : IsPrefix(answer.word, p.key)}
    IN  IF exts = {} THEN answer.value = NotFound
        ELSE \E p \in exts : /\ answer.value = p.value
                             /\ \A q \in exts : q = p \/ Precedes(p.key, q.key)

(***************************************************************************)
(* The binary search finds a key if and only if the map has it.            *)
(***************************************************************************)
FindIsExact ==
  answer.fn = "find" =>
    \/ \E p \in Entries(map) : p.key = answer.word /\ answer.value = p.value
    \/ /\ answer.value = NotFound
       /\ \A p \in Entries(map) : p.key # answer.word

(***************************************************************************)
(* const_str_map_new and both lookups return, or the assertion fails.      *)
(***************************************************************************)
CallsReturn ==
  pc \in {"sort", "find_len", "find"} ~> pc \in {"ready", "assert_failed"}
-----------------------------------------------------------------------------
InOrder(a, b) == Precedes(pairs[a].key, pairs[b].key)

KeysDistinct(s) == \A a, b \in DOMAIN s : s[a].key = s[b].key => a = b

(* Behind `right' and, within a pass, behind `left' everything is in place. *)
SortInv ==
  pc = "sort" =>
    /\ map = << >>
    /\ left <= i /\ i <= right /\ (i = left => i = 1)
    /\ \A b \in DOMAIN pairs :
         b > right \/ (b > left /\ b <= i) =>
           \A a \in 1..(b - 1) : InOrder(a, b)

SearchInv ==
  /\ pc = "find_len" =>
       /\ i <= Len(map) /\ word # << >>
       /\ \A k \in 1..(i - 1) : ~IsPrefix(word, map[k].key)
  /\ pc = "find" =>
       /\ map # << >> /\ l <= r + 1
       /\ \A k \in 1..(l - 1) : Precedes(map[k].key, word)
       /\ \A k \in (r + 1)..Len(map) : Precedes(word, map[k].key)
  /\ map = << >> => answer = NoAnswer

(***************************************************************************)
(* The inductive invariant: what the two loops of the sort have put in     *)
(* order, what the two searches have ruled out, and what they answered.    *)
(***************************************************************************)
StrMapInv ==
  /\ TypeOK
  /\ SortsOrReports
  /\ KeysDistinct(table) => KeysDistinct(pairs)
  /\ SortInv
  /\ SearchInv
  /\ FindLenReturnsTheLeastExtension
  /\ FindIsExact
=============================================================================
