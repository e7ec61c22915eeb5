----------------------------- MODULE WakVector -----------------------------
(***************************************************************************)
(* The vector (src/util/vector.c) and its memory helpers (src/util/mem.c): *)
(* the life of one vector, byte by byte, from vector_new to vector_free.   *)
(* The buffer between start and capacity is a sequence of bytes, and `end' *)
(* the number of bytes in use.  A byte is the k-th byte of a value, or     *)
(* Junk where malloc's memory was never written.                           *)
(***************************************************************************)
EXTENDS Integers, Sequences

CONSTANTS
  Value,      (* the values a client appends                               *)
  TypeSizes,  (* sizes of the element types                                *)
  Counts,     (* counts a client passes to vector_new_count and _expand    *)
  MaxCount,   (* bound: clients stop growing a vector of so many elements  *)
  MaxLost,    (* bound: ... or when so many bytes are left behind          *)
  SizeMax     (* SIZE_MAX: sizes are computed modulo SizeMax + 1           *)

ASSUME VectorAssumption ==
  /\ TypeSizes \subseteq Nat \ {0}
  /\ MaxCount \in Nat /\ MaxLost \in Nat /\ SizeMax \in Nat
  /\ Counts \subseteq 1..MaxCount
  /\ 2 * MaxCount <= SizeMax  \* the sum of two counts does not wrap

VARIABLES
  type_size,
  pc,       (* "unborn", "live", "freed", or how the process died          *)
  buffer,   (* the bytes from start to capacity                            *)
  end,
  lost,     (* history: bytes in buffers that nothing points to            *)
  called    (* history: the functions called so far                        *)

vars == <<type_size, pc, buffer, end, lost, called>>

Junk == <<"junk", 0>>
ElementOf(v) == [k \in 1..type_size |-> <<v, k>>]
Blank(n) == [k \in 1..n |-> Junk]

vector_count == end \div type_size
Contents == SubSeq(buffer, 1, end)

(* The comparison is the wrong way round, so this is always true. *)
vector_full == Len(buffer) >= end

(* memcpy of the bytes s to offset `at' of b, and whether they are all in. *)
Placed(b, at, s) ==
  [k \in 1..Len(b) |-> IF k \in (at + 1)..(at + Len(s)) THEN s[k - at] ELSE b[k]]
Fits(b, at, s) == at >= 0 /\ at + Len(s) <= Len(b)
-----------------------------------------------------------------------------
Init ==
  /\ type_size \in TypeSizes
  /\ pc = "unborn"
  /\ buffer = << >>
  /\ end = 0
  /\ lost = 0
  /\ called = {}

alloc_will_overflow_Never(n) == FALSE  \* mutant

alloc_will_overflow(n) == n # 0 /\ SizeMax \div n < type_size

(* vector_expand_new_buffer(n - vector_count): its buffer, if it gets one. *)
NewBuffer(n) == Blank((n * type_size) % (SizeMax + 1))

Die(how) ==
  /\ pc' = how
  /\ buffer' = << >>
  /\ end' = 0
  /\ UNCHANGED lost

(* alloc_prevent_overflow exits, or malloc fails and the assertion too. *)
NoNewBuffer(n) ==
  \/ alloc_will_overflow(n) /\ Die("exit_ENOMEM")
  \/ ~alloc_will_overflow(n) /\ Die("assert_failed")

(* The buffer is now b, e bytes of it in use, and x bytes more are lost. *)
Use(b, e, x) ==
  /\ pc' = "live"
  /\ buffer' = b
  /\ end' = e
  /\ lost' = lost + x

Remember(f) == called' = called \cup {f} /\ UNCHANGED type_size

(* A client's call in a live vector. *)
Call(f) == pc = "live" /\ lost < MaxLost /\ Remember(f)

(* vector_expand: the old buffer is copied, not freed. *)
Expand(n, e) ==
  \/ NoNewBuffer(n)
  \/ /\ ~alloc_will_overflow(n)
     /\ IF Fits(NewBuffer(n), 0, Contents)
        THEN Use(Placed(NewBuffer(n), 0, Contents), e, Len(buffer))
        ELSE Die("overrun")
-----------------------------------------------------------------------------
(* The vector itself is allocated without a check. *)
vector_new ==
  /\ pc = "unborn"
  /\ Remember("vector_new")
  /\ \/ Use(<< >>, 0, 0)
     \/ Die("null_dereference")

vector_new_count(n) ==
  /\ pc = "unborn"
  /\ Remember("vector_new_count")
  /\ \/ Expand(n, Len(NewBuffer(n)))
     \/ Die("null_dereference")

vector_expand(c) ==
  /\ Call("vector_expand")
  /\ Expand(vector_count + c, end)

GrowBy_One == 1  \* mutant

GrowBy == vector_count + 1

EndAfterAppend_OneByte == end + 1  \* mutant

EndAfterAppend == end + type_size

vector_append(v) ==
  LET n   == vector_count + GrowBy
      new == IF vector_full THEN NewBuffer(n) ELSE buffer
  IN  /\ Call("vector_append")
      /\ vector_count < MaxCount
      /\ \/ vector_full /\ NoNewBuffer(n)
         \/ /\ vector_full => ~alloc_will_overflow(n)
            /\ IF Fits(new, 0, Contents) /\ Fits(new, end, ElementOf(v))
               THEN Use(Placed(Placed(new, 0, Contents), end, ElementOf(v)),
                        EndAfterAppend, IF vector_full THEN Len(buffer) ELSE 0)
               ELSE Die("overrun")

vector_fill(v) ==
  /\ Call("vector_fill")
  /\ Use([k \in 1..Len(buffer) |->
            IF k <= end THEN ElementOf(v)[((k - 1) % type_size) + 1] ELSE buffer[k]],
         end, 0)

(* What is behind the index goes one byte on, where one element is meant. *)
TailOffset(offset) == offset + 1

vector_insert_full(offset) ==
  LET new  == NewBuffer(vector_count + 1)
      head == SubSeq(buffer, 1, offset)
      tail == SubSeq(buffer, offset + 1, end)
  IN  \/ NoNewBuffer(vector_count + 1)
      \/ /\ ~alloc_will_overflow(vector_count + 1)
         /\ IF Fits(new, 0, head) /\ Fits(new, TailOffset(offset), tail)
            THEN Use(Placed(Placed(new, 0, head), TailOffset(offset), tail),
                     end + type_size, Len(buffer))
            ELSE Die("overrun")

(* In place one element at least is moved, wherever the index is. *)
vector_insert_in_place(offset) ==
  LET from == IF offset < end THEN offset ELSE end - type_size
      tail == SubSeq(buffer, from + 1, end)
  IN  IF from >= 0 /\ Fits(buffer, from + type_size, tail)
      THEN Use(Placed(buffer, from + type_size, tail), end + type_size, 0)
      ELSE Die("overrun")

vector_insert(index) ==
  /\ Call("vector_insert")
  /\ vector_count < MaxCount
  /\ IF vector_full THEN vector_insert_full(index * type_size)
                    ELSE vector_insert_in_place(index * type_size)

(* Only the current buffer is freed. *)
vector_free ==
  /\ pc = "live"
  /\ Remember("vector_free")
  /\ Die("freed")

Over == {"freed", "exit_ENOMEM", "assert_failed", "null_dereference", "overrun"}

(* The vector is freed or the process dead. *)
Terminating == pc \in Over /\ UNCHANGED vars

Next ==
  \/ vector_new
  \/ \E n \in Counts : vector_new_count(n) \/ vector_expand(n)
  \/ \E v \in Value : vector_append(v) \/ vector_fill(v)
  \/ \E i \in 0..vector_count : vector_insert(i)
  \/ vector_free
  \/ Terminating

Spec == Init /\ [][Next]_vars
-----------------------------------------------------------------------------
Byte == {Junk} \cup {<<v, k>> : v \in Value, k \in 1..type_size}

TypeOK ==
  /\ type_size \in TypeSizes
  /\ pc \in {"unborn", "live"} \cup Over
  /\ buffer \in Seq(Byte)
  /\ end \in 0..Len(buffer)
  /\ end % type_size = 0
  /\ pc = "unborn" => end = 0
  /\ lost \in Nat

(***************************************************************************)
(* Whatever a client calls in whatever order, no memcpy of vector.c leaves *)
(* the buffer it is given, although sizes are computed modulo SizeMax + 1: *)
(* alloc_prevent_overflow ends the process before a product can wrap.      *)
(***************************************************************************)
InBounds == pc # "overrun"

(***************************************************************************)
(* vector_full is always true and the old buffer is never freed: a vector  *)
(* that was only appended to, like the parser's statements, has left       *)
(* (n-1)^2 elements behind and a buffer of 2n-1 for its n elements.        *)
(***************************************************************************)
MemoryIsQuadratic ==
  pc = "live" /\ called \subseteq {"vector_new", "vector_append"} /\ end > 0 =>
    LET n == vector_count
    IN  /\ lost = (n - 1) * (n - 1) * type_size
        /\ Len(buffer) = (2 * n - 1) * type_size

(***************************************************************************)
(* The elements a client reads are whole: each is a value it appended, or  *)
(* memory nothing was written to.  vector_insert breaks this for elements  *)
(* of more than one byte.                                                  *)
(***************************************************************************)
ElementAt(i) == SubSeq(buffer, (i - 1) * type_size + 1, i * type_size)

ElementsAreWhole ==
  type_size = 1 \/ "vector_insert" \notin called =>
    \A i \in 1..vector_count :
      ElementAt(i) \in {Blank(type_size)} \cup {ElementOf(v) : v \in Value}

Sequence == INSTANCE WakSequence WITH
              bytes <- Contents,
              life  <- CASE pc = "unborn" -> "unborn"
                         [] pc = "live"   -> "live"
                         [] pc \in Over   -> "over"

(***************************************************************************)
(* Through all the buffers and copies, the bytes between start and end are *)
(* those of a sequence that is appended to, filled and inserted into.      *)
(***************************************************************************)
ImplementsTheSequence == Sequence!Spec
=============================================================================
