---------------------------- MODULE WakSequence ----------------------------
(***************************************************************************)
(* What a client sees of a vector (include/wak_lang/util/vector.h): the    *)
(* bytes between start and end, and when the process dies.  There are no   *)
(* buffers, no capacity and no copies here.  A byte is the k-th byte of a  *)
(* value, or Junk where nothing was written.                               *)
(***************************************************************************)
EXTENDS Integers, Sequences

CONSTANTS Value, Counts, TypeSizes

VARIABLES
  type_size,
  bytes,
  life      (* "unborn", "live" or "over"                                  *)

vars == <<type_size, bytes, life>>

Junk == <<"junk", 0>>
ElementOf(v) == [k \in 1..type_size |-> <<v, k>>]
Blank(n) == [k \in 1..n |-> Junk]
count == Len(bytes) \div type_size
-----------------------------------------------------------------------------
Init == type_size \in TypeSizes /\ bytes = << >> /\ life = "unborn"

New(n) == /\ life = "unborn" /\ life' = "live"
          /\ bytes' = Blank(n * type_size)

Change(new) == life = "live" /\ bytes' = new /\ UNCHANGED life

Append_(v) == Change(bytes \o ElementOf(v))

Fill(v) ==
  Change([k \in DOMAIN bytes |-> ElementOf(v)[((k - 1) % type_size) + 1]])

(* An insertion makes the vector one element longer, but moves what is     *)
(* behind the index by one byte.                                           *)
Insert(i) ==
  Change(SubSeq(bytes, 1, i * type_size) \o Blank(1)
           \o SubSeq(bytes, i * type_size + 1, Len(bytes)) \o Blank(type_size - 1))

(* vector_free, or the end of the process for want of memory. *)
End == life # "over" /\ life' = "over" /\ bytes' = << >>

Next == /\ \/ \E n \in Counts \cup {0} : New(n)
           \/ \E v \in Value : Append_(v) \/ Fill(v)
           \/ \E i \in 0..count : Insert(i)
           \/ End
        /\ UNCHANGED type_size

Spec == Init /\ [][Next]_vars
=============================================================================
