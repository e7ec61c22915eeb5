-------------------------- MODULE WakVectorProofs --------------------------
(* The vector stays inside its buffers, for elements of every size, every  *)
(* SIZE_MAX and every client.                                              *)
EXTENDS WakVector, TLAPS

-----------------------------------------------------------------------------
(* Arithmetic of sizes.                                                    *)

(* A product that alloc_will_overflow lets pass is at most SIZE_MAX. *)
LEMMA ProductFits ==
  ASSUME NEW n \in Nat \ {0}, NEW t \in Nat \ {0}, NEW S \in Nat, ~(S \div n < t)
  PROVE  n * t <= S
<1> DEFINE q == S \div n
<1>1. q \in Nat /\ n * q <= S
  BY SMTT(20)
<1>2. t <= q
  BY DEF q
<1> HIDE DEF q
<1>3. n * t <= n * q
  <2>1. PICK d \in Nat : q = t + d
    BY <1>1, <1>2
  <2>2. n * (t + d) = n * t + n * d /\ n * d \in Nat
    BY SMTT(20)
  <2> QED
    BY <2>1, <2>2, SMTT(20)
<1>4. n * t \in Nat /\ n * q \in Nat
  BY <1>1, SMTT(20)
<1> QED
  BY <1>1, <1>3, <1>4

(* n elements take a multiple of their size, and are counted as n. *)
LEMMA Multiple ==
  ASSUME NEW n \in Nat, NEW t \in Nat \ {0}
  PROVE  (n * t) % t = 0 /\ (n * t) \div t = n /\ n * t \in Nat
BY SMTT(20)

(* vector_count counts every byte in use. *)
LEMMA CountTimesSize ==
  ASSUME NEW e \in Nat, NEW t \in Nat \ {0}, e % t = 0
  PROVE  (e \div t) \in Nat /\ e = (e \div t) * t
BY SMTT(20)

(* n elements and k more. *)
LEMMA Together ==
  ASSUME NEW n \in Nat, NEW k \in Nat, NEW t \in Nat
  PROVE  (n + k) * t = n * t + k * t
BY SMTT(20)

(* A size that is no more than SIZE_MAX is not cut off. *)
LEMMA NotCut ==
  ASSUME NEW n \in Nat, NEW m \in Nat, n <= m
  PROVE  n % (m + 1) = n
BY SMTT(20)
-----------------------------------------------------------------------------
(* Buffers.                                                                *)

(* A function on 1..n is a sequence of length n. *)
LEMMA FunctionIsSeq ==
  ASSUME NEW B, NEW n \in Nat, NEW f \in [1..n -> B]
  PROVE  f \in Seq(B) /\ Len(f) = n
BY SMT

(* memcpy changes bytes of a buffer, not its length. *)
LEMMA PlacedIsBuffer ==
  ASSUME NEW B, NEW b \in Seq(B), NEW at \in Nat, NEW s \in Seq(B)
  PROVE  Placed(b, at, s) \in Seq(B) /\ Len(Placed(b, at, s)) = Len(b)
<1>1. Len(b) \in Nat /\ Len(s) \in Nat
  OBVIOUS
<1>2. \A k \in 1..Len(b) :
        (IF k \in (at + 1)..(at + Len(s)) THEN s[k - at] ELSE b[k]) \in B
  <2>1. ASSUME NEW k \in 1..Len(b), k \in (at + 1)..(at + Len(s))
        PROVE  k - at \in 1..Len(s)
    BY <1>1, <2>1
  <2> QED
    BY <2>1
<1>3. Placed(b, at, s) \in [1..Len(b) -> B]
  BY <1>2 DEF Placed
<1> QED
  BY <1>1, <1>3, FunctionIsSeq

(* The bytes of unwritten memory, and of a value. *)
LEMMA BlankIsBuffer ==
  ASSUME NEW n \in Nat
  PROVE  Blank(n) \in Seq(Byte) /\ Len(Blank(n)) = n
<1>1. Blank(n) \in [1..n -> Byte]
  BY DEF Blank, Byte
<1> QED
  BY <1>1, FunctionIsSeq

(* A value written as one element is as long as an element. *)
LEMMA ElementIsBuffer ==
  ASSUME type_size \in Nat \ {0}, NEW v \in Value
  PROVE  ElementOf(v) \in Seq(Byte) /\ Len(ElementOf(v)) = type_size
<1>1. ElementOf(v) \in [1..type_size -> Byte]
  BY DEF ElementOf, Byte
<1> QED
  BY <1>1, FunctionIsSeq

(* A block for n elements has room for n elements. *)
LEMMA NewBufferHasRoom ==
  ASSUME VectorAssumption, type_size \in TypeSizes, NEW n \in Nat,
         ~alloc_will_overflow(n)
  PROVE  /\ NewBuffer(n) \in Seq(Byte)
         /\ Len(NewBuffer(n)) = n * type_size
<1>1. type_size \in Nat \ {0} /\ SizeMax \in Nat
  BY VectorAssumption DEF VectorAssumption
<1>2. n * type_size \in Nat
  BY <1>1, Multiple
<1>3. n * type_size <= SizeMax
  <2>1. CASE n = 0
    BY <1>1, <2>1, SMT
  <2>2. CASE n # 0
    BY <1>1, <2>2, ProductFits DEF alloc_will_overflow
  <2> QED
    BY <2>1, <2>2
<1>4. (n * type_size) % (SizeMax + 1) = n * type_size
  BY <1>1, <1>2, <1>3, NotCut
<1> QED
  BY <1>2, <1>4, BlankIsBuffer DEF NewBuffer


-----------------------------------------------------------------------------
(* Steps.                                                                  *)

(* What TypeOK says in terms of elements; vector_full is always true. *)
LEMMA InUse ==
  ASSUME VectorAssumption, TypeOK
  PROVE  /\ type_size \in Nat \ {0}
         /\ vector_count \in Nat
         /\ end = vector_count * type_size
         /\ Contents \in Seq(Byte) /\ Len(Contents) = end
         /\ vector_full
<1>1. type_size \in Nat \ {0} /\ end \in Nat /\ Len(buffer) \in Nat /\ end <= Len(buffer)
  BY DEF TypeOK, VectorAssumption
<1>2. vector_count \in Nat /\ end = vector_count * type_size
  BY <1>1, CountTimesSize DEF TypeOK, vector_count
<1>3. Contents \in Seq(Byte) /\ Len(Contents) = end
  BY <1>1 DEF TypeOK, Contents
<1>4. vector_full
  BY <1>1 DEF vector_full
<1> QED
  BY <1>1, <1>2, <1>3, <1>4

(* A vector whose bytes in use are elements, in a process that is alive. *)
LEMMA GoodStep ==
  ASSUME TypeOK, type_size' = type_size,
         pc' \in ({"live"} \cup Over) \ {"overrun"},
         buffer' \in Seq(Byte), end' \in 0..Len(buffer'), end' % type_size = 0,
         lost' \in Nat
  PROVE  TypeOK' /\ InBounds'
BY DEF TypeOK, InBounds, Byte, Over

(* A process that has ended, but not by a copy. *)
LEMMA DeadStep ==
  ASSUME VectorAssumption, TypeOK, type_size' = type_size,
         NEW how \in Over \ {"overrun"}, Die(how)
  PROVE  TypeOK' /\ InBounds'
<1>1. type_size \in Nat \ {0} /\ lost \in Nat
  BY DEF TypeOK, VectorAssumption
<1>2. 0 % type_size = 0
  BY <1>1, SMT
<1>3. << >> \in Seq(Byte) /\ Len(<< >>) = 0
  OBVIOUS
<1> QED
  BY <1>1, <1>2, <1>3, GoodStep DEF Die

(* vector_expand_new_buffer did not get its buffer. *)
LEMMA NoBufferStep ==
  ASSUME VectorAssumption, TypeOK, type_size' = type_size,
         NEW STATE n, NoNewBuffer(n)
  PROVE  TypeOK' /\ InBounds'
BY DeadStep DEF NoNewBuffer, Over

(* vector_expand to n elements, e bytes of them in use: the copy fits. *)
LEMMA ExpandStep ==
  ASSUME VectorAssumption, TypeOK, type_size' = type_size,
         NEW STATE n, n \in Nat, vector_count <= n,
         NEW STATE e, e \in {end, n * type_size},
         Expand(n, e)
  PROVE  /\ TypeOK' /\ InBounds'
         /\ pc' = "live" => /\ end' = e /\ Len(NewBuffer(n)) = n * type_size
                            /\ buffer' = Placed(NewBuffer(n), 0, Contents)
<1>1. CASE NoNewBuffer(n)
  <2>1. pc' # "live"
    BY <1>1 DEF NoNewBuffer, Die
  <2> QED
    BY <1>1, <2>1, NoBufferStep
<1>2. CASE ~alloc_will_overflow(n) /\ ~NoNewBuffer(n)
  <2>1. /\ NewBuffer(n) \in Seq(Byte)
        /\ Len(NewBuffer(n)) = n * type_size
    BY <1>2, NewBufferHasRoom DEF TypeOK
  <2>2. /\ end \in Nat /\ end <= n * type_size
        /\ n * type_size \in Nat
        /\ (n * type_size) % type_size = 0
    <3>0. vector_count \in Nat /\ n - vector_count \in Nat
      BY InUse
    <3>1. PICK k \in Nat : n = vector_count + k
      BY <3>0
    <3>2. n * type_size = end + k * type_size
      BY <3>1, InUse, Together
    <3>3. k * type_size \in Nat /\ end \in Nat
      BY InUse, Multiple DEF TypeOK
    <3> QED
      BY <3>2, <3>3, InUse, Multiple
  <2>3. Fits(NewBuffer(n), 0, Contents)
    BY <2>1, <2>2, InUse DEF Fits
  <2>4. Use(Placed(NewBuffer(n), 0, Contents), e, Len(buffer))
    BY <1>2, <2>3 DEF Expand
  <2>5. /\ Placed(NewBuffer(n), 0, Contents) \in Seq(Byte)
        /\ Len(Placed(NewBuffer(n), 0, Contents)) = n * type_size
    BY <2>1, InUse, PlacedIsBuffer
  <2>6. lost + Len(buffer) \in Nat /\ e % type_size = 0
    BY <2>2 DEF TypeOK
  <2>7. TypeOK' /\ InBounds'
    BY <2>2, <2>4, <2>5, <2>6, GoodStep DEF Use
  <2> QED
    BY <2>1, <2>4, <2>7 DEF Use
<1> QED
  BY <1>1, <1>2 DEF Expand

(* vector_append: a block for 2 n + 1 elements holds the n, and one more. *)
LEMMA AppendStep ==
  ASSUME VectorAssumption, TypeOK, NEW v \in Value, vector_append(v)
  PROVE  /\ TypeOK' /\ InBounds'
         /\ pc' = "live" => /\ lost' = lost + Len(buffer)
                            /\ Len(buffer') = (vector_count + (vector_count + 1)) * type_size
                            /\ end' = end + type_size
                            /\ LET new == NewBuffer(vector_count + GrowBy)
                               IN  /\ Len(new) = Len(buffer')
                                   /\ buffer' = Placed(Placed(new, 0, Contents),
                                                       end, ElementOf(v))
<1> DEFINE n == vector_count + GrowBy
<1> DEFINE new == NewBuffer(n)
<1>1. type_size' = type_size /\ vector_full
  BY InUse DEF vector_append, Call, Remember
<1>2. CASE NoNewBuffer(n)
  <2>1. pc' # "live"
    BY <1>2 DEF NoNewBuffer, Die
  <2> QED
    BY <1>1, <1>2, <2>1, NoBufferStep
<1>3. CASE ~NoNewBuffer(n)
  <2>1. ~alloc_will_overflow(n)
    BY <1>1, <1>3 DEF vector_append
  <2>2. n \in Nat /\ n = vector_count + (vector_count + 1)
    BY InUse DEF GrowBy
  <2>3. new \in Seq(Byte) /\ Len(new) = n * type_size
    BY <2>1, <2>2, NewBufferHasRoom DEF TypeOK
  <2>4. n * type_size = end + (end + type_size)
    <3>1. n * type_size = end + (vector_count + 1) * type_size
      BY <2>2, InUse, Together
    <3>2. (vector_count + 1) * type_size = end + type_size
      BY InUse, Together
    <3> QED
      BY <3>1, <3>2
  <2>5. end \in Nat /\ (end + type_size) % type_size = 0
    <3> DEFINE m == vector_count + 1
    <3>1. m * type_size = end + type_size
      BY InUse, Together
    <3>2. m \in Nat
      BY InUse
    <3> HIDE DEF m
    <3>3. (m * type_size) % type_size = 0
      BY <3>2, InUse, Multiple
    <3> QED
      BY <3>1, <3>3, InUse DEF TypeOK
  <2>6. ElementOf(v) \in Seq(Byte) /\ Len(ElementOf(v)) = type_size
    BY InUse, ElementIsBuffer
  <2>7. Fits(new, 0, Contents) /\ Fits(new, end, ElementOf(v))
    BY <2>3, <2>4, <2>5, <2>6, InUse DEF Fits
  <2>8. Placed(new, 0, Contents) \in Seq(Byte) /\ Len(Placed(new, 0, Contents)) = Len(new)
    BY <2>3, InUse, PlacedIsBuffer
  <2> DEFINE b == Placed(Placed(new, 0, Contents), end, ElementOf(v))
  <2>9. b \in Seq(Byte) /\ Len(b) = Len(new)
    BY <2>5, <2>6, <2>8, PlacedIsBuffer
  <2>10. Use(b, EndAfterAppend, Len(buffer))
    BY <1>1, <1>3, <2>7 DEF vector_append
  <2>11. lost + Len(buffer) \in Nat
    BY DEF TypeOK
  <2>12. end + type_size \in 0..Len(b)
    BY <2>3, <2>4, <2>5, <2>9, InUse
  <2>14. Len(b) = (vector_count + (vector_count + 1)) * type_size
    BY <2>2, <2>3, <2>9
  <2> HIDE DEF b
  <2>13. pc' = "live" /\ buffer' = b /\ end' = end + type_size /\ lost' = lost + Len(buffer)
    BY <2>10 DEF Use, EndAfterAppend
  <2>15. TypeOK' /\ InBounds'
    BY <1>1, <2>5, <2>9, <2>11, <2>12, <2>13, GoodStep
  <2>16. buffer' = Placed(Placed(new, 0, Contents), end, ElementOf(v))
    BY <2>13 DEF b
  <2> QED
    BY <2>9, <2>13, <2>14, <2>15, <2>16
<1> QED
  BY <1>2, <1>3

(* vector_insert at an index: head and tail fit into a block for one more. *)
LEMMA InsertStep ==
  ASSUME VectorAssumption, TypeOK, NEW STATE i, i \in 0..vector_count, vector_insert(i)
  PROVE  /\ TypeOK' /\ InBounds'
         /\ pc' = "live" =>
              LET offset == i * type_size
                  new    == NewBuffer(vector_count + 1)
              IN  /\ end' = end + type_size /\ Len(new) = end + type_size
                  /\ offset \in 0..end
                  /\ buffer' = Placed(Placed(new, 0, SubSeq(buffer, 1, offset)),
                                      offset + 1, SubSeq(buffer, offset + 1, end))
<1> DEFINE n == vector_count + 1
<1> DEFINE offset == i * type_size
<1> DEFINE head == SubSeq(buffer, 1, offset)
<1> DEFINE tail == SubSeq(buffer, offset + 1, end)
<1> DEFINE new == NewBuffer(n)
<1>1. type_size' = type_size /\ vector_insert_full(offset)
  BY InUse DEF vector_insert, Call, Remember
<1>2. CASE NoNewBuffer(n)
  <2>1. pc' # "live"
    BY <1>2 DEF NoNewBuffer, Die
  <2> QED
    BY <1>1, <1>2, <2>1, NoBufferStep
<1>3. CASE ~NoNewBuffer(n)
  <2>1. ~alloc_will_overflow(n)
    BY <1>1, <1>3 DEF vector_insert_full
  <2>2. n \in Nat
    BY InUse
  <2>3. new \in Seq(Byte) /\ Len(new) = n * type_size
    BY <2>1, <2>2, NewBufferHasRoom DEF TypeOK
  <2>4. n * type_size = end + type_size
    BY InUse, Together
  <2>5. (end + type_size) % type_size = 0
    BY <2>2, <2>4, InUse, Multiple
  <2>6. offset \in Nat /\ offset <= end
    <3>1. i \in Nat /\ vector_count - i \in Nat
      BY InUse
    <3>2. PICK k \in Nat : vector_count = i + k
      BY <3>1, InUse
    <3>3. end = offset + k * type_size
      BY <3>1, <3>2, InUse, Together
    <3>4. offset \in Nat /\ k * type_size \in Nat
      BY <3>1, InUse, Multiple
    <3> QED
      BY <3>3, <3>4
  <2> HIDE DEF offset
  <2>7. end \in Nat /\ end <= Len(buffer) /\ buffer \in Seq(Byte)
    BY DEF TypeOK
  <2>8. /\ head \in Seq(Byte) /\ Len(head) = offset
        /\ tail \in Seq(Byte) /\ Len(tail) = end - offset
    BY <2>6, <2>7
  <2> HIDE DEF head, tail
  <2>9. TailOffset(offset) \in Nat /\ TailOffset(offset) = offset + 1
    BY <2>6 DEF TailOffset
  <2>10. Fits(new, 0, head) /\ Fits(new, TailOffset(offset), tail)
    BY <2>3, <2>4, <2>6, <2>7, <2>8, <2>9, InUse DEF Fits
  <2>11. Placed(new, 0, head) \in Seq(Byte) /\ Len(Placed(new, 0, head)) = Len(new)
    BY <2>3, <2>8, PlacedIsBuffer
  <2> DEFINE b == Placed(Placed(new, 0, head), TailOffset(offset), tail)
  <2>12. b \in Seq(Byte) /\ Len(b) = Len(new)
    BY <2>8, <2>9, <2>11, PlacedIsBuffer
  <2>13. Use(b, end + type_size, Len(buffer))
    BY <1>1, <1>3, <2>10 DEF vector_insert_full, head, tail
  <2>14. lost + Len(buffer) \in Nat
    BY DEF TypeOK
  <2>15. end + type_size \in 0..Len(b)
    BY <2>3, <2>4, <2>7, <2>12, InUse
  <2> HIDE DEF b
  <2>16. pc' = "live" /\ buffer' = b /\ end' = end + type_size /\ lost' = lost + Len(buffer)
    BY <2>13 DEF Use
  <2>17. TypeOK' /\ InBounds'
    BY <1>1, <2>5, <2>12, <2>14, <2>15, <2>16, GoodStep
  <2>18. buffer' = Placed(Placed(new, 0, SubSeq(buffer, 1, offset)),
                         offset + 1, SubSeq(buffer, offset + 1, end))
    BY <2>9, <2>16 DEF b, head, tail
  <2>19. Len(new) = end + type_size /\ offset \in 0..end
    BY <2>3, <2>4, <2>6, <2>7
  <2> QED
    BY <2>16, <2>17, <2>18, <2>19 DEF offset
<1> QED
  BY <1>2, <1>3

(* vector_fill overwrites elements where they are. *)
LEMMA FillStep ==
  ASSUME VectorAssumption, TypeOK, NEW v \in Value, vector_fill(v)
  PROVE  TypeOK' /\ InBounds'
<1> DEFINE f == [k \in 1..Len(buffer) |->
                   IF k <= end THEN ElementOf(v)[((k - 1) % type_size) + 1] ELSE buffer[k]]
<1>1. ElementOf(v) \in Seq(Byte) /\ Len(ElementOf(v)) = type_size /\ type_size \in Nat \ {0}
  BY InUse, ElementIsBuffer
<1>2. Len(buffer) \in Nat /\ buffer \in Seq(Byte)
  BY DEF TypeOK
<1>3. ASSUME NEW k \in 1..Len(buffer)
      PROVE  (IF k <= end THEN ElementOf(v)[((k - 1) % type_size) + 1] ELSE buffer[k]) \in Byte
  <2>1. ((k - 1) % type_size) + 1 \in 1..type_size
    BY <1>1, <1>2, SMT
  <2>2. ElementOf(v)[((k - 1) % type_size) + 1] \in Byte
    BY <1>1, <2>1
  <2>3. buffer[k] \in Byte
    BY <1>2
  <2> QED
    BY <2>2, <2>3
<1>4. f \in [1..Len(buffer) -> Byte]
  BY <1>3
<1>5. f \in Seq(Byte) /\ Len(f) = Len(buffer)
  BY <1>2, <1>4, FunctionIsSeq
<1>6. type_size' = type_size /\ pc' = "live" /\ buffer' = f /\ end' = end /\ lost' = lost + 0
  BY DEF vector_fill, Call, Remember, Use
<1> HIDE DEF f
<1>7. lost + 0 \in Nat /\ end % type_size = 0 /\ end \in 0..Len(f)
  BY <1>5 DEF TypeOK
<1> QED
  BY <1>5, <1>6, <1>7, GoodStep
-----------------------------------------------------------------------------
(***************************************************************************)
(* The bytes in use are always whole elements within the buffer, and no    *)
(* copy leaves it.                                                         *)
(***************************************************************************)
LEMMA InitTypeOK ==
  ASSUME VectorAssumption, Init
  PROVE  TypeOK /\ InBounds
<1>1. type_size \in TypeSizes /\ type_size \in Nat \ {0}
  BY DEF Init, VectorAssumption
<1>2. 0 % type_size = 0
  BY <1>1, SMT
<1>3. << >> \in Seq(Byte) /\ Len(<< >>) = 0
  OBVIOUS
<1> QED
  BY <1>1, <1>2, <1>3 DEF Init, TypeOK, InBounds

(* Each function leaves whole elements, inside the buffer it was given. *)
LEMMA NextKeepsTypeOK ==
  ASSUME VectorAssumption, TypeOK, InBounds, [Next]_vars
  PROVE  TypeOK' /\ InBounds'
<1>0. 0 \in Nat /\ vector_count \in Nat /\ end % type_size = 0 /\ end \in 0..Len(buffer)
      /\ lost \in Nat /\ type_size \in Nat \ {0}
  BY InUse DEF TypeOK
<1>1. CASE vector_new
  <2>1. CASE Die("null_dereference")
    BY <1>1, <2>1, DeadStep DEF vector_new, Remember, Over
  <2>2. CASE Use(<< >>, 0, 0)
    <3>1. << >> \in Seq(Byte) /\ Len(<< >>) = 0 /\ 0 % type_size = 0 /\ lost + 0 \in Nat
      BY <1>0, SMT
    <3> QED
      BY <1>1, <2>2, <3>1, GoodStep DEF vector_new, Remember, Use
  <2> QED
    BY <1>1, <2>1, <2>2 DEF vector_new
<1>2. ASSUME NEW n \in Counts, vector_new_count(n)
      PROVE  TypeOK' /\ InBounds'
  <2>1. type_size' = type_size /\ n \in Nat
    BY <1>2 DEF vector_new_count, Remember, VectorAssumption
  <2>2. CASE Die("null_dereference")
    BY <2>1, <2>2, DeadStep DEF Over
  <2>3. CASE Expand(n, Len(NewBuffer(n)))
    <3>1. CASE NoNewBuffer(n)
      BY <2>1, <3>1, NoBufferStep
    <3>2. CASE ~NoNewBuffer(n)
      <4>1. Len(NewBuffer(n)) = n * type_size
        BY <2>1, <2>3, <3>2, NewBufferHasRoom DEF TypeOK, Expand
      <4>2. vector_count <= n
        <5>1. end = 0 /\ n >= 0
          BY <1>2, <2>1 DEF vector_new_count, TypeOK
        <5>2. 0 \div type_size = 0
          BY <1>0, SMT
        <5> QED
          BY <5>1, <5>2 DEF vector_count
      <4> QED
        BY <2>1, <2>3, <4>1, <4>2, ExpandStep
    <3> QED
      BY <3>1, <3>2
  <2> QED
    BY <1>2, <2>2, <2>3 DEF vector_new_count
<1>3. ASSUME NEW c \in Counts, vector_expand(c)
      PROVE  TypeOK' /\ InBounds'
  <2>1. type_size' = type_size /\ vector_count + c \in Nat /\ vector_count <= vector_count + c
    BY <1>0, <1>3 DEF vector_expand, Call, Remember, VectorAssumption
  <2>2. Expand(vector_count + c, end)
    BY <1>3 DEF vector_expand
  <2> QED
    BY <2>1, <2>2, ExpandStep
<1>4. ASSUME NEW v \in Value, vector_append(v)
      PROVE  TypeOK' /\ InBounds'
  BY <1>4, AppendStep
<1>5. ASSUME NEW v \in Value, vector_fill(v)
      PROVE  TypeOK' /\ InBounds'
  BY <1>5, FillStep
<1>6. ASSUME NEW i \in 0..vector_count, vector_insert(i)
      PROVE  TypeOK' /\ InBounds'
  BY <1>6, InsertStep
<1>7. CASE vector_free
  BY <1>7, DeadStep DEF vector_free, Remember, Over
<1>8. CASE UNCHANGED vars
  BY <1>8 DEF TypeOK, InBounds, Byte, vars
<1> QED
  BY <1>1, <1>2, <1>3, <1>4, <1>5, <1>6, <1>7, <1>8 DEF Next, Terminating

(* Every variable keeps its type: whole elements, inside the buffer. *)
THEOREM TypeCorrect == Spec => []TypeOK
<1>1. Init => TypeOK /\ InBounds
  BY VectorAssumption, InitTypeOK
<1>2. TypeOK /\ InBounds /\ [Next]_vars => TypeOK' /\ InBounds'
  BY VectorAssumption, NextKeepsTypeOK
<1> QED
  BY <1>1, <1>2, PTL DEF Spec

(* InBounds: no memcpy of vector.c leaves the buffer it is given. *)
THEOREM CopiesStayInBounds == Spec => []InBounds
<1>1. Init => TypeOK /\ InBounds
  BY VectorAssumption, InitTypeOK
<1>2. TypeOK /\ InBounds /\ [Next]_vars => TypeOK' /\ InBounds'
  BY VectorAssumption, NextKeepsTypeOK
<1> QED
  BY <1>1, <1>2, PTL DEF Spec

-----------------------------------------------------------------------------
(* Memory left behind.                                                     *)

(* One more square: (n-1)^2 + (2n-1) = n^2, in elements of t bytes. *)
LEMMA NextSquare ==
  ASSUME NEW n \in Nat, NEW t \in Nat
  PROVE  (n - 1) * (n - 1) * t + (2 * n - 1) * t = n * n * t
BY SMTT(20)

(* MemoryIsQuadratic, and what holds before the first append. *)
QuadraticInv ==
  called \subseteq {"vector_new", "vector_append"} =>
    /\ pc = "unborn" => lost = 0
    /\ pc = "live" =>
         \/ vector_count = 0 /\ lost = 0 /\ Len(buffer) = 0
         \/ /\ vector_count # 0
            /\ lost = (vector_count - 1) * (vector_count - 1) * type_size
            /\ Len(buffer) = (2 * vector_count - 1) * type_size

(* An append of the n-th element leaves 2n-1 elements' bytes behind. *)
LEMMA AppendKeepsQuadraticInv ==
  ASSUME VectorAssumption, TypeOK, QuadraticInv, NEW v \in Value, vector_append(v)
  PROVE  QuadraticInv'
<1> SUFFICES ASSUME pc' = "live", called' \subseteq {"vector_new", "vector_append"}
             PROVE  /\ vector_count' # 0
                    /\ lost' = (vector_count' - 1) * (vector_count' - 1) * type_size'
                    /\ Len(buffer') = (2 * vector_count' - 1) * type_size'
  <2>1. pc' # "unborn"
    <3>1. vector_full
      BY InUse
    <3> QED
      BY <3>1 DEF vector_append, NoNewBuffer, Die, Use
  <2> QED
    BY <2>1 DEF QuadraticInv
<1> DEFINE c == vector_count
<1>1. c \in Nat /\ end = c * type_size /\ type_size \in Nat \ {0} /\ type_size' = type_size
  BY InUse DEF vector_append, Call, Remember
<1>2. /\ lost' = lost + Len(buffer)
      /\ Len(buffer') = (c + (c + 1)) * type_size
      /\ end' = end + type_size
  BY AppendStep
<1>3. vector_count' = c + 1
  <2>1. end' = (c + 1) * type_size
    <3>1. (c + 1) * type_size = c * type_size + type_size
      BY <1>1, Together
    <3> QED
      BY <1>1, <1>2, <3>1
  <2>2. ((c + 1) * type_size) \div type_size = c + 1
    <3>1. c + 1 \in Nat
      BY <1>1
    <3> QED
      BY <1>1, <3>1, Multiple
  <2> QED
    BY <1>1, <2>1, <2>2 DEF vector_count
<1>4. pc = "live" /\ called \subseteq {"vector_new", "vector_append"} /\ lost \in Nat
  BY DEF vector_append, Call, Remember, TypeOK
<1>5. lost' = c * c * type_size
  <2>1. CASE c = 0 /\ lost = 0 /\ Len(buffer) = 0
    BY <1>1, <1>2, <2>1, SMT
  <2>2. CASE /\ lost = (c - 1) * (c - 1) * type_size
             /\ Len(buffer) = (2 * c - 1) * type_size
    BY <1>1, <1>2, <2>2, NextSquare
  <2> QED
    BY <1>4, <2>1, <2>2 DEF QuadraticInv
<1> HIDE DEF c
<1>6. c + 1 # 0 /\ (c + 1) - 1 = c /\ 2 * (c + 1) - 1 = c + (c + 1)
  BY <1>1
<1> QED
  BY <1>1, <1>2, <1>3, <1>5, <1>6

(* The other functions leave nothing behind, or were not called. *)
LEMMA NextKeepsQuadraticInv ==
  ASSUME VectorAssumption, TypeOK, QuadraticInv, [Next]_vars
  PROVE  QuadraticInv'
<1>1. CASE vector_new
  <2>1. CASE Die("null_dereference")
    BY <1>1, <2>1 DEF QuadraticInv, Die
  <2>2. CASE Use(<< >>, 0, 0)
    <3>1. type_size' = type_size /\ type_size \in Nat \ {0}
      BY <1>1, InUse DEF vector_new, Remember
    <3>2. 0 \div type_size = 0
      BY <3>1, SMT
    <3>3. pc' = "live" /\ buffer' = << >> /\ end' = 0 /\ lost' = lost + 0 /\ lost \in Nat
      BY <2>2 DEF Use, TypeOK
    <3>4. vector_count' = 0 /\ Len(buffer') = 0
      BY <3>1, <3>2, <3>3 DEF vector_count
    <3>5. called' \subseteq {"vector_new", "vector_append"} => lost = 0
      BY <1>1 DEF vector_new, Remember, QuadraticInv
    <3> QED
      BY <3>3, <3>4, <3>5 DEF QuadraticInv
  <2> QED
    BY <1>1, <2>1, <2>2 DEF vector_new
<1>2. ASSUME NEW v \in Value, vector_append(v)
      PROVE  QuadraticInv'
  BY <1>2, AppendKeepsQuadraticInv
<1>3. CASE \/ \E n \in Counts : vector_new_count(n) \/ vector_expand(n)
           \/ \E v \in Value : vector_fill(v)
           \/ \E i \in 0..vector_count : vector_insert(i)
           \/ vector_free
  <2>0. \/ "vector_new_count" \in called' \/ "vector_expand" \in called'
        \/ "vector_fill" \in called' \/ "vector_insert" \in called'
        \/ "vector_free" \in called'
    <3>1. ASSUME NEW n \in Counts, vector_new_count(n)
          PROVE  "vector_new_count" \in called'
      BY <3>1 DEF vector_new_count, Remember
    <3>2. ASSUME NEW n \in Counts, vector_expand(n)
          PROVE  "vector_expand" \in called'
      BY <3>2 DEF vector_expand, Call, Remember
    <3>3. ASSUME NEW v \in Value, vector_fill(v)
          PROVE  "vector_fill" \in called'
      BY <3>3 DEF vector_fill, Call, Remember
    <3>4. ASSUME NEW i \in 0..vector_count, vector_insert(i)
          PROVE  "vector_insert" \in called'
      BY <3>4 DEF vector_insert, Call, Remember
    <3>5. vector_free => "vector_free" \in called'
      BY DEF vector_free, Remember
    <3> QED
      BY <1>3, <3>1, <3>2, <3>3, <3>4, <3>5
  <2>1. ~(called' \subseteq {"vector_new", "vector_append"})
    BY <2>0
  <2> QED
    BY <2>1 DEF QuadraticInv
<1>4. CASE UNCHANGED vars
  BY <1>4 DEF QuadraticInv, vars, vector_count
<1> QED
  BY <1>1, <1>2, <1>3, <1>4 DEF Next, Terminating

(* MemoryIsQuadratic: appending n elements one by one leaves (n-1)^2 of    *)
(* them behind, for every n.                                               *)
THEOREM AppendingIsQuadratic == Spec => []MemoryIsQuadratic
<1>1. Init => TypeOK /\ InBounds /\ QuadraticInv
  <2>1. Init => TypeOK /\ InBounds
    BY VectorAssumption, InitTypeOK
  <2>2. Init => QuadraticInv
    BY DEF Init, QuadraticInv
  <2> QED
    BY <2>1, <2>2
<1>2. TypeOK /\ InBounds /\ QuadraticInv /\ [Next]_vars
        => TypeOK' /\ InBounds' /\ QuadraticInv'
  BY VectorAssumption, NextKeepsTypeOK, NextKeepsQuadraticInv
<1>3. TypeOK /\ QuadraticInv => MemoryIsQuadratic
  <2> SUFFICES ASSUME TypeOK, QuadraticInv, pc = "live", end > 0,
                      called \subseteq {"vector_new", "vector_append"}
               PROVE  /\ lost = (vector_count - 1) * (vector_count - 1) * type_size
                      /\ Len(buffer) = (2 * vector_count - 1) * type_size
    BY DEF MemoryIsQuadratic
  <2>1. vector_count # 0
    <3>1. 0 * type_size = 0
      BY VectorAssumption, InUse, SMT
    <3> QED
      BY <3>1, VectorAssumption, InUse
  <2> QED
    BY <2>1 DEF QuadraticInv
<1> QED
  BY <1>1, <1>2, <1>3, PTL DEF Spec

-----------------------------------------------------------------------------
(* What a client sees: the bytes in use after each call, byte by byte.     *)

(* The bytes of a part, and of a buffer copied to. *)
LEMMA PartOfBuffer ==
  ASSUME NEW B, NEW b \in Seq(B), NEW from \in Nat \ {0}, NEW to \in 0..Len(b), from <= to + 1
  PROVE  /\ SubSeq(b, from, to) \in Seq(B)
         /\ Len(SubSeq(b, from, to)) = (to - from) + 1
         /\ \A k \in 1..((to - from) + 1) : SubSeq(b, from, to)[k] = b[(k + from) - 1]
BY SMT

(* The bytes of a buffer into which s was copied. *)
LEMMA PlacedBytes ==
  ASSUME NEW b, NEW at, NEW s, NEW k \in 1..Len(b)
  PROVE  Placed(b, at, s)[k] = IF k \in (at + 1)..(at + Len(s)) THEN s[k - at] ELSE b[k]
BY DEF Placed

(* The bytes of the first e. *)
LEMMA StartOfBuffer ==
  ASSUME NEW B, NEW b \in Seq(B), NEW e \in 0..Len(b)
  PROVE  /\ SubSeq(b, 1, e) \in Seq(B) /\ Len(SubSeq(b, 1, e)) = e /\ e \in Nat
         /\ \A k \in 1..e : SubSeq(b, 1, e)[k] = b[k]
<1>1. Len(b) \in Nat
  OBVIOUS
<1> QED
  BY <1>1, SMT

(* The bytes of two sequences, one behind the other. *)
LEMMA JoinedBytes ==
  ASSUME NEW B, NEW s \in Seq(B), NEW t \in Seq(B)
  PROVE  /\ s \o t \in Seq(B) /\ Len(s \o t) = Len(s) + Len(t)
         /\ \A k \in 1..(Len(s) + Len(t)) :
              (s \o t)[k] = IF k <= Len(s) THEN s[k] ELSE t[k - Len(s)]
BY SMT

(* Where vector_insert reads the byte it writes to k. *)
LEMMA MovedIndex ==
  ASSUME NEW o \in Nat, NEW e \in Nat, o <= e, NEW k \in (o + 2)..(e + 1)
  PROVE  /\ k \in ((o + 1) + 1)..((o + 1) + (e - o))
         /\ k - (o + 1) \in 1..(e - o)
         /\ (k - (o + 1)) + o = k - 1
         /\ k - 1 \in 1..e /\ ~(k <= o)
BY SMT

(* Sequences with the same bytes are the same. *)
LEMMA SameBytes ==
  ASSUME NEW B, NEW s \in Seq(B), NEW t \in Seq(B), Len(s) = Len(t),
         \A k \in 1..Len(s) : s[k] = t[k]
  PROVE  s = t
<1>1. s = [k \in 1..Len(s) |-> s[k]] /\ t = [k \in 1..Len(t) |-> t[k]]
  OBVIOUS
<1> QED
  BY <1>1

(* The bytes in use are those of the buffer. *)
LEMMA BytesInUse ==
  ASSUME TypeOK
  PROVE  /\ Contents \in Seq(Byte) /\ Len(Contents) = end /\ end \in Nat
         /\ \A k \in 1..end : Contents[k] = buffer[k]
<1>1. buffer \in Seq(Byte) /\ end \in 0..Len(buffer)
  BY DEF TypeOK
<1> QED
  BY <1>1, StartOfBuffer DEF Contents

(* So they are after a step. *)
LEMMA BytesInUseNext ==
  ASSUME TypeOK'
  PROVE  /\ Contents' \in Seq(Byte') /\ Len(Contents') = end' /\ end' \in Nat
         /\ \A k \in 1..end' : Contents'[k] = buffer'[k]
<1>1. buffer' \in Seq(Byte') /\ end' \in 0..Len(buffer')
  BY DEF TypeOK
<1>2. Contents' = SubSeq(buffer', 1, end')
  BY DEF Contents
<1> QED
  BY <1>1, <1>2, StartOfBuffer

(* A block that malloc has just given holds nothing. *)
LEMMA NewBufferIsJunk ==
  ASSUME VectorAssumption, TypeOK, NEW n \in Nat
  PROVE  \A k \in 1..Len(NewBuffer(n)) : NewBuffer(n)[k] = Junk
<1>1. PICK m : m = (n * type_size) % (SizeMax + 1)
  OBVIOUS
<1>2. NewBuffer(n) = [k \in 1..m |-> Junk]
  BY <1>1 DEF NewBuffer, Blank
<1>3. m \in Nat
  <2>1. n * type_size \in Nat
    BY InUse, Multiple
  <2>2. SizeMax \in Nat
    BY DEF VectorAssumption
  <2> QED
    BY <1>1, <2>1, <2>2, SMTT(20)
<1> QED
  BY <1>2, <1>3

(* vector_append writes the element behind the others. *)
LEMMA AppendAppends ==
  ASSUME VectorAssumption, TypeOK, NEW v \in Value, vector_append(v), pc' = "live"
  PROVE  Contents' = Contents \o ElementOf(v)
<1> DEFINE new == NewBuffer(vector_count + GrowBy)
<1> DEFINE first == Placed(new, 0, Contents)
<1>1. /\ TypeOK' /\ end' = end + type_size /\ Len(new) = Len(buffer')
      /\ buffer' = Placed(first, end, ElementOf(v))
      /\ type_size' = type_size /\ Byte' = Byte
  BY AppendStep DEF vector_append, Call, Remember, Byte
<1>2. /\ Contents \in Seq(Byte) /\ Len(Contents) = end /\ end \in Nat
      /\ \A k \in 1..end : Contents[k] = buffer[k]
  BY BytesInUse
<1>3. /\ Contents' \in Seq(Byte) /\ Len(Contents') = end + type_size
      /\ \A k \in 1..(end + type_size) : Contents'[k] = buffer'[k]
      /\ end + type_size <= Len(new)
  BY <1>1, BytesInUseNext DEF TypeOK
<1>4. ElementOf(v) \in Seq(Byte) /\ Len(ElementOf(v)) = type_size /\ type_size \in Nat
  BY InUse, ElementIsBuffer
<1>5. Len(first) = Len(new)
  <2>1. Len(new) \in Nat
    BY <1>1 DEF TypeOK
  <2> QED
    BY <2>1 DEF Placed
<1>6. \A k \in 1..(end + type_size) : k \in 1..Len(new)
  <2>1. Len(new) \in Nat
    BY <1>1 DEF TypeOK
  <2> QED
    BY <1>2, <1>3, <1>4, <2>1
<1>7. ASSUME NEW k \in 1..(end + type_size)
      PROVE  buffer'[k] = IF k <= end THEN Contents[k] ELSE ElementOf(v)[k - end]
  <2>1. k \in 1..Len(first) /\ k \in 1..Len(new)
    BY <1>5, <1>6
  <2>2. buffer'[k] = IF k \in (end + 1)..(end + type_size) THEN ElementOf(v)[k - end]
                     ELSE first[k]
    BY <1>1, <1>4, <2>1, PlacedBytes
  <2>3. first[k] = IF k \in (0 + 1)..(0 + end) THEN Contents[k - 0] ELSE new[k]
    BY <1>2, <2>1, PlacedBytes
  <2> QED
    BY <1>2, <1>4, <2>2, <2>3
<1> DEFINE more == Contents \o ElementOf(v)
<1>8. /\ more \in Seq(Byte) /\ Len(more) = end + type_size
      /\ \A k \in 1..(end + type_size) :
           more[k] = IF k <= end THEN Contents[k] ELSE ElementOf(v)[k - end]
  BY <1>2, <1>4
<1> HIDE DEF more
<1>9. \A k \in 1..Len(Contents') : Contents'[k] = more[k]
  BY <1>3, <1>7, <1>8
<1>10. Contents' = more
  BY <1>3, <1>8, <1>9, SameBytes
<1> QED
  BY <1>10 DEF more

(* vector_insert moves what is behind the index by a byte. *)
LEMMA InsertMovesByOne ==
  ASSUME VectorAssumption, TypeOK, NEW STATE i, i \in 0..vector_count, vector_insert(i),
         pc' = "live"
  PROVE  Contents' = SubSeq(Contents, 1, i * type_size) \o Blank(1)
                       \o SubSeq(Contents, i * type_size + 1, Len(Contents))
                       \o Blank(type_size - 1)
<1> DEFINE offset == i * type_size
<1> DEFINE new == NewBuffer(vector_count + 1)
<1> DEFINE head == SubSeq(buffer, 1, offset)
<1> DEFINE tail == SubSeq(buffer, offset + 1, end)
<1> DEFINE first == Placed(new, 0, head)
<1>1. /\ TypeOK' /\ end' = end + type_size /\ Len(new) = end + type_size
      /\ offset \in 0..end
      /\ buffer' = Placed(first, offset + 1, tail)
      /\ type_size' = type_size /\ Byte' = Byte
  BY InsertStep DEF vector_insert, Call, Remember, Byte
<1>2. /\ Contents \in Seq(Byte) /\ Len(Contents) = end /\ end \in Nat
      /\ \A k \in 1..end : Contents[k] = buffer[k]
  BY BytesInUse
<1>3. /\ Contents' \in Seq(Byte) /\ Len(Contents') = end + type_size
      /\ \A k \in 1..(end + type_size) : Contents'[k] = buffer'[k]
  BY <1>1, BytesInUseNext
<1>4. type_size \in Nat \ {0}
  BY InUse
<1>5. \A k \in 1..(end + type_size) : new[k] = Junk
  <2>1. vector_count + 1 \in Nat
    BY InUse
  <2> QED
    BY <1>1, <2>1, NewBufferIsJunk
<1> HIDE DEF offset, new
<1>6. /\ Len(head) = offset /\ \A k \in 1..offset : head[k] = buffer[k]
      /\ Len(tail) = end - offset /\ \A k \in 1..(end - offset) : tail[k] = buffer[k + offset]
  <2>1. buffer \in Seq(Byte) /\ end \in 0..Len(buffer) /\ offset \in 0..Len(buffer)
    BY <1>1 DEF TypeOK
  <2> QED
    BY <1>1, <2>1
<1> HIDE DEF head, tail
<1>7. Len(first) = end + type_size
  BY <1>1, <1>2, <1>4 DEF Placed
<1>8. ASSUME NEW k \in 1..(end + type_size)
      PROVE  buffer'[k] = IF k <= offset THEN Contents[k]
                          ELSE IF k \in (offset + 2)..(end + 1) THEN Contents[k - 1]
                          ELSE Junk
  <2>1. buffer'[k] = IF k \in ((offset + 1) + 1)..((offset + 1) + Len(tail))
                     THEN tail[k - (offset + 1)] ELSE first[k]
    BY <1>1, <1>7, PlacedBytes
  <2>2. first[k] = IF k \in (0 + 1)..(0 + Len(head)) THEN head[k - 0] ELSE new[k]
    BY <1>1, PlacedBytes
  <2>3. first[k] = IF k <= offset THEN Contents[k] ELSE Junk
    <3>1. CASE k <= offset
      <4>1. k \in (0 + 1)..(0 + Len(head)) /\ k - 0 = k /\ k \in 1..offset /\ k \in 1..end
        BY <1>1, <1>2, <1>6, <3>1
      <4> QED
        BY <1>2, <1>6, <2>2, <3>1, <4>1
    <3>2. CASE ~(k <= offset)
      <4>1. k \notin (0 + 1)..(0 + Len(head))
        BY <1>1, <1>6, <3>2
      <4> QED
        BY <1>5, <2>2, <3>2, <4>1
    <3> QED
      BY <3>1, <3>2
  <2>4. CASE k \in (offset + 2)..(end + 1)
    <3>1. /\ k \in ((offset + 1) + 1)..((offset + 1) + Len(tail))
          /\ k - (offset + 1) \in 1..(end - offset)
          /\ (k - (offset + 1)) + offset = k - 1
          /\ k - 1 \in 1..end /\ ~(k <= offset)
      <4>1. offset \in Nat /\ offset <= end
        BY <1>1, <1>2
      <4> QED
        BY <1>2, <1>6, <2>4, <4>1, MovedIndex
    <3> QED
      BY <1>2, <1>6, <2>1, <2>4, <3>1
  <2>5. CASE k \notin (offset + 2)..(end + 1)
    <3>1. k \notin ((offset + 1) + 1)..((offset + 1) + Len(tail))
      BY <1>1, <1>2, <1>6, <2>5
    <3> QED
      BY <2>1, <2>3, <2>5, <3>1
  <2> QED
    BY <2>4, <2>5
<1> DEFINE p == SubSeq(Contents, 1, offset)
<1> DEFINE q == SubSeq(Contents, offset + 1, Len(Contents))
<1> DEFINE more == p \o Blank(1) \o q \o Blank(type_size - 1)
<1>9. /\ p \in Seq(Byte) /\ Len(p) = offset
      /\ q \in Seq(Byte) /\ Len(q) = end - offset
      /\ \A k \in 1..offset : p[k] = Contents[k]
      /\ \A k \in 1..(end - offset) : q[k] = Contents[k + offset]
  BY <1>1, <1>2
<1>10. /\ Blank(1) \in Seq(Byte) /\ Len(Blank(1)) = 1 /\ Blank(1)[1] = Junk
       /\ Blank(type_size - 1) \in Seq(Byte) /\ Len(Blank(type_size - 1)) = type_size - 1
       /\ \A k \in 1..(type_size - 1) : Blank(type_size - 1)[k] = Junk
  <2>1. type_size - 1 \in Nat
    BY <1>4
  <2>2. \A n \in Nat : \A k \in 1..n : Blank(n)[k] = Junk
    BY DEF Blank
  <2>3. \A n \in Nat : Blank(n) \in Seq(Byte) /\ Len(Blank(n)) = n
    BY BlankIsBuffer
  <2>4. 1 \in Nat /\ 1 \in 1..1
    OBVIOUS
  <2> QED
    BY <2>1, <2>2, <2>3, <2>4
<1> HIDE DEF p, q
<1> DEFINE pb == p \o Blank(1)
<1>11. /\ pb \in Seq(Byte) /\ Len(pb) = offset + 1
       /\ \A k \in 1..(offset + 1) : pb[k] = IF k <= offset THEN Contents[k] ELSE Junk
  <2>1. /\ pb \in Seq(Byte) /\ Len(pb) = offset + 1
        /\ \A k \in 1..(offset + 1) : pb[k] = IF k <= offset THEN p[k] ELSE Blank(1)[k - offset]
    <3> DEFINE one == Blank(1)
    <3>1. one \in Seq(Byte) /\ Len(one) = 1 /\ pb = p \o one
      BY <1>10
    <3> HIDE DEF one, pb
    <3>2. /\ pb \in Seq(Byte) /\ Len(pb) = Len(p) + Len(one)
          /\ \A k \in 1..(Len(p) + Len(one)) :
               pb[k] = IF k <= Len(p) THEN p[k] ELSE one[k - Len(p)]
      <4>1. p \in Seq(Byte)
        BY <1>9
      <4> QED
        BY <3>1, <4>1, JoinedBytes
    <3> QED
      BY <1>9, <3>1, <3>2 DEF one
  <2>2. \A k \in 1..(offset + 1) : IF k <= offset THEN k \in 1..offset ELSE k - offset = 1
    BY <1>1, <1>2
  <2> QED
    BY <1>9, <1>10, <2>1, <2>2
<1> HIDE DEF pb
<1> DEFINE pbq == pb \o q
<1>12. /\ pbq \in Seq(Byte) /\ Len(pbq) = end + 1
       /\ \A k \in 1..(end + 1) : pbq[k] = IF k <= offset THEN Contents[k]
                                           ELSE IF k = offset + 1 THEN Junk ELSE Contents[k - 1]
  <2>1. pbq \in Seq(Byte) /\ Len(pbq) = end + 1
    BY <1>1, <1>2, <1>9, <1>11
  <2>2. ASSUME NEW k \in 1..(end + 1)
        PROVE  pbq[k] = IF k <= offset THEN Contents[k]
                        ELSE IF k = offset + 1 THEN Junk ELSE Contents[k - 1]
    <3>1. CASE k <= offset + 1
      BY <1>1, <1>2, <1>9, <1>11, <3>1
    <3>2. CASE ~(k <= offset + 1)
      <4>1. pbq[k] = q[k - (offset + 1)] /\ k - (offset + 1) \in 1..(end - offset)
            /\ (k - (offset + 1)) + offset = k - 1
        BY <1>1, <1>2, <1>9, <1>11, <3>2
      <4> QED
        BY <1>1, <1>9, <3>2, <4>1
    <3> QED
      BY <3>1, <3>2
  <2> QED
    BY <2>1, <2>2
<1> HIDE DEF pbq
<1>13. more = pbq \o Blank(type_size - 1)
  BY DEF pbq, pb
<1> HIDE DEF more
<1>14. /\ more \in Seq(Byte) /\ Len(more) = end + type_size
       /\ \A k \in 1..(end + type_size) :
            more[k] = IF k <= offset THEN Contents[k]
                      ELSE IF k \in (offset + 2)..(end + 1) THEN Contents[k - 1] ELSE Junk
  <2>1. (end + 1) + (type_size - 1) = end + type_size
    BY <1>2, <1>4
  <2>2. /\ more \in Seq(Byte) /\ Len(more) = end + type_size
        /\ \A k \in 1..(end + type_size) :
             more[k] = IF k <= end + 1 THEN pbq[k] ELSE Blank(type_size - 1)[k - (end + 1)]
    <3> DEFINE rest == Blank(type_size - 1)
    <3>1. rest \in Seq(Byte) /\ Len(rest) = type_size - 1 /\ more = pbq \o rest
      BY <1>10, <1>13
    <3> HIDE DEF rest
    <3>2. /\ more \in Seq(Byte) /\ Len(more) = Len(pbq) + Len(rest)
          /\ \A k \in 1..(Len(pbq) + Len(rest)) :
               more[k] = IF k <= Len(pbq) THEN pbq[k] ELSE rest[k - Len(pbq)]
      BY <1>12, <3>1, JoinedBytes
    <3> QED
      BY <1>12, <2>1, <3>1, <3>2 DEF rest
  <2>3. \A k \in 1..(end + type_size) :
          IF k <= end + 1 THEN k \in 1..(end + 1)
          ELSE k - (end + 1) \in 1..(type_size - 1)
    BY <1>2, <1>4
  <2>4. ASSUME NEW k \in 1..(end + type_size)
        PROVE  more[k] = IF k <= offset THEN Contents[k]
                         ELSE IF k \in (offset + 2)..(end + 1) THEN Contents[k - 1] ELSE Junk
    <3>1. CASE k <= end + 1
      <4>1. more[k] = IF k <= offset THEN Contents[k]
                      ELSE IF k = offset + 1 THEN Junk ELSE Contents[k - 1]
        BY <1>12, <2>2, <2>3, <3>1
      <4>2. ~(k <= offset) => (k # offset + 1 <=> k \in (offset + 2)..(end + 1))
        BY <1>1, <1>2, <1>4, <3>1
      <4> QED
        BY <4>1, <4>2
    <3>2. CASE ~(k <= end + 1)
      <4>1. ~(k <= offset) /\ k \notin (offset + 2)..(end + 1)
        BY <1>1, <1>2, <1>4, <3>2
      <4> QED
        BY <1>10, <2>2, <2>3, <3>2, <4>1
    <3> QED
      BY <3>1, <3>2
  <2> QED
    BY <2>2, <2>4
<1>15. Contents' = more
  <2>1. \A k \in 1..Len(Contents') : Contents'[k] = more[k]
    BY <1>3, <1>8, <1>14
  <2> QED
    BY <1>3, <1>14, <2>1, SameBytes
<1> QED
  BY <1>15 DEF more, p, q, offset

(* vector_fill writes the value over each element. *)
LEMMA FillOverwrites ==
  ASSUME VectorAssumption, TypeOK, NEW v \in Value, vector_fill(v)
  PROVE  Contents' = [k \in DOMAIN Contents |-> ElementOf(v)[((k - 1) % type_size) + 1]]
<1>1. TypeOK' /\ end' = end /\ type_size' = type_size /\ Byte' = Byte
  BY FillStep DEF vector_fill, Call, Remember, Use, Byte
<1>2. \A k \in 1..Len(buffer) :
        buffer'[k] = IF k <= end THEN ElementOf(v)[((k - 1) % type_size) + 1] ELSE buffer[k]
  BY DEF vector_fill, Use
<1>3. /\ Contents \in Seq(Byte) /\ Len(Contents) = end /\ end \in Nat
      /\ end <= Len(buffer) /\ Len(buffer) \in Nat
  BY BytesInUse DEF TypeOK
<1>4. /\ Contents' \in Seq(Byte) /\ Len(Contents') = end
      /\ \A k \in 1..end : Contents'[k] = buffer'[k]
  BY <1>1, BytesInUseNext
<1>5. \A k \in 1..end : k \in 1..Len(buffer) /\ k <= end
  BY <1>3
<1>6. \A k \in 1..end : Contents'[k] = ElementOf(v)[((k - 1) % type_size) + 1]
  BY <1>2, <1>4, <1>5
<1>7. DOMAIN Contents = 1..end
  BY <1>3
<1>8. Contents' = [k \in 1..end |-> Contents'[k]]
  BY <1>4
<1> QED
  BY <1>6, <1>7, <1>8

(* A block for n elements, with those in use at its start. *)
LEMMA ExpandCopies ==
  ASSUME VectorAssumption, TypeOK, type_size' = type_size,
         NEW STATE n, n \in Nat, vector_count <= n,
         NEW STATE e, e \in {end, n * type_size},
         Expand(n, e), pc' = "live"
  PROVE  /\ end' = e /\ Len(Contents') = e
         /\ \A k \in 1..e : Contents'[k] = IF k <= end THEN Contents[k] ELSE Junk
<1>1. /\ TypeOK' /\ end' = e /\ Byte' = Byte
      /\ buffer' = Placed(NewBuffer(n), 0, Contents)
  BY ExpandStep DEF Byte
<1>2. /\ Contents \in Seq(Byte) /\ Len(Contents) = end /\ end \in Nat
  BY BytesInUse
<1>3. /\ Len(Contents') = e /\ e \in Nat
      /\ \A k \in 1..e : Contents'[k] = buffer'[k]
      /\ e <= Len(buffer') /\ Len(buffer') \in Nat
  BY <1>1, BytesInUseNext DEF TypeOK
<1>4. Len(buffer') = Len(NewBuffer(n))
  <2>1. Len(NewBuffer(n)) = n * type_size /\ n * type_size \in Nat
    BY InUse, ExpandStep, Multiple
  <2> QED
    BY <1>1, <2>1 DEF Placed
<1>5. ASSUME NEW k \in 1..e
      PROVE  Contents'[k] = IF k <= end THEN Contents[k] ELSE Junk
  <2>1. k \in 1..Len(NewBuffer(n))
    BY <1>3, <1>4
  <2>2. NewBuffer(n)[k] = Junk
    BY <2>1, NewBufferIsJunk
  <2>3. Contents'[k] = IF k \in (0 + 1)..(0 + Len(Contents)) THEN Contents[k - 0]
                       ELSE NewBuffer(n)[k]
    BY <1>1, <1>3, <2>1, PlacedBytes
  <2>4. (k \in (0 + 1)..(0 + Len(Contents)) <=> k <= end) /\ k - 0 = k
    BY <1>2
  <2> QED
    BY <2>2, <2>3, <2>4
<1> QED
  BY <1>1, <1>3, <1>5

(* vector_expand changes no byte in use. *)
LEMMA ExpandKeepsTheBytes ==
  ASSUME VectorAssumption, TypeOK, NEW c \in Counts, vector_expand(c), pc' = "live"
  PROVE  Contents' = Contents /\ end' = end
<1>1. /\ type_size' = type_size /\ Expand(vector_count + c, end)
      /\ vector_count + c \in Nat /\ vector_count <= vector_count + c
  BY InUse DEF vector_expand, Call, Remember, VectorAssumption
<1>2. /\ end' = end /\ Len(Contents') = end
      /\ \A k \in 1..end : Contents'[k] = IF k <= end THEN Contents[k] ELSE Junk
  BY <1>1, ExpandCopies
<1>3. TypeOK' /\ Byte' = Byte
  BY <1>1, ExpandStep DEF Byte
<1>4. Contents \in Seq(Byte) /\ Len(Contents) = end /\ end \in Nat /\ Contents' \in Seq(Byte)
  BY <1>3, BytesInUse, BytesInUseNext
<1>5. \A k \in 1..Len(Contents') : Contents'[k] = Contents[k]
  BY <1>2, <1>4
<1>6. Contents' = Contents
  BY <1>2, <1>4, <1>5, SameBytes
<1> QED
  BY <1>2, <1>6

(* vector_new_count takes the whole block into use, as malloc left it. *)
LEMMA NewCountIsBlank ==
  ASSUME VectorAssumption, TypeOK, NEW n \in Counts, vector_new_count(n), pc' = "live"
  PROVE  Contents' = Blank(n * type_size)
<1>1. /\ type_size' = type_size /\ n \in Nat /\ end = 0
      /\ Expand(n, Len(NewBuffer(n)))
  BY DEF vector_new_count, Remember, VectorAssumption, TypeOK, Die
<1>2. vector_count <= n
  <2>1. 0 \div type_size = 0
    BY InUse, SMT
  <2> QED
    BY <1>1, <2>1 DEF vector_count
<1>3. Len(NewBuffer(n)) = n * type_size /\ n * type_size \in Nat
  <2>1. ~alloc_will_overflow(n)
    BY <1>1 DEF Expand, NoNewBuffer, Die
  <2> QED
    BY <1>1, <2>1, InUse, Multiple, NewBufferHasRoom DEF TypeOK
<1>4. /\ TypeOK' /\ Byte' = Byte /\ end' = n * type_size
      /\ Len(Contents') = n * type_size
      /\ \A k \in 1..(n * type_size) : Contents'[k] = IF k <= end THEN Contents[k] ELSE Junk
  BY <1>1, <1>2, <1>3, ExpandStep, ExpandCopies DEF Byte
<1>5. PICK m : m = n * type_size
  OBVIOUS
<1>6. Contents' \in Seq(Byte) /\ Len(Contents') = m /\ m \in Nat
  BY <1>3, <1>4, <1>5, BytesInUseNext
<1>7. \A k \in 1..m : Contents'[k] = Junk
  BY <1>1, <1>4, <1>5, <1>6
<1>8. Contents' = [k \in 1..m |-> Contents'[k]]
  BY <1>6
<1> QED
  BY <1>5, <1>7, <1>8 DEF Blank

-----------------------------------------------------------------------------
(* The vector implements WakSequence.                                      *)

(* The life of the sequence, as the refinement mapping has it. *)
Life == CASE pc = "unborn" -> "unborn"
          [] pc = "live"   -> "live"
          [] pc \in Over   -> "over"

(* The sequence's life, of the program counter. *)
LEMMA LifeOf ==
  /\ pc = "unborn" => Life = "unborn"
  /\ pc = "live" => Life = "live"
  /\ pc \in Over => Life = "over"
BY DEF Life, Over

(* ... and after a step. *)
LEMMA LifeOfNext ==
  /\ pc' = "unborn" => Life' = "unborn"
  /\ pc' = "live" => Life' = "live"
  /\ pc' \in Over => Life' = "over"
BY DEF Life, Over

(* Nothing is in use before the first call and after the last. *)
LEMMA NoBytes ==
  /\ buffer = << >> /\ end = 0 => Contents = << >>
  /\ buffer' = << >> /\ end' = 0 => Contents' = << >>
<1>1. SubSeq(<< >>, 1, 0) = << >>
  OBVIOUS
<1> QED
  BY <1>1 DEF Contents

(* However the process or the vector ends, the sequence is gone. *)
LEMMA DieIsEnd ==
  ASSUME type_size' = type_size, pc \in {"unborn", "live"}, NEW how \in Over, Die(how)
  PROVE  Sequence!Next
<1>1. Life \in {"unborn", "live"} /\ Life' = "over"
  BY LifeOf, LifeOfNext DEF Die
<1>2. Contents' = << >>
  BY NoBytes DEF Die
<1>3. Life # "over"
  BY <1>1
<1>4. Sequence!End
  BY <1>1, <1>2, <1>3 DEF Sequence!End, Life
<1> QED
  BY <1>4 DEF Sequence!Next

(* A change of the bytes of a living vector. *)
LEMMA LiveIsChange ==
  ASSUME pc = "live", pc' = "live"
  PROVE  Life = "live" /\ Life' = "live"
BY LifeOf, LifeOfNext

(* No buffer, no vector: the process has ended. *)
LEMMA NoNewBufferIsEnd ==
  ASSUME type_size' = type_size, pc \in {"unborn", "live"}, NEW STATE n, NoNewBuffer(n)
  PROVE  Sequence!Next
BY DieIsEnd DEF NoNewBuffer, Over

(* Each call ends the process or leaves the vector alive. *)
LEMMA LiveOrDead ==
  ASSUME [Next]_vars, pc \in {"unborn", "live"}
  PROVE  \/ UNCHANGED vars
         \/ pc' = "live"
         \/ \E how \in Over : Die(how) /\ type_size' = type_size
<1>1. ASSUME NEW n, NEW e, Expand(n, e), type_size' = type_size
      PROVE  pc' = "live" \/ \E how \in Over : Die(how) /\ type_size' = type_size
  BY <1>1 DEF Expand, NoNewBuffer, Use, Over
<1>2. CASE vector_new
  BY <1>2 DEF vector_new, Use, Remember, Over
<1>3. ASSUME NEW n \in Counts, vector_new_count(n)
      PROVE  pc' = "live" \/ \E how \in Over : Die(how) /\ type_size' = type_size
  BY <1>1, <1>3 DEF vector_new_count, Remember, Over
<1>4. ASSUME NEW n \in Counts, vector_expand(n)
      PROVE  pc' = "live" \/ \E how \in Over : Die(how) /\ type_size' = type_size
  BY <1>1, <1>4 DEF vector_expand, Call, Remember
<1>5. ASSUME NEW v \in Value, vector_append(v)
      PROVE  pc' = "live" \/ \E how \in Over : Die(how) /\ type_size' = type_size
  BY <1>5 DEF vector_append, Call, Remember, NoNewBuffer, Use, Over
<1>6. ASSUME NEW v \in Value, vector_fill(v)
      PROVE  pc' = "live"
  BY <1>6 DEF vector_fill, Use
<1>7. ASSUME NEW i \in 0..vector_count, vector_insert(i)
      PROVE  pc' = "live" \/ \E how \in Over : Die(how) /\ type_size' = type_size
  BY <1>7 DEF vector_insert, vector_insert_full, vector_insert_in_place, Call, Remember,
              NoNewBuffer, Use, Over
<1>8. CASE vector_free
  BY <1>8 DEF vector_free, Remember, Over
<1> QED
  BY <1>2, <1>3, <1>4, <1>5, <1>6, <1>7, <1>8 DEF Next, Terminating

(* Every step of the vector is a step of the sequence, or none. *)
LEMMA StepImplementsSequence ==
  ASSUME VectorAssumption, TypeOK, TypeOK', pc = "unborn" => Contents = << >>, [Next]_vars
  PROVE  [Sequence!Next]_(Sequence!vars)
<1>0. CASE UNCHANGED vars
  BY <1>0 DEF vars, Sequence!vars, Contents
<1>1. CASE pc \in Over
  <2>1. UNCHANGED vars
    BY <1>1 DEF Next, vector_new, vector_new_count, vector_expand, vector_append, vector_fill,
                vector_insert, Call, vector_free, Terminating, Over
  <2> QED
    BY <1>0, <2>1
<1>2. CASE /\ pc \in {"unborn", "live"}
           /\ \E how \in Over : Die(how) /\ type_size' = type_size
  BY <1>2, DieIsEnd
<1>3. CASE pc \in {"unborn", "live"} /\ pc' = "live" /\ ~UNCHANGED vars
  <2>1. CASE vector_new
    <3>1. Life = "unborn" /\ Life' = "live" /\ type_size' = type_size
      BY <1>3, <2>1, LifeOf, LifeOfNext DEF vector_new, Remember
    <3>2. Contents' = << >>
      BY <1>3, <2>1, NoBytes DEF vector_new, Use, Die
    <3>3. Blank(0 * type_size) = << >>
      <4>1. 0 * type_size = 0
        BY InUse, SMT
      <4>2. Blank(0) = << >>
        BY DEF Blank
      <4> QED
        BY <4>1, <4>2
    <3>4. Sequence!New(0)
      BY <3>1, <3>2, <3>3 DEF Sequence!New, Sequence!Blank, Sequence!Junk, Blank, Junk, Life
    <3> QED
      BY <3>1, <3>4 DEF Sequence!Next
  <2>2. ASSUME NEW n \in Counts, vector_new_count(n)
        PROVE  Sequence!Next
    <3>1. Life = "unborn" /\ Life' = "live" /\ type_size' = type_size
      BY <1>3, <2>2, LifeOf, LifeOfNext DEF vector_new_count, Remember
    <3>2. Contents' = Blank(n * type_size)
      BY <1>3, <2>2, NewCountIsBlank
    <3>3. Sequence!New(n)
      BY <3>1, <3>2 DEF Sequence!New, Sequence!Blank, Sequence!Junk, Blank, Junk, Life
    <3> QED
      BY <3>1, <3>3 DEF Sequence!Next
  <2>3. ASSUME NEW n \in Counts, vector_expand(n)
        PROVE  UNCHANGED Sequence!vars
    <3>1. Life = "live" /\ Life' = "live" /\ type_size' = type_size
      BY <1>3, <2>3, LiveIsChange DEF vector_expand, Call, Remember
    <3>2. Contents' = Contents
      BY <1>3, <2>3, ExpandKeepsTheBytes
    <3> QED
      BY <3>1, <3>2 DEF Sequence!vars, Life
  <2>4. ASSUME NEW v \in Value, vector_append(v)
        PROVE  Sequence!Next
    <3>1. Life = "live" /\ Life' = "live" /\ type_size' = type_size
      BY <1>3, <2>4, LiveIsChange DEF vector_append, Call, Remember
    <3>2. Contents' = Contents \o ElementOf(v)
      BY <1>3, <2>4, AppendAppends
    <3>3. Sequence!Append_(v)
      BY <3>1, <3>2 DEF Sequence!Append_, Sequence!Change, Sequence!ElementOf, ElementOf, Life
    <3> QED
      BY <3>1, <3>3 DEF Sequence!Next
  <2>5. ASSUME NEW v \in Value, vector_fill(v)
        PROVE  Sequence!Next
    <3>1. Life = "live" /\ Life' = "live" /\ type_size' = type_size
      BY <1>3, <2>5, LiveIsChange DEF vector_fill, Call, Remember
    <3>2. Contents' = [k \in DOMAIN Contents |-> ElementOf(v)[((k - 1) % type_size) + 1]]
      BY <1>3, <2>5, FillOverwrites
    <3>3. Sequence!Fill(v)
      BY <3>1, <3>2 DEF Sequence!Fill, Sequence!Change, Sequence!ElementOf, ElementOf, Life
    <3> QED
      BY <3>1, <3>3 DEF Sequence!Next
  <2>6. ASSUME NEW i \in 0..vector_count, vector_insert(i)
        PROVE  Sequence!Next
    <3>1. Life = "live" /\ Life' = "live" /\ type_size' = type_size
      BY <1>3, <2>6, LiveIsChange DEF vector_insert, Call, Remember
    <3>2. Contents' = SubSeq(Contents, 1, i * type_size) \o Blank(1)
                        \o SubSeq(Contents, i * type_size + 1, Len(Contents))
                        \o Blank(type_size - 1)
      BY <1>3, <2>6, InsertMovesByOne
    <3>3. Sequence!Insert(i)
      BY <3>1, <3>2 DEF Sequence!Insert, Sequence!Change, Sequence!Blank, Sequence!Junk,
                        Blank, Junk, Life
    <3>4. i \in 0..Sequence!count
      BY BytesInUse DEF Sequence!count, vector_count
    <3> QED
      BY <3>1, <3>3, <3>4 DEF Sequence!Next
  <2>7. ~vector_free /\ ~Terminating
    BY <1>3 DEF vector_free, Die, Terminating
  <2> QED
    BY <1>3, <2>1, <2>2, <2>3, <2>4, <2>5, <2>6, <2>7 DEF Next
<1> QED
  BY <1>0, <1>1, <1>2, <1>3, LiveOrDead DEF TypeOK

(* ImplementsTheSequence: through all the buffers and copies, a client     *)
(* sees the bytes WakSequence describes.                                   *)
THEOREM VectorIsASequence == Spec => ImplementsTheSequence
<1>1. Init => TypeOK /\ InBounds /\ (pc = "unborn" => Contents = << >>)
  BY VectorAssumption, InitTypeOK, NoBytes DEF Init
<1>2. TypeOK /\ InBounds /\ [Next]_vars => TypeOK' /\ InBounds'
  BY VectorAssumption, NextKeepsTypeOK
<1>3. TypeOK => (pc = "unborn" => Contents = << >>)
  <2> SUFFICES ASSUME TypeOK, pc = "unborn"
               PROVE  Contents = << >>
    OBVIOUS
  <2>1. Contents \in Seq(Byte) /\ Len(Contents) = 0
    BY BytesInUse DEF TypeOK
  <2> QED
    BY <2>1
<1>4. TypeOK /\ TypeOK' /\ [Next]_vars => [Sequence!Next]_(Sequence!vars)
  BY <1>3, VectorAssumption, StepImplementsSequence
<1>5. Init => Sequence!Init
  <2> SUFFICES ASSUME Init
               PROVE  Sequence!Init
    OBVIOUS
  <2>1. Contents = << >> /\ Life = "unborn"
    BY NoBytes, LifeOf DEF Init
  <2> QED
    BY <2>1 DEF Init, Sequence!Init, Life
<1> QED
  BY <1>1, <1>2, <1>4, <1>5, PTL DEF Spec, ImplementsTheSequence, Sequence!Spec

-----------------------------------------------------------------------------
(* The elements a client reads.                                            *)

(* The k-th byte of the i-th of n elements. *)
LEMMA ByteOfElement ==
  ASSUME NEW n \in Nat, NEW t \in Nat \ {0}, NEW i \in 1..n, NEW k \in 1..t
  PROVE  /\ (i - 1) * t \in Nat /\ i * t = (i - 1) * t + t
         /\ i * t <= n * t /\ n * t \in Nat
         /\ (i - 1) * t + k \in 1..(n * t)
         /\ ((((i - 1) * t + k) - 1) % t) + 1 = k
<1>1. i - 1 \in Nat /\ n - i \in Nat /\ i \in Nat
  OBVIOUS
<1>2. (i - 1) * t \in Nat /\ (n - i) * t \in Nat
  BY <1>1, Multiple
<1>3. ((i - 1) + 1) * t = (i - 1) * t + 1 * t /\ (i - 1) + 1 = i /\ 1 * t = t
  BY <1>1, Together
<1>4. (i + (n - i)) * t = i * t + (n - i) * t /\ i + (n - i) = n
  BY <1>1, Together
<1>5. \A q \in Nat : q % t = 0 => ((((q + k) - 1) % t) + 1) = k
  BY SMTT(20)
<1>6. ((i - 1) * t) % t = 0
  BY <1>1, Multiple
<1>7. i * t = (i - 1) * t + t /\ n * t = i * t + (n - i) * t
  BY <1>3, <1>4
<1> QED
  BY <1>2, <1>5, <1>6, <1>7

(* A value some client appended, or unwritten memory. *)
Elements == {Blank(type_size)} \cup {ElementOf(v) : v \in Value}

(* The i-th element of the bytes s is one. *)
Whole(s, i) ==
  \E x \in Elements : \A k \in 1..type_size : s[(i - 1) * type_size + k] = x[k]

WholeInv ==
  "vector_insert" \notin called => \A i \in 1..vector_count : Whole(Contents, i)

(* n elements in use are counted as n after a step. *)
LEMMA CountNext ==
  ASSUME VectorAssumption, TypeOK, type_size' = type_size,
         NEW n \in Nat, end' = n * type_size
  PROVE  vector_count' = n
<1>1. (n * type_size) \div type_size = n
  BY InUse, Multiple
<1> QED
  BY <1>1 DEF vector_count

(* Nothing in use, no element. *)
LEMMA NothingIsWhole ==
  ASSUME VectorAssumption, TypeOK, type_size' = type_size, end' = 0
  PROVE  WholeInv'
<1>1. 0 * type_size = 0 /\ 0 \in Nat
  BY InUse, SMT
<1>2. vector_count' = 0
  BY <1>1, CountNext
<1> QED
  BY <1>2 DEF WholeInv

(* A new element behind whole ones. *)
LEMMA AppendKeepsWhole ==
  ASSUME VectorAssumption, TypeOK, WholeInv, NEW v \in Value, vector_append(v), pc' = "live"
  PROVE  WholeInv'
<1> DEFINE c == vector_count
<1>1. c \in Nat /\ end = c * type_size /\ type_size \in Nat \ {0}
  BY InUse
<1>2. /\ type_size' = type_size /\ end' = end + type_size
      /\ called' = called \cup {"vector_append"}
  BY AppendStep DEF vector_append, Call, Remember
<1>3. vector_count' = c + 1
  <2>1. (c + 1) * type_size = c * type_size + type_size /\ c + 1 \in Nat
    BY <1>1, Together
  <2> QED
    BY <1>1, <1>2, <2>1, CountNext
<1>4. /\ Contents' = Contents \o ElementOf(v)
      /\ Contents \in Seq(Byte) /\ Len(Contents) = end /\ end \in Nat
      /\ ElementOf(v) \in Seq(Byte) /\ Len(ElementOf(v)) = type_size
  BY AppendAppends, BytesInUse, ElementIsBuffer, InUse
<1>5. \A k \in 1..(end + type_size) :
        Contents'[k] = IF k <= end THEN Contents[k] ELSE ElementOf(v)[k - end]
  BY <1>4, JoinedBytes
<1>6. Elements' = Elements
  BY <1>2 DEF Elements, Blank, ElementOf
<1> SUFFICES ASSUME "vector_insert" \notin called, NEW i \in 1..(c + 1)
             PROVE  \E x \in Elements :
                      \A k \in 1..type_size : Contents'[(i - 1) * type_size + k] = x[k]
  BY <1>2, <1>3, <1>6 DEF WholeInv, Whole
<1>7. CASE i \in 1..c
  <2>1. PICK x \in Elements : \A k \in 1..type_size : Contents[(i - 1) * type_size + k] = x[k]
    BY <1>7 DEF WholeInv, Whole
  <2>2. ASSUME NEW k \in 1..type_size
        PROVE  Contents'[(i - 1) * type_size + k] = x[k]
    <3>1. (i - 1) * type_size + k \in 1..end
      BY <1>1, <1>7, ByteOfElement
    <3>2. \A j \in 1..end : j \in 1..(end + type_size) /\ j <= end
      BY <1>1, <1>4
    <3> QED
      BY <1>5, <2>1, <3>1, <3>2
  <2> QED
    BY <2>2
<1>8. CASE i = c + 1
  <2>1. (i - 1) * type_size = end
    BY <1>1, <1>8
  <2>2. ASSUME NEW k \in 1..type_size
        PROVE  Contents'[end + k] = ElementOf(v)[k]
    <3>1. end + k \in 1..(end + type_size) /\ ~(end + k <= end) /\ (end + k) - end = k
      BY <1>1, <1>4
    <3> QED
      BY <1>5, <3>1
  <2>3. ElementOf(v) \in Elements
    BY DEF Elements
  <2> QED
    BY <2>1, <2>2, <2>3
<1> QED
  BY <1>1, <1>7, <1>8

(* Each element becomes the value. *)
LEMMA FillMakesWhole ==
  ASSUME VectorAssumption, TypeOK, NEW v \in Value, vector_fill(v)
  PROVE  WholeInv'
<1> DEFINE c == vector_count
<1>1. c \in Nat /\ end = c * type_size /\ type_size \in Nat \ {0}
  BY InUse
<1>2. type_size' = type_size /\ end' = end
  BY DEF vector_fill, Call, Remember, Use
<1>3. vector_count' = c
  BY <1>1, <1>2, CountNext
<1>4. /\ DOMAIN Contents = 1..end
      /\ Contents' = [k \in DOMAIN Contents |-> ElementOf(v)[((k - 1) % type_size) + 1]]
  BY BytesInUse, FillOverwrites
<1>5. Elements' = Elements
  BY <1>2 DEF Elements, Blank, ElementOf
<1> SUFFICES ASSUME NEW i \in 1..c
             PROVE  \E x \in Elements :
                      \A k \in 1..type_size : Contents'[(i - 1) * type_size + k] = x[k]
  BY <1>2, <1>3, <1>5 DEF WholeInv, Whole
<1>6. ASSUME NEW k \in 1..type_size
      PROVE  Contents'[(i - 1) * type_size + k] = ElementOf(v)[k]
  <2> DEFINE j == (i - 1) * type_size + k
  <2>1. j \in 1..end /\ ((j - 1) % type_size) + 1 = k
    BY <1>1, ByteOfElement
  <2> HIDE DEF j
  <2>2. Contents'[j] = ElementOf(v)[((j - 1) % type_size) + 1]
    BY <1>4, <2>1
  <2>3. Contents'[j] = ElementOf(v)[k]
    BY <2>1, <2>2
  <2> QED
    BY <2>3 DEF j
<1>7. ElementOf(v) \in Elements
  BY DEF Elements
<1> QED
  BY <1>6, <1>7

(* Elements nobody wrote are blank. *)
LEMMA NewCountIsWhole ==
  ASSUME VectorAssumption, TypeOK, TypeOK', NEW n \in Counts, vector_new_count(n), pc' = "live"
  PROVE  WholeInv'
<1>1. type_size' = type_size /\ n \in Nat /\ type_size \in Nat \ {0}
  BY InUse DEF vector_new_count, Remember, VectorAssumption
<1>2. Contents' = Blank(n * type_size) /\ n * type_size \in Nat
  BY <1>1, NewCountIsBlank, Multiple
<1>3. end' = n * type_size
  <2>1. Len(Contents') = end'
    BY BytesInUseNext
  <2>2. Len(Blank(n * type_size)) = n * type_size
    BY <1>2, BlankIsBuffer
  <2> QED
    BY <1>2, <2>1, <2>2
<1>4. vector_count' = n
  BY <1>1, <1>3, CountNext
<1>5. Elements' = Elements
  BY <1>1 DEF Elements, Blank, ElementOf
<1> SUFFICES ASSUME NEW i \in 1..n
             PROVE  \E x \in Elements :
                      \A k \in 1..type_size : Contents'[(i - 1) * type_size + k] = x[k]
  BY <1>1, <1>4, <1>5 DEF WholeInv, Whole
<1>6. ASSUME NEW k \in 1..type_size
      PROVE  Contents'[(i - 1) * type_size + k] = Blank(type_size)[k]
  <2>1. (i - 1) * type_size + k \in 1..(n * type_size)
    BY <1>1, ByteOfElement
  <2>2. \A m \in Nat : \A j \in 1..m : Blank(m)[j] = Junk
    BY DEF Blank
  <2> QED
    BY <1>1, <1>2, <2>1, <2>2
<1>7. Blank(type_size) \in Elements
  BY DEF Elements
<1> QED
  BY <1>6, <1>7

(* Every call but vector_insert keeps the elements whole. *)
LEMMA NextKeepsWholeInv ==
  ASSUME VectorAssumption, TypeOK, TypeOK', WholeInv, [Next]_vars
  PROVE  WholeInv'
<1>1. CASE UNCHANGED vars
  <2>1. type_size' = type_size /\ end' = end /\ called' = called /\ Contents' = Contents
    BY <1>1 DEF vars, Contents
  <2>2. vector_count' = vector_count /\ Elements' = Elements
    BY <2>1 DEF vector_count, Elements, Blank, ElementOf
  <2> QED
    BY <2>1, <2>2 DEF WholeInv, Whole
<1>2. CASE pc \in Over
  <2>1. UNCHANGED vars
    BY <1>2 DEF Next, vector_new, vector_new_count, vector_expand, vector_append, vector_fill,
                vector_insert, Call, vector_free, Terminating, Over
  <2> QED
    BY <1>1, <2>1
<1>3. CASE /\ pc \in {"unborn", "live"}
           /\ \E how \in Over : Die(how) /\ type_size' = type_size
  BY <1>3, NothingIsWhole DEF Die
<1>4. CASE pc \in {"unborn", "live"} /\ pc' = "live" /\ ~UNCHANGED vars
  <2>1. CASE vector_new
    <3>1. end' = 0 /\ type_size' = type_size
      BY <1>4, <2>1 DEF vector_new, Remember, Use, Die
    <3> QED
      BY <3>1, NothingIsWhole
  <2>2. ASSUME NEW n \in Counts, vector_new_count(n)
        PROVE  WholeInv'
    BY <1>4, <2>2, NewCountIsWhole
  <2>3. ASSUME NEW n \in Counts, vector_expand(n)
        PROVE  WholeInv'
    <3>1. Contents' = Contents /\ end' = end
      BY <1>4, <2>3, ExpandKeepsTheBytes
    <3>2. type_size' = type_size /\ called' = called \cup {"vector_expand"}
      BY <2>3 DEF vector_expand, Call, Remember
    <3> QED
      BY <3>1, <3>2 DEF WholeInv, Whole, Elements, vector_count, Blank, ElementOf
  <2>4. ASSUME NEW v \in Value, vector_append(v)
        PROVE  WholeInv'
    BY <1>4, <2>4, AppendKeepsWhole
  <2>5. ASSUME NEW v \in Value, vector_fill(v)
        PROVE  WholeInv'
    BY <2>5, FillMakesWhole
  <2>6. ASSUME NEW i \in 0..vector_count, vector_insert(i)
        PROVE  WholeInv'
    <3>1. "vector_insert" \in called'
      BY <2>6 DEF vector_insert, Call, Remember
    <3> QED
      BY <3>1 DEF WholeInv
  <2>7. ~vector_free /\ ~Terminating
    BY <1>4 DEF vector_free, Die, Terminating
  <2> QED
    BY <1>4, <2>1, <2>2, <2>3, <2>4, <2>5, <2>6, <2>7 DEF Next
<1> QED
  BY <1>1, <1>2, <1>3, <1>4, LiveOrDead DEF TypeOK

(* Whole elements are what a client reads, and so are elements of a byte. *)
LEMMA WholeIsRead ==
  ASSUME VectorAssumption, TypeOK, WholeInv
  PROVE  ElementsAreWhole
<1> SUFFICES ASSUME type_size = 1 \/ "vector_insert" \notin called, NEW i \in 1..vector_count
             PROVE  ElementAt(i) \in Elements
  BY DEF ElementsAreWhole, Elements
<1> DEFINE from == (i - 1) * type_size + 1
<1> DEFINE to == i * type_size
<1> DEFINE e == ElementAt(i)
<1>1. vector_count \in Nat /\ end = vector_count * type_size /\ type_size \in Nat \ {0}
  BY InUse
<1>2. buffer \in Seq(Byte) /\ end \in 0..Len(buffer) /\ Len(buffer) \in Nat
  BY DEF TypeOK
<1>3. /\ (i - 1) * type_size \in Nat /\ to = (i - 1) * type_size + type_size /\ to <= end
      /\ \A k \in 1..type_size : (i - 1) * type_size + k \in 1..end
  <2>1. 1 \in 1..type_size
    BY <1>1
  <2> QED
    BY <1>1, <2>1, ByteOfElement
<1>4. /\ from \in Nat \ {0} /\ to \in 0..Len(buffer) /\ from <= to + 1
      /\ (to - from) + 1 = type_size
      /\ \A k \in 1..type_size : (k + from) - 1 = (i - 1) * type_size + k
  <2>1. type_size \in Nat
    BY <1>1
  <2> HIDE DEF to
  <2> QED
    BY <1>2, <1>3, <2>1
<1>5. /\ e \in Seq(Byte) /\ Len(e) = type_size
      /\ \A k \in 1..type_size : e[k] = buffer[(i - 1) * type_size + k]
  <2>1. e = SubSeq(buffer, from, to)
    BY DEF ElementAt
  <2> HIDE DEF e, from, to
  <2> QED
    BY <1>2, <1>4, <2>1, PartOfBuffer
<1>6. \A k \in 1..type_size : e[k] = Contents[(i - 1) * type_size + k]
  BY <1>3, <1>5, BytesInUse
<1> SUFFICES e \in Elements
  OBVIOUS
<1> HIDE DEF e
<1>7. \A x \in Elements : x \in Seq(Byte) /\ Len(x) = type_size
  <2>1. Blank(type_size) \in Seq(Byte) /\ Len(Blank(type_size)) = type_size
    BY <1>1, BlankIsBuffer
  <2>2. \A v \in Value : ElementOf(v) \in Seq(Byte) /\ Len(ElementOf(v)) = type_size
    BY <1>1, ElementIsBuffer
  <2> QED
    BY <2>1, <2>2 DEF Elements
<1>8. ASSUME NEW x \in Elements, \A k \in 1..type_size : e[k] = x[k]
      PROVE  e \in Elements
  BY <1>5, <1>7, <1>8, SameBytes
<1>9. CASE "vector_insert" \notin called
  BY <1>6, <1>8, <1>9 DEF WholeInv, Whole
<1>10. CASE type_size = 1
  <2>1. e[1] \in Byte
    BY <1>5, <1>10
  <2>2. CASE e[1] = Junk
    <3>1. \A k \in 1..type_size : e[k] = Blank(type_size)[k]
      BY <1>10, <2>2 DEF Blank
    <3> QED
      BY <1>8, <3>1 DEF Elements
  <2>3. CASE e[1] \in {<<v, k>> : v \in Value, k \in 1..type_size}
    <3>1. PICK v \in Value : e[1] = <<v, 1>>
      BY <1>10, <2>3
    <3>2. \A k \in 1..type_size : e[k] = ElementOf(v)[k]
      BY <1>10, <3>1 DEF ElementOf
    <3> QED
      BY <1>8, <3>2 DEF Elements
  <2> QED
    BY <2>1, <2>2, <2>3 DEF Byte
<1> QED
  BY <1>9, <1>10

(* ElementsAreWhole: as long as nobody inserts, or if an element is a      *)
(* byte, a client reads values it appended or memory nobody wrote.         *)
THEOREM ClientsReadWholeElements == Spec => []ElementsAreWhole
<1>1. Init => TypeOK /\ InBounds /\ WholeInv
  <2> SUFFICES ASSUME Init
               PROVE  TypeOK /\ InBounds /\ WholeInv
    OBVIOUS
  <2>1. TypeOK /\ InBounds
    BY VectorAssumption, InitTypeOK
  <2>2. vector_count = 0
    <3>1. 0 \div type_size = 0
      BY <2>1, VectorAssumption, InUse, SMT
    <3> QED
      BY <3>1 DEF Init, vector_count
  <2> QED
    BY <2>1, <2>2 DEF WholeInv
<1>2. TypeOK /\ InBounds /\ WholeInv /\ [Next]_vars => TypeOK' /\ InBounds' /\ WholeInv'
  BY VectorAssumption, NextKeepsTypeOK, NextKeepsWholeInv
<1>3. TypeOK /\ WholeInv => ElementsAreWhole
  BY VectorAssumption, WholeIsRead
<1> QED
  BY <1>1, <1>2, <1>3, PTL DEF Spec
=============================================================================
