-------------------------- MODULE WakStrMapProofs --------------------------
(* The keyword map is correct for every table and every word. *)
EXTENDS WakStrMap, SequenceTheorems, WakInduction

(***************************************************************************)
(* strcmp orders strings: none precedes itself.                            *)
(***************************************************************************)
LEMMA PrecedesIrreflexive ==
  ASSUME NEW a \in Seq(Nat)
  PROVE  ~Precedes(a, a)
BY DEF Precedes

(* strcmp is transitive. *)
LEMMA PrecedesTransitive ==
  ASSUME NEW a \in Seq(Nat), NEW b \in Seq(Nat), NEW c \in Seq(Nat),
         Precedes(a, b), Precedes(b, c)
  PROVE  Precedes(a, c)
<1>1. PICK p \in 1..Len(b) : /\ \A j \in 1..(p - 1) : j <= Len(a) /\ a[j] = b[j]
                             /\ p <= Len(a) => a[p] < b[p]
  BY DEF Precedes
<1>2. PICK q \in 1..Len(c) : /\ \A j \in 1..(q - 1) : j <= Len(b) /\ b[j] = c[j]
                             /\ q <= Len(b) => b[q] < c[q]
  BY DEF Precedes
<1>3. CASE p < q
  <2>1. p \in 1..Len(c)
    BY <1>3
  <2>2. \A j \in 1..(p - 1) : j <= Len(a) /\ a[j] = c[j]
    BY <1>1, <1>2, <1>3
  <2>3. p <= Len(a) => a[p] < c[p]
    BY <1>1, <1>2, <1>3
  <2> QED
    BY <2>1, <2>2, <2>3 DEF Precedes
<1>4. CASE q < p
  <2>1. \A j \in 1..(q - 1) : j <= Len(a) /\ a[j] = c[j]
    BY <1>1, <1>2, <1>4
  <2>2. q <= Len(a) => a[q] < c[q]
    BY <1>1, <1>2, <1>4
  <2> QED
    BY <2>1, <2>2 DEF Precedes
<1>5. CASE p = q
  <2>1. \A j \in 1..(q - 1) : j <= Len(a) /\ a[j] = c[j]
    BY <1>1, <1>2, <1>5
  <2>2. ASSUME q <= Len(a) PROVE a[q] < c[q]
    <3>1. q \in 1..Len(a) /\ q \in 1..Len(b) /\ q \in 1..Len(c)
      BY <1>5, <2>2
    <3>2. a[q] \in Nat /\ b[q] \in Nat /\ c[q] \in Nat
      BY <3>1, ElementOfSeq
    <3>3. a[q] < b[q]
      BY <1>1, <1>5, <2>2
    <3>4. b[q] < c[q]
      BY <1>2, <3>1
    <3> QED
      BY <3>2, <3>3, <3>4
  <2> QED
    BY <2>1, <2>2 DEF Precedes
<1> QED
  BY <1>3, <1>4, <1>5

(* strcmp tells any two different strings apart. *)
LEMMA PrecedesTotal ==
  ASSUME NEW a \in Seq(Nat), NEW b \in Seq(Nat), a # b
  PROVE  Precedes(a, b) \/ Precedes(b, a)
<1> DEFINE D == {k \in Nat \ {0} : k > Len(a) \/ k > Len(b) \/ a[k] # b[k]}
<1>1. D \subseteq Nat /\ Len(a) + 1 \in D
  OBVIOUS
<1>2. PICK k \in D : \A m \in D : k <= m
  BY <1>1, LeastElement
<1>3. \A j \in 1..(k - 1) : j <= Len(a) /\ j <= Len(b) /\ a[j] = b[j]
  BY <1>2
<1>4. CASE k <= Len(a) /\ k <= Len(b)
  <2>1. a[k] \in Nat /\ b[k] \in Nat /\ a[k] # b[k]
    BY <1>2, <1>4
  <2>2. a[k] < b[k] \/ b[k] < a[k]
    BY <2>1
  <2>3. k \in 1..Len(a) /\ k \in 1..Len(b)
    BY <1>2, <1>4
  <2> QED
    BY <1>3, <2>2, <2>3 DEF Precedes
<1>5. CASE k > Len(a) /\ k <= Len(b)
  <2>1. k \in 1..Len(b) /\ ~(k <= Len(a))
    BY <1>2, <1>5
  <2> QED
    BY <1>3, <2>1 DEF Precedes
<1>6. CASE k <= Len(a) /\ k > Len(b)
  <2>1. k \in 1..Len(a) /\ ~(k <= Len(b))
    BY <1>2, <1>6
  <2>2. \A j \in 1..(k - 1) : j <= Len(b) /\ b[j] = a[j]
    BY <1>3
  <2> QED
    BY <2>1, <2>2 DEF Precedes
<1>7. CASE k > Len(a) /\ k > Len(b)
  <2>1. Len(a) = k - 1 /\ Len(b) = k - 1
    <3>1. k - 1 = 0 \/ k - 1 \in 1..(k - 1)
      BY <1>2
    <3> QED
      BY <1>2, <1>3, <1>7, <3>1
  <2>2. \A j \in 1..Len(a) : a[j] = b[j]
    BY <1>3, <2>1
  <2> QED
    BY <2>1, <2>2, SeqEqual
<1> QED
  BY <1>2, <1>4, <1>5, <1>6, <1>7
-----------------------------------------------------------------------------
(* The invariant holds before the first map is built. *)
THEOREM InitEstablishesStrMapInv == Init => StrMapInv
<1> SUFFICES ASSUME Init PROVE StrMapInv
  OBVIOUS
<1>1. table \in Seq(Entry) /\ table # << >> /\ pairs = table /\ Len(pairs) \in Nat \ {0}
  BY TablesAssumption, EmptySeq DEF Init
<1>2. << >> \in Seq(Nat) /\ NotFound \in Nat \cup {NotFound}
  BY EmptySeq
<1>3. NoAnswer \in [fn : {"none", "find_len", "find"}, word : Seq(Nat),
                    value : Nat \cup {NotFound}]
  BY <1>2 DEF NoAnswer
<1>4. TypeOK
  BY <1>1, <1>2, <1>3 DEF Init, TypeOK
<1>5. SortsOrReports
  BY <1>1 DEF Init, SortsOrReports
<1> QED
  BY <1>4, <1>5 DEF Init, StrMapInv, SortInv, SearchInv, NoAnswer,
                    FindLenReturnsTheLeastExtension, FindIsExact

Swapped(s, k) == [s EXCEPT ![k] = s[k + 1], ![k + 1] = s[k]]

(***************************************************************************)
(* Exchanging two neighbours loses no entry and makes no keys equal.       *)
(***************************************************************************)
LEMMA SwapPermutes ==
  ASSUME NEW s \in Seq(Entry), NEW k \in 1..Len(s), k + 1 \in 1..Len(s)
  PROVE  /\ Swapped(s, k) \in Seq(Entry) /\ Len(Swapped(s, k)) = Len(s) /\ Swapped(s, k) # << >>
         /\ \A a \in 1..Len(s) :
              Swapped(s, k)[a] = IF a = k THEN s[k + 1]
                                 ELSE IF a = k + 1 THEN s[k] ELSE s[a]
         /\ Entries(Swapped(s, k)) = Entries(s)
         /\ KeysDistinct(s) => KeysDistinct(Swapped(s, k))
<1> DEFINE t == Swapped(s, k)
<1>0. t = [s EXCEPT ![k] = s[k + 1], ![k + 1] = s[k]]
  BY DEF Swapped
<1> HIDE DEF t
<1>1. Len(s) \in Nat /\ DOMAIN s = 1..Len(s) /\ \A a \in 1..Len(s) : s[a] \in Entry
  OBVIOUS
<1>2. t \in Seq(Entry) /\ Len(t) = Len(s) /\ DOMAIN t = 1..Len(s) /\ t # << >>
  BY <1>0, <1>1
<1>3. \A a \in 1..Len(s) : t[a] = IF a = k THEN s[k + 1]
                                  ELSE IF a = k + 1 THEN s[k] ELSE s[a]
  BY <1>0, <1>1
<1>4. Entries(t) \subseteq Entries(s)
  BY <1>1, <1>2, <1>3 DEF Entries
<1>5. Entries(s) \subseteq Entries(t)
  <2> SUFFICES ASSUME NEW a \in 1..Len(s) PROVE \E b \in 1..Len(s) : t[b] = s[a]
    <3>1. \A e \in Entries(s) : \E a \in 1..Len(s) : e = s[a]
      BY <1>1 DEF Entries
    <3>2. \A e : (\E b \in 1..Len(s) : t[b] = e) => e \in Entries(t)
      BY <1>2 DEF Entries
    <3> QED
      BY <3>1, <3>2
  <2>1. CASE a = k
    BY <1>3, <2>1
  <2>2. CASE a = k + 1
    BY <1>3, <2>2
  <2>3. CASE a # k /\ a # k + 1
    BY <1>3, <2>3
  <2> QED
    BY <2>1, <2>2, <2>3
<1>6. ASSUME KeysDistinct(s) PROVE KeysDistinct(t)
  <2> SUFFICES ASSUME NEW a \in 1..Len(s), NEW b \in 1..Len(s), t[a].key = t[b].key
               PROVE  a = b
    BY <1>2 DEF KeysDistinct
  <2>1. \A x, y \in 1..Len(s) : s[x].key = s[y].key => x = y
    BY <1>1, <1>6 DEF KeysDistinct
  <2> DEFINE from(x) == IF x = k THEN k + 1 ELSE IF x = k + 1 THEN k ELSE x
  <2>2. from(a) \in 1..Len(s) /\ from(b) \in 1..Len(s)
    OBVIOUS
  <2>3. t[a] = s[from(a)] /\ t[b] = s[from(b)]
    BY <1>3
  <2>4. from(a) = from(b)
    BY <2>1, <2>2, <2>3
  <2> QED
    BY <2>4
<1> QED
  BY <1>2, <1>3, <1>4, <1>5, <1>6 DEF t

(***************************************************************************)
(* One comparison of the sort.                                             *)
(***************************************************************************)
LEMMA CompareStep ==
  ASSUME StrMapInv, compare
  PROVE  StrMapInv'
<1>1. /\ pc = "sort" /\ i < right /\ i' = i + 1
      /\ table' = table /\ map' = map /\ right' = right /\ word' = word
      /\ l' = l /\ r' = r /\ answer' = answer
      /\ pc' \in {"sort", "assert_failed"}
      /\ pc' = "assert_failed" <=> pairs[i].key = pairs[i + 1].key
  BY DEF compare, PassOver, StrMapInv, TypeOK
<1>2. /\ map = << >> /\ left <= i /\ i <= right /\ (i = left => i = 1)
      /\ answer = NoAnswer
  BY <1>1 DEF StrMapInv, SortInv, SearchInv
<1>3. /\ pairs \in Seq(Entry) /\ Len(pairs) \in Nat
      /\ left \in 1..Len(pairs) /\ right \in 1..Len(pairs)
      /\ i \in 1..Len(pairs) /\ i + 1 \in 1..Len(pairs)
      /\ DOMAIN pairs = 1..Len(pairs)
  BY <1>1, <1>2 DEF StrMapInv, TypeOK
<1>4. \A a \in 1..Len(pairs) : pairs[a] \in Entry /\ pairs[a].key \in Seq(Nat)
  <2>1. \A e \in Entry : e.key \in Seq(Nat)
    BY DEF Entry
  <2> QED
    BY <1>3, <2>1
<1>5. \A b \in 1..Len(pairs) : b > right \/ (b > left /\ b <= i) =>
        \A a \in 1..(b - 1) : Precedes(pairs[a].key, pairs[b].key)
  BY <1>1, <1>3 DEF StrMapInv, SortInv, InOrder
<1>6. \A a \in 1..(i - 1) : Precedes(pairs[a].key, pairs[i].key)
  BY <1>2, <1>3, <1>5
<1>7. /\ pairs' \in Seq(Entry) /\ Len(pairs') = Len(pairs) /\ pairs' # << >>
      /\ Entries(pairs') = Entries(pairs)
      /\ KeysDistinct(pairs) => KeysDistinct(pairs')
      /\ left' \in 1..Len(pairs) /\ left' <= i
  <2>1. CASE OutOfOrder(pairs[i], pairs[i + 1])
    <3>1. pairs' = Swapped(pairs, i) /\ left' = i
      BY <2>1 DEF compare, Swapped
    <3>2. /\ Swapped(pairs, i) \in Seq(Entry)
          /\ Len(Swapped(pairs, i)) = Len(pairs) /\ Swapped(pairs, i) # << >>
          /\ Entries(Swapped(pairs, i)) = Entries(pairs)
          /\ KeysDistinct(pairs) => KeysDistinct(Swapped(pairs, i))
      BY <1>3, SwapPermutes
    <3> QED
      BY <1>3, <3>1, <3>2
  <2>2. CASE ~OutOfOrder(pairs[i], pairs[i + 1])
    <3>1. pairs' = pairs /\ left' = left
      BY <2>2 DEF compare
    <3> QED
      BY <1>2, <1>3, <3>1 DEF StrMapInv, TypeOK
  <2> QED
    BY <2>1, <2>2
<1>8. TypeOK'
  BY <1>1, <1>2, <1>3, <1>7 DEF StrMapInv, TypeOK
<1>9. SortsOrReports' /\ (KeysDistinct(table) => KeysDistinct(pairs))'
  <2>1. Entries(pairs') = Entries(table') /\ (KeysDistinct(table') => KeysDistinct(pairs'))
    BY <1>1, <1>7 DEF StrMapInv, SortsOrReports
  <2>2. ASSUME pc' = "assert_failed"
        PROVE  \E a, b \in DOMAIN table : a # b /\ table[a].key = table[b].key
    <3>1. ~KeysDistinct(pairs)
      BY <1>1, <1>3, <2>2 DEF KeysDistinct
    <3> QED
      BY <3>1 DEF KeysDistinct, StrMapInv
  <2> QED
    BY <1>1, <1>2, <2>1, <2>2 DEF SortsOrReports
<1>10. SortInv'
  <2> SUFFICES ASSUME pc' = "sort" PROVE SortInv'
    BY DEF SortInv
  <2>1. /\ map' = << >> /\ left' <= i' /\ i' <= right'
        /\ i' # left'
    BY <1>1, <1>2, <1>3, <1>7
  <2>2. ASSUME NEW b \in 1..Len(pairs), b > right \/ (b > left' /\ b <= i + 1),
               NEW a \in 1..(b - 1)
        PROVE  Precedes(pairs'[a].key, pairs'[b].key)
    <3>0. a \in 1..Len(pairs) /\ a < b
      BY <1>3
    <3>1. CASE OutOfOrder(pairs[i], pairs[i + 1])
      <4>1. pairs' = Swapped(pairs, i) /\ left' = i
        BY <3>1 DEF compare, Swapped
      <4>2. \A c \in 1..Len(pairs) :
              pairs'[c] = IF c = i THEN pairs[i + 1]
                          ELSE IF c = i + 1 THEN pairs[i] ELSE pairs[c]
        BY <1>3, <4>1, SwapPermutes
      <4>3. CASE b = i + 1
        <5>1. pairs'[b] = pairs[i] /\ pairs'[a] = IF a = i THEN pairs[i + 1] ELSE pairs[a]
          BY <1>3, <3>0, <4>2, <4>3
        <5>2. CASE a = i
          BY <3>1, <5>1, <5>2 DEF OutOfOrder
        <5>3. CASE a # i
          BY <1>3, <1>6, <3>0, <4>3, <5>1, <5>3
        <5> QED
          BY <5>2, <5>3
      <4>4. CASE b # i + 1
        <5>1. b > right /\ b # i /\ b # i + 1
          BY <1>1, <1>3, <2>2, <4>1, <4>4
        <5>2. PICK c \in 1..(b - 1) : pairs'[a] = pairs[c]
          BY <1>1, <1>3, <3>0, <4>2, <5>1
        <5>3. pairs'[b] = pairs[b]
          BY <4>2, <5>1
        <5> QED
          BY <1>5, <5>1, <5>2, <5>3
      <4> QED
        BY <4>3, <4>4
    <3>2. CASE ~OutOfOrder(pairs[i], pairs[i + 1])
      <4>1. pairs' = pairs /\ left' = left
        BY <3>2 DEF compare
      <4>2. CASE b = i + 1 /\ ~(b > right)
        <5>1. Precedes(pairs[i].key, pairs[i + 1].key)
          BY <1>1, <1>3, <1>4, <3>2, PrecedesTotal DEF OutOfOrder
        <5>2. CASE a = i
          BY <4>1, <4>2, <5>1, <5>2
        <5>3. CASE a # i
          <6>1. a \in 1..(i - 1)
            BY <1>3, <3>0, <4>2, <5>3
          <6>2. Precedes(pairs[a].key, pairs[i].key)
            BY <1>6, <6>1
          <6> QED
            BY <1>3, <1>4, <3>0, <4>1, <4>2, <5>1, <6>2, PrecedesTransitive
        <5> QED
          BY <5>2, <5>3
      <4>3. CASE b # i + 1 \/ b > right
        <5>1. b > right \/ (b > left /\ b <= i)
          BY <1>3, <2>2, <4>1, <4>3
        <5> QED
          BY <1>5, <4>1, <5>1
      <4> QED
        BY <4>2, <4>3
    <3> QED
      BY <3>1, <3>2
  <2>3. DOMAIN pairs' = 1..Len(pairs)
    BY <1>7
  <2>4. \A b \in DOMAIN pairs' : b > right' \/ (b > left' /\ b <= i') =>
          \A a \in 1..(b - 1) : Precedes(pairs'[a].key, pairs'[b].key)
    BY <1>1, <2>2, <2>3
  <2> QED
    BY <2>1, <2>4 DEF SortInv, InOrder
<1>11. SearchInv'
  BY <1>1, <1>2 DEF SearchInv, NoAnswer
<1>12. FindLenReturnsTheLeastExtension' /\ FindIsExact'
  BY <1>1, <1>2 DEF FindLenReturnsTheLeastExtension, FindIsExact, NoAnswer
<1> QED
  BY <1>8, <1>9, <1>10, <1>11, <1>12 DEF StrMapInv

(***************************************************************************)
(* The end of a pass: everything behind the last exchange is in place, and *)
(* when there was none behind the first pair the whole array is.           *)
(***************************************************************************)
LEMMA NextPassStep ==
  ASSUME StrMapInv, next_pass
  PROVE  StrMapInv'
<1>1. /\ pc = "sort" /\ i >= right
      /\ right' = left /\ left' = 1 /\ i' = 1
      /\ table' = table /\ pairs' = pairs /\ word' = word
      /\ l' = l /\ r' = r /\ answer' = answer
      /\ \/ left > 1 /\ pc' = "sort" /\ map' = map
         \/ left <= 1 /\ pc' = "ready" /\ map' = pairs
  BY DEF next_pass, PassOver, StrMapInv, TypeOK
<1>2. /\ map = << >> /\ left <= i /\ i <= right
      /\ answer = NoAnswer
  BY <1>1 DEF StrMapInv, SortInv, SearchInv
<1>3. /\ pairs \in Seq(Entry) /\ Len(pairs) \in Nat /\ DOMAIN pairs = 1..Len(pairs)
      /\ left \in 1..Len(pairs) /\ right \in 1..Len(pairs) /\ i = right
      /\ pairs # << >>
  BY <1>1, <1>2 DEF StrMapInv, TypeOK
<1>4. \A b \in 1..Len(pairs) : b > left =>
        \A a \in 1..(b - 1) : Precedes(pairs[a].key, pairs[b].key)
  BY <1>1, <1>3 DEF StrMapInv, SortInv, InOrder
<1>5. TypeOK'
  BY <1>1, <1>3 DEF StrMapInv, TypeOK
<1>6. SortsOrReports' /\ (KeysDistinct(table) => KeysDistinct(pairs))'
  <2>1. ASSUME NEW a \in DOMAIN map', NEW b \in DOMAIN map', a < b
        PROVE  Precedes(map'[a].key, map'[b].key)
    <3>1. map' = pairs /\ left = 1
      BY <1>1, <1>2, <1>3, <2>1
    <3> QED
      BY <1>3, <1>4, <2>1, <3>1
  <2> QED
    BY <1>1, <2>1 DEF StrMapInv, SortsOrReports
<1>7. SortInv'
  <2>1. \A b \in 1..Len(pairs) : b > right' \/ (b > left' /\ b <= i') =>
          \A a \in 1..(b - 1) : Precedes(pairs[a].key, pairs[b].key)
    BY <1>1, <1>3, <1>4
  <2>2. pc' = "sort" => map' = << >> /\ left' <= i' /\ i' <= right' /\ i' = 1
    BY <1>1, <1>2, <1>3
  <2> QED
    BY <1>1, <1>3, <2>1, <2>2 DEF SortInv, InOrder
<1>8. SearchInv'
  BY <1>1, <1>2 DEF SearchInv, NoAnswer
<1>9. FindLenReturnsTheLeastExtension' /\ FindIsExact'
  BY <1>1, <1>2 DEF FindLenReturnsTheLeastExtension, FindIsExact, NoAnswer
<1> QED
  BY <1>5, <1>6, <1>7, <1>8, <1>9 DEF StrMapInv

(***************************************************************************)
(* While a search runs, the map is the sorted array and stays so.          *)
(***************************************************************************)
LEMMA SearchesLeaveTheMap ==
  ASSUME StrMapInv, pc \in {"ready", "find_len", "find"},
         pc' \in {"ready", "find_len", "find"},
         UNCHANGED <<table, pairs, map, left, right>>
  PROVE  /\ SortsOrReports' /\ SortInv'
         /\ (KeysDistinct(table) => KeysDistinct(pairs))'
         /\ Entries(map') = Entries(map)
BY DEF StrMapInv, SortsOrReports, SortInv

(* One iteration of const_str_map_find_len. *)
LEMMA FindLenStep ==
  ASSUME StrMapInv, find_len_loop
  PROVE  StrMapInv'
<1>1. /\ pc = "find_len" /\ i' = i + 1
      /\ table' = table /\ pairs' = pairs /\ map' = map /\ left' = left
      /\ right' = right /\ word' = word /\ l' = l /\ r' = r
  BY DEF find_len_loop
<1>2. /\ i <= Len(map) /\ word # << >> /\ word \in Seq(Nat)
      /\ \A k \in 1..(i - 1) : ~IsPrefix(word, map[k].key)
  BY <1>1 DEF StrMapInv, SearchInv, TypeOK
<1>3. /\ map = pairs /\ map \in Seq(Entry) /\ Len(map) \in Nat
      /\ DOMAIN map = 1..Len(map) /\ i \in 1..Len(map)
      /\ map[i] \in Entry /\ map # << >>
  <2>1. i \in Nat \ {0} /\ pairs \in Seq(Entry)
    BY DEF StrMapInv, TypeOK
  <2>2. map # << >>
    BY <1>2, <2>1, EmptySeq
  <2> QED
    BY <1>2, <2>1, <2>2 DEF StrMapInv, TypeOK
<1>4. map[i].value \in Nat
  BY <1>3 DEF Entry
<1>5. \/ /\ IsPrefix(word, map[i].key)
         /\ pc' = "ready"
         /\ answer' = [fn |-> "find_len", word |-> word, value |-> map[i].value]
      \/ /\ ~IsPrefix(word, map[i].key)
         /\ i < Len(map)
         /\ pc' = pc /\ answer' = answer
      \/ /\ ~IsPrefix(word, map[i].key)
         /\ i = Len(map)
         /\ pc' = "ready"
         /\ answer' = [fn |-> "find_len", word |-> word, value |-> NotFound]
  BY DEF find_len_loop, StrcmpLenIsZero, Return
<1>6. TypeOK'
  <2>1. answer' = answer \/ answer' \in [fn : {"none", "find_len", "find"},
                                        word : Seq(Nat), value : Nat \cup {NotFound}]
    BY <1>2, <1>4, <1>5
  <2>2. i' \in 1..(Len(map) + 1)
    BY <1>1, <1>3
  <2> QED
    BY <1>1, <1>3, <1>5, <2>1, <2>2 DEF StrMapInv, TypeOK
<1>7. /\ SortsOrReports' /\ SortInv' /\ Entries(map') = Entries(map)
      /\ (KeysDistinct(table) => KeysDistinct(pairs))'
  BY <1>1, <1>5, SearchesLeaveTheMap
<1>8. SearchInv'
  <2>1. ASSUME pc' = "find_len"
        PROVE  /\ i' <= Len(map') /\ word' # << >>
               /\ \A k \in 1..(i' - 1) : ~IsPrefix(word', map'[k].key)
    <3>1. ~IsPrefix(word, map[i].key) /\ i < Len(map)
      BY <1>5, <2>1
    <3>2. ASSUME NEW k \in 1..i PROVE ~IsPrefix(word, map[k].key)
      <4>1. k \in 1..(i - 1) \/ k = i
        BY <1>3
      <4> QED
        BY <1>2, <3>1, <4>1
    <3>3. i' - 1 = i /\ i' <= Len(map)
      BY <1>1, <1>3, <3>1
    <3> QED
      BY <1>1, <1>2, <3>2, <3>3
  <2>2. pc' # "find" /\ map' # << >>
    BY <1>1, <1>3, <1>5
  <2> QED
    BY <2>1, <2>2 DEF SearchInv
<1>9. FindLenReturnsTheLeastExtension'
  <2> DEFINE exts == {p \in Entries(map) : IsPrefix(word, p.key)}
  <2>1. CASE IsPrefix(word, map[i].key)
    <3>1. map[i] \in exts
      BY <1>3, <2>1 DEF Entries
    <3>2. ASSUME NEW q \in exts PROVE q = map[i] \/ Precedes(map[i].key, q.key)
      <4>1. PICK k \in 1..Len(map) : q = map[k]
        BY <1>3 DEF Entries
      <4>2. k >= i
        BY <1>2, <1>3, <4>1
      <4>3. CASE k = i
        BY <4>1, <4>3
      <4>4. CASE k > i
        BY <1>3, <4>1, <4>4 DEF StrMapInv, SortsOrReports
      <4> QED
        BY <1>3, <4>2, <4>3, <4>4
    <3> QED
      BY <1>1, <1>5, <2>1, <3>1, <3>2 DEF FindLenReturnsTheLeastExtension
  <2>2. CASE ~IsPrefix(word, map[i].key) /\ i = Len(map)
    <3>1. exts = {}
      BY <1>2, <1>3, <2>2 DEF Entries
    <3> QED
      BY <1>1, <1>5, <2>2, <3>1 DEF FindLenReturnsTheLeastExtension
  <2>3. CASE ~IsPrefix(word, map[i].key) /\ i < Len(map)
    BY <1>1, <1>5, <2>3 DEF FindLenReturnsTheLeastExtension, StrMapInv
  <2> QED
    BY <1>5, <2>1, <2>2, <2>3
<1>10. FindIsExact'
  BY <1>1, <1>5 DEF StrMapInv, FindIsExact
<1> QED
  BY <1>6, <1>7, <1>8, <1>9, <1>10 DEF StrMapInv

(***************************************************************************)
(* One iteration of the binary search halves what is left of the array.    *)
(***************************************************************************)
LEMMA FindStep ==
  ASSUME StrMapInv, find_loop
  PROVE  StrMapInv'
<1> DEFINE m == l + (r - l) \div 2
<1>1. /\ pc = "find" /\ i' = i
      /\ table' = table /\ pairs' = pairs /\ map' = map /\ left' = left
      /\ right' = right /\ word' = word
  BY DEF find_loop
<1>2. /\ map # << >> /\ l <= r + 1 /\ word \in Seq(Nat)
      /\ \A k \in 1..(l - 1) : Precedes(map[k].key, word)
      /\ \A k \in (r + 1)..Len(map) : Precedes(word, map[k].key)
  BY <1>1 DEF StrMapInv, SearchInv, TypeOK
<1>3. /\ map = pairs /\ map \in Seq(Entry) /\ Len(map) \in Nat
      /\ DOMAIN map = 1..Len(map)
      /\ l \in 1..(Len(map) + 1) /\ r \in 0..Len(map)
  BY <1>2 DEF StrMapInv, TypeOK
<1>4. \A k \in 1..Len(map) : map[k].key \in Seq(Nat) /\ map[k].value \in Nat
  <2>1. \A k \in 1..Len(map) : map[k] \in Entry
    BY <1>3
  <2> QED
    BY <2>1 DEF Entry
<1>5. l <= r => m \in l..r
  <2>1. \A d \in Nat : d \div 2 \in 0..d
    OBVIOUS
  <2> QED
    BY <1>3, <2>1
<1>6. \/ /\ l > r /\ pc' = "ready" /\ l' = l /\ r' = r
         /\ answer' = [fn |-> "find", word |-> word, value |-> NotFound]
      \/ /\ l <= r /\ map[m].key = word /\ pc' = "ready" /\ l' = l /\ r' = r
         /\ answer' = [fn |-> "find", word |-> word, value |-> map[m].value]
      \/ /\ l <= r /\ Precedes(map[m].key, word)
         /\ l' = m + 1 /\ r' = r /\ pc' = pc /\ answer' = answer
      \/ /\ l <= r /\ Precedes(word, map[m].key)
         /\ r' = m - 1 /\ l' = l /\ pc' = pc /\ answer' = answer
  BY <1>3 DEF find_loop, RangeEmpty, AfterMid, Return
<1> HIDE DEF m
<1>7. /\ SortsOrReports' /\ SortInv' /\ Entries(map') = Entries(map)
      /\ (KeysDistinct(table) => KeysDistinct(pairs))'
  BY <1>1, <1>6, SearchesLeaveTheMap
<1>8. TypeOK'
  <2>1. l' \in 1..(Len(map) + 1) /\ r' \in 0..Len(map)
    BY <1>3, <1>5, <1>6
  <2>2. answer' = answer \/ answer' \in [fn : {"none", "find_len", "find"},
                                        word : Seq(Nat), value : Nat \cup {NotFound}]
    BY <1>2, <1>3, <1>4, <1>5, <1>6
  <2> QED
    BY <1>1, <1>2, <1>3, <1>6, <2>1, <2>2 DEF StrMapInv, TypeOK
<1>9. SearchInv'
  <2> SUFFICES ASSUME pc' = "find"
               PROVE  /\ l' <= r' + 1
                      /\ \A k \in 1..(l' - 1) : Precedes(map[k].key, word)
                      /\ \A k \in (r' + 1)..Len(map) : Precedes(word, map[k].key)
    BY <1>1, <1>2, <1>6 DEF SearchInv
  <2>1. CASE l <= r /\ Precedes(map[m].key, word) /\ l' = m + 1 /\ r' = r
    <3>1. ASSUME NEW k \in 1..m PROVE Precedes(map[k].key, word)
      <4>1. CASE k = m
        BY <2>1, <4>1
      <4>2. CASE k < m
        <5>1. k \in 1..Len(map) /\ m \in 1..Len(map)
          BY <1>3, <1>5, <2>1
        <5>2. Precedes(map[k].key, map[m].key)
          BY <1>3, <4>2, <5>1 DEF StrMapInv, SortsOrReports
        <5> QED
          BY <1>2, <1>4, <2>1, <5>1, <5>2, PrecedesTransitive
      <4> QED
        BY <1>3, <1>5, <2>1, <4>1, <4>2
    <3> QED
      BY <1>2, <1>3, <1>5, <2>1, <3>1
  <2>2. CASE l <= r /\ Precedes(word, map[m].key) /\ r' = m - 1 /\ l' = l
    <3>1. ASSUME NEW k \in m..Len(map) PROVE Precedes(word, map[k].key)
      <4>1. CASE k = m
        BY <2>2, <4>1
      <4>2. CASE k > m
        <5>1. k \in 1..Len(map) /\ m \in 1..Len(map)
          BY <1>3, <1>5, <2>2
        <5>2. Precedes(map[m].key, map[k].key)
          BY <1>3, <4>2, <5>1 DEF StrMapInv, SortsOrReports
        <5> QED
          BY <1>2, <1>4, <2>2, <5>1, <5>2, PrecedesTransitive
      <4> QED
        BY <1>3, <1>5, <2>2, <4>1, <4>2
    <3> QED
      BY <1>2, <1>3, <1>5, <2>2, <3>1
  <2> QED
    BY <1>6, <2>1, <2>2
<1>10. FindLenReturnsTheLeastExtension'
  BY <1>1, <1>6 DEF StrMapInv, FindLenReturnsTheLeastExtension
<1>11. FindIsExact'
  <2>1. CASE l > r /\ answer' = [fn |-> "find", word |-> word, value |-> NotFound]
    <3>1. ASSUME NEW k \in 1..Len(map) PROVE map[k].key # word
      <4>1. Precedes(map[k].key, word) \/ Precedes(word, map[k].key)
        BY <1>2, <1>3, <2>1
      <4> QED
        BY <1>2, <4>1, PrecedesIrreflexive
    <3> QED
      BY <1>1, <1>3, <2>1, <3>1 DEF FindIsExact, Entries
  <2>2. CASE /\ l <= r /\ map[m].key = word
             /\ answer' = [fn |-> "find", word |-> word, value |-> map[m].value]
    <3>1. m \in 1..Len(map)
      BY <1>3, <1>5, <2>2
    <3>2. map[m] \in Entries(map)
      BY <1>3, <3>1 DEF Entries
    <3> QED
      BY <1>1, <2>2, <3>2 DEF FindIsExact
  <2>3. CASE answer' = answer
    BY <1>1, <2>3 DEF StrMapInv, FindIsExact
  <2> QED
    BY <1>6, <2>1, <2>2, <2>3
<1> QED
  BY <1>7, <1>8, <1>9, <1>10, <1>11 DEF StrMapInv

-----------------------------------------------------------------------------
(***************************************************************************)
(* Every step of the map's functions keeps the invariant.                  *)
(***************************************************************************)
THEOREM NextKeepsStrMapInv == StrMapInv /\ [Next]_vars => StrMapInv'
<1> SUFFICES ASSUME StrMapInv, [Next]_vars
             PROVE  StrMapInv'
  OBVIOUS
<1>1. CASE const_str_map_new
  <2>1. /\ pc = "ready" /\ pc' = "sort"
        /\ left' = 1 /\ right' = Len(pairs) /\ i' = 1
        /\ map' = << >> /\ answer' = NoAnswer
        /\ table' = table /\ pairs' = pairs /\ word' = word /\ l' = l /\ r' = r
    BY <1>1 DEF const_str_map_new, entry_count
  <2>2. pairs \in Seq(Entry) /\ Len(pairs) \in Nat \ {0} /\ DOMAIN pairs = 1..Len(pairs)
    BY EmptySeq DEF StrMapInv, TypeOK
  <2>3. NoAnswer \in [fn : {"none", "find_len", "find"}, word : Seq(Nat),
                      value : Nat \cup {NotFound}]
    BY EmptySeq DEF NoAnswer
  <2>4. TypeOK'
    BY <2>1, <2>2, <2>3 DEF StrMapInv, TypeOK
  <2>5. SortsOrReports' /\ SortInv' /\ SearchInv'
    BY <2>1, <2>2 DEF StrMapInv, SortsOrReports, SortInv, SearchInv
  <2> QED
    BY <2>1, <2>4, <2>5 DEF StrMapInv, NoAnswer,
                            FindLenReturnsTheLeastExtension, FindIsExact
<1>2. ASSUME NEW w \in Words, const_str_map_find_len(w) PROVE StrMapInv'
  <2>1. /\ pc = "ready" /\ pc' = "find_len" /\ map # << >> /\ word' = w /\ i' = 1
        /\ table' = table /\ pairs' = pairs /\ map' = map /\ left' = left
        /\ right' = right /\ l' = l /\ r' = r /\ answer' = answer
    BY <1>2 DEF const_str_map_find_len
  <2>2. w \in Seq(Nat) /\ w # << >>
    BY WordsAssumption
  <2>3. map = pairs /\ pairs \in Seq(Entry) /\ Len(map) \in Nat \ {0}
    BY <2>1, EmptySeq DEF StrMapInv, TypeOK
  <2>4. TypeOK'
    BY <2>1, <2>2, <2>3 DEF StrMapInv, TypeOK
  <2>5. SearchInv'
    BY <2>1, <2>2, <2>3 DEF SearchInv
  <2> QED
    BY <2>1, <2>4, <2>5, SearchesLeaveTheMap
       DEF StrMapInv, FindLenReturnsTheLeastExtension, FindIsExact
<1>3. ASSUME NEW w \in Words, const_str_map_find(w) PROVE StrMapInv'
  <2>1. /\ pc = "ready" /\ pc' = "find" /\ map # << >> /\ word' = w
        /\ l' = 1 /\ r' = Len(map)
        /\ table' = table /\ pairs' = pairs /\ map' = map /\ left' = left
        /\ right' = right /\ i' = i /\ answer' = answer
    BY <1>3 DEF const_str_map_find, LastEntry
  <2>2. w \in Seq(Nat)
    BY WordsAssumption
  <2>3. map = pairs /\ pairs \in Seq(Entry) /\ Len(map) \in Nat \ {0}
    BY <2>1, EmptySeq DEF StrMapInv, TypeOK
  <2>4. TypeOK'
    BY <2>1, <2>2, <2>3 DEF StrMapInv, TypeOK
  <2>5. SearchInv'
    BY <2>1, <2>3 DEF SearchInv
  <2> QED
    BY <2>1, <2>4, <2>5, SearchesLeaveTheMap
       DEF StrMapInv, FindLenReturnsTheLeastExtension, FindIsExact
<1>4. CASE const_str_map_free
  <2>1. /\ pc = "ready" /\ map' = << >> /\ answer' = NoAnswer /\ pc' = "ready"
        /\ table' = table /\ pairs' = pairs /\ left' = left /\ right' = right
        /\ i' = i /\ word' = word /\ l' = l /\ r' = r
    BY <1>4 DEF const_str_map_free
  <2>2. NoAnswer \in [fn : {"none", "find_len", "find"}, word : Seq(Nat),
                      value : Nat \cup {NotFound}]
    BY EmptySeq DEF NoAnswer
  <2>3. TypeOK'
    BY <2>1, <2>2 DEF StrMapInv, TypeOK
  <2>4. SortsOrReports' /\ SortInv' /\ SearchInv'
    BY <2>1 DEF StrMapInv, SortsOrReports, SortInv, SearchInv
  <2> QED
    BY <2>1, <2>3, <2>4 DEF StrMapInv, NoAnswer,
                            FindLenReturnsTheLeastExtension, FindIsExact
<1>5. CASE UNCHANGED vars
  BY <1>5 DEF vars, StrMapInv, TypeOK, SortsOrReports, SortInv, InOrder, SearchInv,
              FindLenReturnsTheLeastExtension, FindIsExact
<1> QED
  BY <1>1, <1>2, <1>3, <1>4, <1>5, CompareStep, NextPassStep, FindLenStep, FindStep
     DEF Next, Work, Terminating

(***************************************************************************)
(* The invariant holds for every table and every word looked up.           *)
(***************************************************************************)
THEOREM SpecKeepsStrMapInv == Spec => []StrMapInv
BY InitEstablishesStrMapInv, NextKeepsStrMapInv, PTL DEF Spec

(***************************************************************************)
(* const_str_map_new sorts every table, or reports a key it has twice.     *)
(***************************************************************************)
THEOREM SortIsCorrect == Spec => []SortsOrReports
<1>1. StrMapInv => SortsOrReports
  BY DEF StrMapInv
<1> QED
  BY <1>1, SpecKeepsStrMapInv, PTL

(***************************************************************************)
(* const_str_map_find_len returns the least key that begins with the word. *)
(***************************************************************************)
THEOREM LookupsAreCorrect == Spec => []FindLenReturnsTheLeastExtension
<1>1. StrMapInv => FindLenReturnsTheLeastExtension
  BY DEF StrMapInv
<1> QED
  BY <1>1, SpecKeepsStrMapInv, PTL

(***************************************************************************)
(* const_str_map_find returns the value of the word if the map has it, and *)
(* otherwise finds nothing.                                                *)
(***************************************************************************)
THEOREM BinarySearchIsExact == Spec => []FindIsExact
<1>1. StrMapInv => FindIsExact
  BY DEF StrMapInv
<1> QED
  BY <1>1, SpecKeepsStrMapInv, PTL
=============================================================================
